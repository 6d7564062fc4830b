---------------------------- MODULE ComposerProofs ----------------------------
(***************************************************************************)
(* Proofs about Composer and ComposerHistory, for any number of composers, *)
(* attributes and alternatives.                                            *)
(***************************************************************************)
EXTENDS ComposerHistory, Indices, TLAPS

\* What the actions keep true of an attribute and of a list of attributes.
AttOK(att) ==
  /\ att \in AttType
  /\ att.current \in 1..Len(att.alternatives)
  /\ Len(att.alternatives) <= MaxAlts

ListOK(atts) ==
  /\ atts \in Seq(AttType)
  /\ \A i \in 1..Len(atts) : AttOK(atts[i])
  /\ \A i, j \in 1..Len(atts) : atts[i].name = atts[j].name => i = j

-----------------------------------------------------------------------------
(* Single attributes *)

\* A new attribute is well formed.
LEMMA NewAttOK ==
  ASSUME NEW name \in Names, NEW value \in Values, NEW origin \in Classes \cup {NULL}
  PROVE  /\ AttOK(att_new(name, value, origin))
         /\ att_new(name, value, origin).name = name
         /\ att_new(name, value, origin).current = 1
         /\ Len(att_new(name, value, origin).alternatives) = 1
BY BoundAssumption DEF AttOK, AttType, att_new

\* Replacing the values of an attribute leaves it well formed and rewound.
LEMMA ReplaceAttOK ==
  ASSUME NEW att, AttOK(att), NEW value \in Values, NEW origin \in Classes \cup {NULL}
  PROVE  /\ AttOK(att_replace_value(att, value, origin))
         /\ att_replace_value(att, value, origin).name = att.name
         /\ att_replace_value(att, value, origin).current = 1
         /\ Len(att_replace_value(att, value, origin).alternatives) = 1
BY BoundAssumption DEF AttOK, AttType, att_replace_value

\* Adding a value makes the list longer and leaves the cursor alone.
LEMMA AddAttOK ==
  ASSUME NEW att, AttOK(att), NEW value \in Values, Len(att.alternatives) < MaxAlts
  PROVE  /\ AttOK(att_add_value(att, value))
         /\ att_add_value(att, value).name = att.name
         /\ att_add_value(att, value).current = att.current
         /\ Len(att_add_value(att, value).alternatives) = Len(att.alternatives) + 1
<1>. DEFINE longer == Append(att.alternatives, value)
<1>1. att \in AttType /\ att.alternatives \in Seq(Values) /\ att.current \in Nat
  BY DEF AttOK, AttType
<1>2. longer \in Seq(Values) /\ Len(longer) = Len(att.alternatives) + 1
  BY <1>1
<1>3. att_add_value(att, value) = [att EXCEPT !.alternatives = longer]
  BY DEF att_add_value
<1>. HIDE DEF longer
<1>4. att_add_value(att, value) = [name |-> att.name, alternatives |-> longer,
                                   current |-> att.current, origin |-> att.origin]
  BY <1>1, <1>3 DEF AttType
<1>. QED
  BY <1>1, <1>2, <1>4, BoundAssumption DEF AttOK, AttType

\* Moving the cursor of an attribute to an alternative.
LEMMA CursorOK ==
  ASSUME NEW att, AttOK(att), NEW k \in 1..Len(att.alternatives)
  PROVE  /\ AttOK([att EXCEPT !.current = k])
         /\ [att EXCEPT !.current = k].name = att.name
         /\ [att EXCEPT !.current = k].current = k
         /\ [att EXCEPT !.current = k].alternatives = att.alternatives
BY DEF AttOK, AttType

\* Rewinding undoes any move of the cursor.
LEMMA RewindUndoes ==
  ASSUME NEW att \in AttType, NEW k \in Nat
  PROVE  att_rewind([att EXCEPT !.current = k]) = [att EXCEPT !.current = 1]
<1>. DEFINE moved == [att EXCEPT !.current = k]
<1>1. moved \in AttType /\ moved.name = att.name /\ moved.origin = att.origin
      /\ moved.alternatives = att.alternatives
  BY DEF AttType
<1>. HIDE DEF moved
<1>2. [moved EXCEPT !.current = 1] =
        [name |-> att.name, alternatives |-> att.alternatives, current |-> 1, origin |-> att.origin]
  BY <1>1 DEF AttType
<1>3. [att EXCEPT !.current = 1] =
        [name |-> att.name, alternatives |-> att.alternatives, current |-> 1, origin |-> att.origin]
  BY DEF AttType
<1>. QED
  BY <1>2, <1>3 DEF att_rewind, moved

\* att_next advances while there is an alternative left, and the composer's
\* att_rewind after a failed att_next puts the cursor back on the first one.
LEMMA NextCursor ==
  ASSUME NEW att, AttOK(att)
  PROVE  /\ att_next_ok(att) <=> att.current < Len(att.alternatives)
         /\ att_next_ok(att) => att_next(att) = [att EXCEPT !.current = att.current + 1]
         /\ att_rewind(att_next(att)) = [att EXCEPT !.current = 1]
<1>1. att \in AttType /\ att.current \in 1..Len(att.alternatives)
      /\ Len(att.alternatives) \in Nat
  BY DEF AttOK, AttType
<1>2. CASE att.current < Len(att.alternatives)
  <2>1. att_next(att) = [att EXCEPT !.current = att.current + 1]
    BY <1>1, <1>2 DEF att_next, NoCell
  <2>2. att_next(att) \in AttType /\ att_next(att).current = att.current + 1
    BY <1>1, <2>1 DEF AttType
  <2>. QED
    <3>1. att_rewind(att_next(att)) = [att EXCEPT !.current = 1]
      BY <1>1, <2>1, RewindUndoes
    <3>. QED
      BY <1>1, <1>2, <2>1, <2>2, <3>1 DEF att_next_ok, NoCell
<1>3. CASE att.current = Len(att.alternatives)
  <2>1. att_next(att) = [att EXCEPT !.current = 0]
    BY <1>1, <1>3 DEF att_next, NoCell
  <2>2. att_next(att) \in AttType /\ att_next(att).current = 0
    BY <1>1, <2>1 DEF AttType
  <2>. QED
    <3>1. att_rewind(att_next(att)) = [att EXCEPT !.current = 1]
      BY <1>1, <2>1, RewindUndoes, SMTT(20)
    <3>. QED
      BY <1>1, <1>3, <2>1, <2>2, <3>1 DEF att_next_ok, NoCell
<1>. QED
  BY <1>1, <1>2, <1>3

-----------------------------------------------------------------------------
(* Attribute lists *)

\* Exchanging an attribute for one of the same name.
LEMMA ExchangeOK ==
  ASSUME NEW atts, ListOK(atts), NEW i \in 1..Len(atts), NEW att, AttOK(att),
         att.name = atts[i].name
  PROVE  /\ ListOK([atts EXCEPT ![i] = att])
         /\ Len([atts EXCEPT ![i] = att]) = Len(atts)
         /\ \A j \in 1..Len(atts) :
              [atts EXCEPT ![i] = att][j] = IF j = i THEN att ELSE atts[j]
<1>. DEFINE new == [atts EXCEPT ![i] = att]
<1>1. atts \in Seq(AttType) /\ att \in AttType
  BY DEF ListOK, AttOK
<1>2. new \in Seq(AttType) /\ Len(new) = Len(atts)
      /\ \A j \in 1..Len(atts) : new[j] = IF j = i THEN att ELSE atts[j]
  BY <1>1
<1>. HIDE DEF new
<1>3. ListOK(new)
  BY <1>2 DEF ListOK
<1>. QED
  BY <1>2, <1>3 DEF new

\* Appending an attribute with a new name.
LEMMA AppendOK ==
  ASSUME NEW atts, ListOK(atts), NEW att, AttOK(att),
         \A i \in 1..Len(atts) : atts[i].name # att.name
  PROVE  /\ ListOK(Append(atts, att))
         /\ Len(Append(atts, att)) = Len(atts) + 1
         /\ \A j \in 1..(Len(atts) + 1) :
              Append(atts, att)[j] = IF j = Len(atts) + 1 THEN att ELSE atts[j]
<1>. DEFINE new == Append(atts, att)
<1>1. atts \in Seq(AttType) /\ att \in AttType
  BY DEF ListOK, AttOK
<1>2. new \in Seq(AttType) /\ Len(new) = Len(atts) + 1
      /\ \A j \in 1..(Len(atts) + 1) : new[j] = IF j = Len(atts) + 1 THEN att ELSE atts[j]
  BY <1>1
<1>. HIDE DEF new
<1>3. ListOK(new)
  BY <1>1, <1>2 DEF ListOK
<1>. QED
  BY <1>2, <1>3 DEF new

\* Moving the cursors of all attributes.
LEMMA CursorsOK ==
  ASSUME NEW atts, ListOK(atts), NEW new, DOMAIN new = 1..Len(atts),
         new = [i \in 1..Len(atts) |-> new[i]],
         \A i \in 1..Len(atts) : AttOK(new[i]) /\ new[i].name = atts[i].name
  PROVE  ListOK(new) /\ Len(new) = Len(atts)
<1>1. Len(atts) \in Nat
  BY DEF ListOK
<1>2. new \in [1..Len(atts) -> AttType]
  BY DEF AttOK
<1>3. new \in Seq(AttType) /\ Len(new) = Len(atts)
  BY <1>1, <1>2
<1>. QED
  BY <1>3 DEF ListOK

\* pathcomp_retrieve_att finds an attribute when there is one of that name.
LEMMA RetrieveFinds ==
  ASSUME NEW atts, ListOK(atts), NEW name, HasAtt(atts, name)
  PROVE  /\ pathcomp_retrieve_att(atts, name) \in 1..Len(atts)
         /\ atts[pathcomp_retrieve_att(atts, name)].name = name
<1>1. DOMAIN atts = 1..Len(atts) /\ Len(atts) \in Nat
  BY DEF ListOK
<1>2. PICK i \in 1..Len(atts) : atts[i].name = name
  BY <1>1 DEF HasAtt
<1>3. \A j \in 1..(i - 1) : atts[j].name # name
  BY <1>1, <1>2 DEF ListOK
<1>. QED
  BY <1>1, <1>2, <1>3 DEF pathcomp_retrieve_att

\* A list that has been added to: the attributes that were there keep their
\* place and cursor, and one that was not is rewound.
Extends(new, old) ==
  /\ Len(new) \in {Len(old), Len(old) + 1}
  /\ \A i \in 1..Len(old) :
       /\ new[i].current = old[i].current
       /\ Len(new[i].alternatives) >= Len(old[i].alternatives)
  /\ \A i \in 1..Len(new) : i > Len(old) => new[i].current = 1

\* pathcomp_add_or_replace with an attribute that does not exist yet.
LEMMA CreateOK ==
  ASSUME NEW class, NEW atts, ListOK(atts), NEW name \in Names, NEW value \in Values,
         NEW action, ~HasAtt(atts, name)
  PROVE  LET new == pathcomp_add_or_replace(class, atts, name, value, NULL, action)
         IN  ListOK(new) /\ Extends(new, atts)
<1>. DEFINE att == att_new(name, value, NULL)
<1>1. AttOK(att) /\ att.name = name /\ att.current = 1
  BY NewAttOK
<1>. HIDE DEF att
<1>2. DOMAIN atts = 1..Len(atts) /\ Len(atts) \in Nat
  BY DEF ListOK
<1>3. \A i \in 1..Len(atts) : atts[i].name # att.name
  BY <1>1, <1>2 DEF HasAtt
<1>4. /\ ListOK(Append(atts, att))
      /\ Len(Append(atts, att)) = Len(atts) + 1
      /\ \A j \in 1..(Len(atts) + 1) :
           Append(atts, att)[j] = IF j = Len(atts) + 1 THEN att ELSE atts[j]
  BY <1>1, <1>3, AppendOK
<1>5. \A i \in 1..Len(atts) : Len(atts[i].alternatives) \in Nat
  BY DEF ListOK, AttOK, AttType
<1>6. Extends(Append(atts, att), atts)
  BY <1>1, <1>2, <1>4, <1>5 DEF Extends
<1>. QED
  BY <1>4, <1>6 DEF pathcomp_add_or_replace, att

\* The effect of pathcomp_set on the attributes.
LEMMA SetListOK ==
  ASSUME NEW class, NEW atts, ListOK(atts), NEW name \in Names, NEW value \in Values
  PROVE  LET new == pathcomp_add_or_replace(class, atts, name, value, NULL, "REPLACE")
         IN  ListOK(new) /\ (~HasAtt(atts, name) => Extends(new, atts))
<1>1. CASE ~HasAtt(atts, name)
  BY <1>1, CreateOK
<1>2. CASE HasAtt(atts, name)
  <2>. DEFINE i == pathcomp_retrieve_att(atts, name)
              att == att_replace_value(atts[i], value, NULL)
  <2>1. i \in 1..Len(atts)
    BY <1>2, RetrieveFinds
  <2>2. AttOK(atts[i])
    BY <2>1 DEF ListOK
  <2>3. AttOK(att) /\ att.name = atts[i].name
    BY <2>2, ReplaceAttOK
  <2>4. pathcomp_add_or_replace(class, atts, name, value, NULL, "REPLACE")
          = [atts EXCEPT ![i] = att]
    BY <1>2 DEF pathcomp_add_or_replace
  <2>. HIDE DEF i, att
  <2>5. ListOK([atts EXCEPT ![i] = att])
    BY <2>1, <2>3, ExchangeOK
  <2>. QED
    BY <1>2, <2>4, <2>5, Zenon
<1>. QED
  BY <1>1, <1>2

\* The effect of pathcomp_add on the attributes, within the bound.
LEMMA AddListOK ==
  ASSUME NEW class, NEW atts, ListOK(atts), NEW name \in Names, NEW value \in Values,
         \A i \in 1..Len(atts) : atts[i].name = name => Len(atts[i].alternatives) < MaxAlts
  PROVE  LET new == pathcomp_add_or_replace(class, atts, name, value, NULL, "ADD")
         IN  ListOK(new) /\ Extends(new, atts)
<1>1. CASE ~HasAtt(atts, name)
  BY <1>1, CreateOK
<1>2. CASE HasAtt(atts, name)
  <2>. DEFINE i == pathcomp_retrieve_att(atts, name)
              att == att_add_value(atts[i], value)
  <2>1. i \in 1..Len(atts) /\ atts[i].name = name
    BY <1>2, RetrieveFinds
  <2>2. AttOK(atts[i]) /\ Len(atts[i].alternatives) < MaxAlts
    BY <2>1 DEF ListOK
  <2>3. /\ AttOK(att) /\ att.name = atts[i].name /\ att.current = atts[i].current
        /\ Len(att.alternatives) = Len(atts[i].alternatives) + 1
    BY <2>2, AddAttOK
  <2>4. pathcomp_add_or_replace(class, atts, name, value, NULL, "ADD")
          = [atts EXCEPT ![i] = att]
    BY <1>2 DEF pathcomp_add_or_replace
  <2>. HIDE DEF i, att
  <2>5. /\ ListOK([atts EXCEPT ![i] = att])
        /\ Len([atts EXCEPT ![i] = att]) = Len(atts)
        /\ \A j \in 1..Len(atts) :
             [atts EXCEPT ![i] = att][j] = IF j = i THEN att ELSE atts[j]
    BY <2>1, <2>3, ExchangeOK
  <2>6. /\ Len(atts) \in Nat
        /\ \A j \in 1..Len(atts) : Len(atts[j].alternatives) \in Nat
    BY DEF ListOK, AttOK, AttType
  <2>7. Extends([atts EXCEPT ![i] = att], atts)
    BY <2>3, <2>5, <2>6 DEF Extends
  <2>. QED
    BY <2>4, <2>5, <2>7, Zenon
<1>. QED
  BY <1>1, <1>2

\* att_rewind on every attribute.
LEMMA RewindListOK ==
  ASSUME NEW atts, ListOK(atts)
  PROVE  LET new == [i \in DOMAIN atts |-> att_rewind(atts[i])]
         IN  /\ ListOK(new) /\ Len(new) = Len(atts)
             /\ \A i \in 1..Len(atts) : new[i].current = 1
<1>. DEFINE new == [i \in 1..Len(atts) |-> att_rewind(atts[i])]
<1>1. DOMAIN atts = 1..Len(atts)
  BY DEF ListOK
<1>2. ASSUME NEW i \in 1..Len(atts)
      PROVE  AttOK(new[i]) /\ new[i].name = atts[i].name /\ new[i].current = 1
  <2>1. AttOK(atts[i]) /\ 1 \in 1..Len(atts[i].alternatives)
    BY DEF ListOK, AttOK, AttType
  <2>. QED
    BY <2>1, CursorOK, Zenon DEF att_rewind
<1>3. DOMAIN new = 1..Len(atts) /\ new = [i \in 1..Len(atts) |-> new[i]]
  OBVIOUS
<1>. HIDE DEF new
<1>4. ListOK(new) /\ Len(new) = Len(atts)
  BY <1>2, <1>3, CursorsOK
<1>. QED
  BY <1>1, <1>2, <1>4 DEF new

\* Cloning attributes one by one copies the list.
LEMMA CloneList ==
  ASSUME NEW atts, ListOK(atts)
  PROVE  [i \in DOMAIN atts |-> att_clone(atts[i])] = atts
<1>1. ASSUME NEW i \in DOMAIN atts PROVE att_clone(atts[i]) = atts[i]
  BY DEF ListOK, AttOK, AttType, att_clone
<1>2. atts = [i \in DOMAIN atts |-> atts[i]]
  BY DEF ListOK
<1>. QED
  BY <1>1, <1>2

\* The cursors that the loop of pathcomp_next leaves behind.
TurnedTo(atts, i) ==
  IF ~Reached(atts, i) THEN atts[i].current
  ELSE IF atts[i].current < Len(atts[i].alternatives) THEN atts[i].current + 1 ELSE 1

\* The loop of pathcomp_next leaves every cursor on an alternative, at the
\* place that TurnedTo gives, and the alternatives as they were.
LEMMA TurnOK ==
  ASSUME NEW atts, ListOK(atts)
  PROVE  /\ ListOK(Turn(atts)) /\ Len(Turn(atts)) = Len(atts)
         /\ \A i \in 1..Len(atts) :
              /\ Turn(atts)[i].current = TurnedTo(atts, i)
              /\ Turn(atts)[i].alternatives = atts[i].alternatives
<1>. DEFINE new == [i \in 1..Len(atts) |-> Turn(atts)[i]]
<1>1. DOMAIN atts = 1..Len(atts) /\ Turn(atts) = new
  BY DEF ListOK, Turn
<1>2. ASSUME NEW i \in 1..Len(atts)
      PROVE  /\ AttOK(new[i]) /\ new[i].name = atts[i].name
             /\ new[i].current = TurnedTo(atts, i)
             /\ new[i].alternatives = atts[i].alternatives
  <2>0. /\ AttOK(atts[i])
        /\ Len(atts[i].alternatives) \in Nat
        /\ atts[i].current \in 1..Len(atts[i].alternatives)
    BY DEF ListOK, AttOK, AttType
  <2>1. CASE ~Reached(atts, i)
    <3>1. new[i] = atts[i]
      BY <1>1, <2>1 DEF Turn
    <3>. QED
      BY <2>0, <2>1, <3>1 DEF TurnedTo
  <2>2. CASE Reached(atts, i) /\ att_next_ok(atts[i])
    <3>1. atts[i].current < Len(atts[i].alternatives)
      BY <2>0, <2>2, NextCursor
    <3>2. new[i] = [atts[i] EXCEPT !.current = atts[i].current + 1]
      BY <1>1, <2>0, <2>2, NextCursor DEF Turn
    <3>3. atts[i].current + 1 \in 1..Len(atts[i].alternatives)
      BY <2>0, <3>1
    <3>. DEFINE att == [atts[i] EXCEPT !.current = atts[i].current + 1]
    <3>4. /\ AttOK(att) /\ att.name = atts[i].name
          /\ att.current = atts[i].current + 1 /\ att.alternatives = atts[i].alternatives
      BY <2>0, <3>3, CursorOK
    <3>. HIDE DEF att
    <3>5. new[i] = att
      BY <3>2 DEF att
    <3>6. TurnedTo(atts, i) = atts[i].current + 1
      BY <2>2, <3>1 DEF TurnedTo
    <3>. QED
      BY <3>4, <3>5, <3>6
  <2>3. CASE Reached(atts, i) /\ ~att_next_ok(atts[i])
    <3>1. ~(atts[i].current < Len(atts[i].alternatives))
      BY <2>0, <2>3, NextCursor
    <3>2. new[i] = [atts[i] EXCEPT !.current = 1]
      BY <1>1, <2>0, <2>3, NextCursor DEF Turn
    <3>3. 1 \in 1..Len(atts[i].alternatives)
      BY <2>0
    <3>. DEFINE att == [atts[i] EXCEPT !.current = 1]
    <3>4. /\ AttOK(att) /\ att.name = atts[i].name
          /\ att.current = 1 /\ att.alternatives = atts[i].alternatives
      BY <2>0, <3>3, CursorOK, Zenon
    <3>. HIDE DEF att
    <3>5. new[i] = att
      BY <3>2 DEF att
    <3>6. TurnedTo(atts, i) = 1
      BY <2>3, <3>1 DEF TurnedTo
    <3>. QED
      BY <3>4, <3>5, <3>6
  <2>. QED
    BY <2>1, <2>2, <2>3
<1>3. DOMAIN new = 1..Len(atts) /\ new = [i \in 1..Len(atts) |-> new[i]]
  OBVIOUS
<1>. HIDE DEF new
<1>4. ListOK(new) /\ Len(new) = Len(atts)
  BY <1>2, <1>3, CursorsOK
<1>. QED
  BY <1>1, <1>2, <1>4

-----------------------------------------------------------------------------
(* Composers *)

CompOK(comp) == comp \in ComposerType /\ ListOK(comp.attributes)

\* pathcomp_new returns a well-formed composer on its first combination.
LEMMA NewOK ==
  ASSUME NEW class \in Classes
  PROVE  LET comp == pathcomp_new(class, FromConfig[class])
         IN  CompOK(comp) /\ Rewound(comp) /\ ~comp.done /\ ~comp.started
<1>. DEFINE atts == FromConfig[class]
<1>1. /\ atts \in Seq(AttType) /\ AttsOK(atts) /\ DOMAIN atts = 1..Len(atts)
      /\ \A i \in DOMAIN atts : atts[i].current = 1 /\ Len(atts[i].alternatives) <= MaxAlts
  BY FromConfigAssumption
<1>. HIDE DEF atts
<1>2. ListOK(atts)
  BY <1>1 DEF ListOK, AttsOK, AttOK
<1>. QED
  BY <1>1, <1>2 DEF pathcomp_new, CompOK, ComposerType, Rewound, atts

\* pathcomp_clone returns an equal composer, cursors and flags included.
LEMMA CloneOK ==
  ASSUME NEW comp, CompOK(comp)
  PROVE  pathcomp_clone(comp) = comp
BY CloneList DEF CompOK, ComposerType, pathcomp_clone

\* A composer is its fields, and changing its attributes leaves the others.
LEMMA WithAttributes ==
  ASSUME NEW comp \in ComposerType, NEW atts, ListOK(atts)
  PROVE  /\ CompOK([comp EXCEPT !.attributes = atts])
         /\ [comp EXCEPT !.attributes = atts].attributes = atts
         /\ [comp EXCEPT !.attributes = atts].done = comp.done
         /\ [comp EXCEPT !.attributes = atts].started = comp.started
BY DEF CompOK, ComposerType, ListOK

\* pathcomp_set keeps a composer well-formed and leaves its flags alone; under a
\* new name it only appends an attribute.
LEMMA SetOK ==
  ASSUME NEW comp, CompOK(comp), NEW name \in Names, NEW value \in Values
  PROVE  LET new == pathcomp_set(comp, name, value)
         IN  /\ CompOK(new) /\ new.done = comp.done /\ new.started = comp.started
             /\ ~HasAtt(comp.attributes, name) => Extends(new.attributes, comp.attributes)
<1>. DEFINE atts == pathcomp_add_or_replace(comp.name, comp.attributes, name, value, NULL, "REPLACE")
<1>1. comp \in ComposerType /\ ListOK(comp.attributes)
  BY DEF CompOK
<1>2. ListOK(atts) /\ (~HasAtt(comp.attributes, name) => Extends(atts, comp.attributes))
  BY <1>1, SetListOK
<1>3. pathcomp_set(comp, name, value) = [comp EXCEPT !.attributes = atts]
  BY DEF pathcomp_set
<1>. HIDE DEF atts
<1>. QED
  BY <1>1, <1>2, <1>3, WithAttributes

\* pathcomp_add keeps a composer well-formed and leaves its flags alone; it only
\* appends, an alternative or an attribute.
LEMMA AddOK ==
  ASSUME NEW comp, CompOK(comp), NEW name \in Names, NEW value \in Values, Room(comp, name)
  PROVE  LET new == pathcomp_add(comp, name, value)
         IN  /\ CompOK(new) /\ new.done = comp.done /\ new.started = comp.started
             /\ Extends(new.attributes, comp.attributes)
<1>. DEFINE atts == pathcomp_add_or_replace(comp.name, comp.attributes, name, value, NULL, "ADD")
<1>1. comp \in ComposerType /\ ListOK(comp.attributes)
  BY DEF CompOK
<1>2. \A i \in 1..Len(comp.attributes) : comp.attributes[i].name = name
        => Len(comp.attributes[i].alternatives) < MaxAlts
  BY <1>1 DEF Room, ListOK
<1>3. ListOK(atts) /\ Extends(atts, comp.attributes)
  BY <1>1, <1>2, AddListOK
<1>4. pathcomp_add(comp, name, value) = [comp EXCEPT !.attributes = atts]
  BY DEF pathcomp_add
<1>. HIDE DEF atts
<1>. QED
  BY <1>1, <1>3, <1>4, WithAttributes

\* pathcomp_rewind puts every cursor on the first alternative and clears both flags.
LEMMA RewindOK ==
  ASSUME NEW comp, CompOK(comp)
  PROVE  LET new == pathcomp_rewind(comp)
         IN  CompOK(new) /\ Rewound(new) /\ ~new.done /\ ~new.started
<1>. DEFINE atts == [i \in DOMAIN comp.attributes |-> att_rewind(comp.attributes[i])]
<1>1. comp \in ComposerType /\ ListOK(comp.attributes)
  BY DEF CompOK
<1>2. /\ ListOK(atts) /\ Len(atts) = Len(comp.attributes)
      /\ \A i \in 1..Len(comp.attributes) : atts[i].current = 1
  BY <1>1, RewindListOK, Zenon
<1>3. pathcomp_rewind(comp) =
        [name |-> comp.name, attributes |-> atts, done |-> FALSE, started |-> FALSE]
  BY DEF pathcomp_rewind
<1>. HIDE DEF atts
<1>. QED
  BY <1>1, <1>2, <1>3 DEF CompOK, ComposerType, ListOK, Rewound

\* pathcomp_next on a composer that is not done.
LEMMA NextOK ==
  ASSUME NEW comp, CompOK(comp)
  PROVE  LET new == pathcomp_next(comp)
         IN  /\ CompOK(new) /\ new.started = comp.started
             /\ comp.done => new = comp
             /\ ~comp.done =>
                  /\ new.attributes = Turn(comp.attributes)
                  /\ new.done <=> \A i \in 1..Len(comp.attributes) :
                        ~(comp.attributes[i].current < Len(comp.attributes[i].alternatives))
<1>. DEFINE atts == comp.attributes
            done == \A i \in DOMAIN comp.attributes : ~att_next_ok(comp.attributes[i])
<1>1. comp \in ComposerType /\ ListOK(atts)
  BY DEF CompOK
<1>2. ListOK(Turn(atts))
  BY <1>1, TurnOK
<1>3. done <=> \A i \in 1..Len(atts) : ~(atts[i].current < Len(atts[i].alternatives))
  BY <1>1, NextCursor DEF ListOK
<1>4. CASE ~comp.done
  <2>1. pathcomp_next(comp) = [name |-> comp.name, attributes |-> Turn(atts),
                               done |-> done, started |-> comp.started]
    BY <1>4 DEF pathcomp_next
  <2>2. done \in BOOLEAN
    OBVIOUS
  <2>. HIDE DEF done
  <2>. QED
    BY <1>1, <1>2, <1>3, <1>4, <2>1, <2>2 DEF CompOK, ComposerType, ListOK
<1>5. CASE comp.done
  BY <1>5 DEF pathcomp_next
<1>. QED
  BY <1>4, <1>5

\* An iteration of pathcomp_find keeps a composer well-formed and, the started
\* flag apart, does what pathcomp_next does or nothing.
LEMMA FindMoveOK ==
  ASSUME NEW comp, CompOK(comp)
  PROVE  LET new  == FindMove(comp)
             next == IF comp.started THEN pathcomp_next(comp) ELSE comp
         IN  /\ CompOK(new) /\ new.started
             /\ new.attributes = next.attributes /\ new.done = next.done
<1>. DEFINE next == IF comp.started THEN pathcomp_next(comp) ELSE comp
<1>1. CompOK(next)
  BY NextOK
<1>2. FindMove(comp) = [next EXCEPT !.started = TRUE]
  BY DEF FindMove
<1>. HIDE DEF next
<1>3. CompOK([next EXCEPT !.started = TRUE]) /\ [next EXCEPT !.started = TRUE].started
      /\ [next EXCEPT !.started = TRUE].attributes = next.attributes
      /\ [next EXCEPT !.started = TRUE].done = next.done
  BY <1>1, Zenon DEF CompOK, ComposerType
<1>. QED
  BY <1>2, <1>3 DEF next

-----------------------------------------------------------------------------
(* Type correctness *)

\* The type invariant with the bound on alternatives, which makes it inductive.
CInv ==
  /\ composer \in [Composers -> ComposerType \cup {NULL}]
  /\ \A c \in Composers : Live(c) => CompOK(composer[c])
  /\ finding \in Composers \cup {NULL}
  /\ finding # NULL => Live(finding)
  /\ files \subseteq Paths

\* The inductive invariant of the composers implies the type invariant.
LEMMA CInvImpliesTypeOK == CInv => TypeOK
<1>1. ASSUME NEW atts, ListOK(atts) PROVE AttsOK(atts)
  BY <1>1 DEF ListOK, AttOK, AttsOK
<1>. QED
  BY <1>1 DEF CInv, TypeOK, CompOK

\* Changing one composer into a well-formed one.
LEMMA CInvUpdate ==
  ASSUME CInv, NEW c \in Composers, NEW new, CompOK(new),
         composer' = [composer EXCEPT ![c] = new],
         finding' \in {NULL, c}, UNCHANGED files
  PROVE  CInv'
<1>1. new \in ComposerType /\ new # NULL
  BY NullAssumption DEF CompOK
<1>2. composer'[c] = new /\ \A d \in Composers : d # c => composer'[d] = composer[d]
  BY DEF CInv
<1>3. composer' \in [Composers -> ComposerType \cup {NULL}]
  BY <1>1 DEF CInv
<1>. QED
  BY <1>1, <1>2, <1>3 DEF CInv, Live

\* No composer exists before the first pathcomp_new, so the invariant holds.
LEMMA CInvInit == Init => CInv
BY NullAssumption DEF Init, CInv, Live

\* Every call of the library, and every iteration of pathcomp_find, preserves the
\* invariant.
LEMMA CInvStep == CInv /\ [Next]_vars => CInv'
<1>. SUFFICES ASSUME CInv, [Next]_vars PROVE CInv'
  OBVIOUS
<1>0. \A c \in Composers : Live(c) => CompOK(composer[c])
  BY DEF CInv
<1>1. ASSUME NEW c \in Composers, NEW class \in Classes, New(c, class)
      PROVE  CInv'
  BY <1>1, NewOK, CInvUpdate, Zenon DEF New, Calls
<1>2. ASSUME NEW c \in Composers, NEW d \in Composers, Clone(c, d)
      PROVE  CInv'
  <2>1. CompOK(pathcomp_clone(composer[c]))
    BY <1>0, <1>2, CloneOK DEF Clone
  <2>. QED
    BY <1>2, <2>1, CInvUpdate, Zenon DEF Clone, Calls
<1>3. ASSUME NEW c \in Composers, Free(c)
      PROVE  CInv'
  <2>1. composer'[c] = NULL /\ \A d \in Composers : d # c => composer'[d] = composer[d]
    BY <1>3 DEF Free, CInv
  <2>2. composer' \in [Composers -> ComposerType \cup {NULL}]
    BY <1>3 DEF Free, CInv
  <2>. QED
    BY <1>3, <2>1, <2>2 DEF CInv, Free, Calls, Live
<1>4. ASSUME NEW c \in Composers, NEW name \in Names, NEW value \in Values, Set(c, name, value)
      PROVE  CInv'
  <2>1. CompOK(pathcomp_set(composer[c], name, value))
    BY <1>0, <1>4, SetOK DEF Set
  <2>. QED
    BY <1>4, <2>1, CInvUpdate, Zenon DEF Set, Calls
<1>5. ASSUME NEW c \in Composers, NEW name \in Names, NEW value \in Values, Add(c, name, value)
      PROVE  CInv'
  <2>1. CompOK(pathcomp_add(composer[c], name, value))
    BY <1>0, <1>5, AddOK DEF Add
  <2>. QED
    BY <1>5, <2>1, CInvUpdate, Zenon DEF Add, Calls
<1>6. ASSUME NEW c \in Composers, Step(c)
      PROVE  CInv'
  <2>1. CompOK(pathcomp_next(composer[c]))
    BY <1>0, <1>6, NextOK DEF Step
  <2>. QED
    BY <1>6, <2>1, CInvUpdate, Zenon DEF Step, Calls
<1>7. ASSUME NEW c \in Composers, Rewind(c)
      PROVE  CInv'
  <2>1. CompOK(pathcomp_rewind(composer[c]))
    BY <1>0, <1>7, RewindOK DEF Rewind
  <2>. QED
    BY <1>7, <2>1, CInvUpdate, Zenon DEF Rewind, Calls
<1>8. ASSUME NEW c \in Composers, Find(c)
      PROVE  CInv'
  BY <1>8 DEF CInv, Find, Live, CompOK
<1>9. ASSUME NEW c \in Composers, FindTry(c)
      PROVE  CInv'
  <2>1. CompOK(FindMove(composer[c]))
    BY <1>0, <1>9, NullAssumption, FindMoveOK DEF FindTry, CInv
  <2>. QED
    BY <1>9, <2>1, CInvUpdate, Zenon DEF FindTry
<1>10. CASE UNCHANGED vars
  BY <1>10 DEF CInv, vars, Live, CompOK
<1>. QED
  BY <1>1, <1>2, <1>3, <1>4, <1>5, <1>6, <1>7, <1>8, <1>9, <1>10 DEF Next

\* Composers stay well formed through every sequence of calls: every cursor is
\* on an alternative and no attribute name occurs twice.
THEOREM TypeCorrect == Spec => []TypeOK
<1>1. Spec => []CInv
  BY CInvInit, CInvStep, PTL DEF Spec
<1>. QED
  BY <1>1, CInvImpliesTypeOK, PTL

-----------------------------------------------------------------------------
(* The iteration is complete and never repeats itself.                     *)
(*                                                                         *)
(* pathcomp_next counts: the cursors are the digits of a number whose      *)
(* least significant digit is the first attribute.  Before is the order of *)
(* these numbers, and the argument is that a step of pathcomp_next goes to *)
(* the next number: nothing lies between, and nothing lies beyond the last.*)

Before(q, p, n) ==
  \E k \in 1..n : q[k] < p[k] /\ \A j \in 1..n : j > k => q[j] = p[j]

-----------------------------------------------------------------------------
(* Vectors *)

\* Vectors that differ have a last index at which they differ.
LEMMA LastDifference ==
  ASSUME NEW n \in Nat, NEW p \in [1..n -> Nat], NEW q \in [1..n -> Nat], p # q
  PROVE  \E k \in 1..n : q[k] # p[k] /\ \A j \in 1..n : j > k => q[j] = p[j]
<1>. DEFINE S == {k \in 1..n : q[k] # p[k]}
<1>1. S \in SUBSET (1..n) /\ S # {}
  BY SMTT(20)
<1>2. PICK k \in S : \A j \in S : j <= k
  BY <1>1, GreatestIndex, Zenon
<1>. QED
  BY <1>2

\* The order in which pathcomp_next visits combinations is transitive.
LEMMA BeforeTransitive ==
  ASSUME NEW n \in Nat, NEW p \in [1..n -> Nat], NEW q \in [1..n -> Nat],
         NEW r \in [1..n -> Nat], Before(q, p, n), Before(p, r, n)
  PROVE  Before(q, r, n)
<1>1. PICK k \in 1..n : q[k] < p[k] /\ \A j \in 1..n : j > k => q[j] = p[j]
  BY DEF Before
<1>2. PICK l \in 1..n : p[l] < r[l] /\ \A j \in 1..n : j > l => p[j] = r[j]
  BY DEF Before
<1>3. CASE k < l
  BY <1>1, <1>2, <1>3 DEF Before
<1>4. CASE k >= l
  <2>1. q[k] < r[k]
    BY <1>1, <1>2, <1>4
  <2>2. \A j \in 1..n : j > k => q[j] = r[j]
    BY <1>1, <1>2, <1>4
  <2>. QED
    BY <2>1, <2>2 DEF Before
<1>. QED
  BY <1>3, <1>4

\* In that order no combination comes before itself.
LEMMA BeforeIrreflexive ==
  ASSUME NEW n \in Nat, NEW p \in [1..n -> Nat]
  PROVE  ~Before(p, p, n)
BY DEF Before

\* Nothing comes after the vector of the greatest digits.
LEMMA Greatest ==
  ASSUME NEW n \in Nat, NEW p \in [1..n -> Nat], NEW q \in [1..n -> Nat],
         \A j \in 1..n : q[j] <= p[j]
  PROVE  q = p \/ Before(q, p, n)
<1>. SUFFICES ASSUME p # q PROVE Before(q, p, n)
  OBVIOUS
<1>1. PICK k \in 1..n : q[k] # p[k] /\ \A j \in 1..n : j > k => q[j] = p[j]
  BY LastDifference, Zenon
<1>2. q[k] < p[k]
  BY <1>1
<1>. QED
  BY <1>1, <1>2 DEF Before

\* A step of the counter: the digits before i are at their greatest and go
\* back to 1, digit i goes up by one and the others stay.
Carry(p, s, len, i, n) ==
  /\ \A j \in 1..n : j < i => p[j] = len[j] /\ s[j] = 1
  /\ s[i] = p[i] + 1
  /\ \A j \in 1..n : j > i => s[j] = p[j]

\* pathcomp_next moves forward in the order: it advances the cursor of attribute i
\* and rewinds only those before it.
LEMMA CarryAdvances ==
  ASSUME NEW n \in Nat, NEW p \in [1..n -> Nat], NEW s \in [1..n -> Nat],
         NEW len \in [1..n -> Nat], NEW i \in 1..n, Carry(p, s, len, i, n)
  PROVE  Before(p, s, n)
<1>1. p[i] < s[i] /\ \A j \in 1..n : j > i => p[j] = s[j]
  BY DEF Carry
<1>. QED
  BY <1>1 DEF Before

\* pathcomp_next skips nothing: whatever comes before the combination it moves to
\* is the one it leaves, or comes before that.
LEMMA NothingBetween ==
  ASSUME NEW n \in Nat, NEW p \in [1..n -> Nat], NEW s \in [1..n -> Nat],
         NEW len \in [1..n -> Nat], NEW i \in 1..n, Carry(p, s, len, i, n),
         NEW q \in [1..n -> Nat], \A j \in 1..n : 1 <= q[j] /\ q[j] <= len[j],
         Before(q, s, n)
  PROVE  q = p \/ Before(q, p, n)
<1>1. PICK k \in 1..n : q[k] < s[k] /\ \A j \in 1..n : j > k => q[j] = s[j]
  BY DEF Before
<1>2. k >= i
  BY <1>1 DEF Carry
<1>3. CASE k > i
  <2>1. q[k] < p[k] /\ \A j \in 1..n : j > k => q[j] = p[j]
    BY <1>1, <1>3 DEF Carry
  <2>. QED
    BY <2>1 DEF Before
<1>4. CASE k = i
  <2>1. q[i] < p[i] + 1 /\ \A j \in 1..n : j > i => q[j] = p[j]
    BY <1>1, <1>4 DEF Carry
  <2>2. \A j \in 1..n : j < i => q[j] <= p[j]
    BY DEF Carry
  <2>3. q[i] <= p[i]
    BY <2>1
  <2>4. ASSUME NEW j \in 1..n PROVE q[j] <= p[j]
    <3>1. CASE j < i
      BY <2>2, <3>1
    <3>2. CASE j = i
      BY <2>3, <3>2
    <3>3. CASE j > i
      BY <2>1, <3>3
    <3>. QED
      BY <3>1, <3>2, <3>3
  <2>. QED
    BY <2>4, Greatest, Zenon
<1>. QED
  BY <1>2, <1>3, <1>4

-----------------------------------------------------------------------------
(* Positions of a composer *)

\* An attribute has some alternatives, not too many, and its cursor on one.
LEMMA AttNumbers ==
  ASSUME NEW att, AttOK(att)
  PROVE  /\ Len(att.alternatives) \in Nat /\ Len(att.alternatives) <= MaxAlts
         /\ att.current \in 1..Len(att.alternatives)
BY DEF AttOK, AttType

\* The same for the attributes of a list.
LEMMA ListNumbers ==
  ASSUME NEW atts, ListOK(atts)
  PROVE  \A i \in 1..Len(atts) :
           /\ AttOK(atts[i])
           /\ Len(atts[i].alternatives) \in Nat /\ Len(atts[i].alternatives) <= MaxAlts
           /\ atts[i].current \in 1..Len(atts[i].alternatives)
<1>1. \A i \in 1..Len(atts) : AttOK(atts[i])
  BY Zenon DEF ListOK
<1>. QED
  BY <1>1, AttNumbers, Zenon

\* A combination gives each attribute one of its alternatives.
LEMMA CombinationsAre ==
  ASSUME NEW comp, CompOK(comp), NEW q
  PROVE  q \in Combinations(comp) <=>
           /\ q \in [1..Len(comp.attributes) -> Nat]
           /\ \A i \in 1..Len(comp.attributes) :
                1 <= q[i] /\ q[i] <= Len(comp.attributes[i].alternatives)
<1>1. DOMAIN comp.attributes = 1..Len(comp.attributes)
  BY DEF CompOK, ListOK
<1>2. \A i \in 1..Len(comp.attributes) :
        /\ Len(comp.attributes[i].alternatives) \in Nat
        /\ Len(comp.attributes[i].alternatives) <= MaxAlts
  BY ListNumbers, Zenon DEF CompOK
<1>. DEFINE n == Len(comp.attributes)
            len(i) == Len(comp.attributes[i].alternatives)
<1>3. q \in Combinations(comp) <=>
        q \in [1..n -> 1..MaxAlts] /\ \A i \in 1..n : q[i] <= len(i)
  BY <1>1 DEF Combinations
<1>4. \A i \in 1..n : len(i) \in Nat /\ len(i) <= MaxAlts
  BY <1>2
<1>. HIDE DEF n, len
<1>5. ASSUME q \in [1..n -> 1..MaxAlts]
      PROVE  q \in [1..n -> Nat] /\ \A i \in 1..n : 1 <= q[i]
  BY <1>5, BoundAssumption
<1>6. ASSUME q \in [1..n -> Nat], \A i \in 1..n : 1 <= q[i] /\ q[i] <= len(i)
      PROVE  q \in [1..n -> 1..MaxAlts]
  <2>1. ASSUME NEW i \in 1..n PROVE q[i] \in 1..MaxAlts
    BY <1>4, <1>6, BoundAssumption
  <2>. QED
    BY <1>6, <2>1
<1>7. q \in Combinations(comp) <=>
        q \in [1..n -> Nat] /\ \A i \in 1..n : 1 <= q[i] /\ q[i] <= len(i)
  BY <1>3, <1>5, <1>6
<1>. QED
  BY <1>7 DEF n, len

\* The cursors of a composer are a combination.
LEMMA PositionIs ==
  ASSUME NEW comp, CompOK(comp)
  PROVE  /\ Position(comp) \in [1..Len(comp.attributes) -> Nat]
         /\ \A i \in 1..Len(comp.attributes) :
              Position(comp)[i] = comp.attributes[i].current
         /\ Position(comp) \in Combinations(comp)
<1>1. DOMAIN comp.attributes = 1..Len(comp.attributes)
  BY DEF CompOK, ListOK
<1>2. \A i \in 1..Len(comp.attributes) :
        /\ Len(comp.attributes[i].alternatives) \in Nat
        /\ comp.attributes[i].current \in 1..Len(comp.attributes[i].alternatives)
  BY ListNumbers, Zenon DEF CompOK
<1>3. /\ Position(comp) \in [1..Len(comp.attributes) -> Nat]
      /\ \A i \in 1..Len(comp.attributes) :
              Position(comp)[i] = comp.attributes[i].current
  BY <1>1, <1>2 DEF Position
<1>. QED
  BY <1>2, <1>3, CombinationsAre

\* The loop of pathcomp_next carries, unless it has reached the end.
LEMMA TurnCarries ==
  ASSUME NEW atts, ListOK(atts), NEW p, NEW s, NEW len,
         p = [i \in 1..Len(atts) |-> atts[i].current],
         s = [i \in 1..Len(atts) |-> Turn(atts)[i].current],
         len = [i \in 1..Len(atts) |-> Len(atts[i].alternatives)],
         ~ \A i \in 1..Len(atts) : ~(atts[i].current < Len(atts[i].alternatives))
  PROVE  \E i \in 1..Len(atts) : Carry(p, s, len, i, Len(atts))
<1>. DEFINE n == Len(atts)
            S == {i \in 1..n : atts[i].current < Len(atts[i].alternatives)}
<1>1. n \in Nat /\ S \in SUBSET (1..n) /\ S # {}
  BY DEF ListOK
<1>2. PICK i \in S : \A j \in S : i <= j
  BY <1>1, LeastIndex, Zenon
<1>3. i \in 1..n /\ atts[i].current < Len(atts[i].alternatives)
  BY <1>2
<1>4. \A j \in 1..n : AttOK(atts[j]) /\ Len(atts[j].alternatives) \in Nat
        /\ atts[j].current \in 1..Len(atts[j].alternatives)
  BY ListNumbers, Zenon
<1>5. ASSUME NEW j \in 1..n, j < i
      PROVE  atts[j].current = Len(atts[j].alternatives)
  BY <1>1, <1>2, <1>4, <1>5
<1>6. ASSUME NEW j \in 1..n
      PROVE  Reached(atts, j) <=> j <= i
  <2>1. \A k \in 1..n : att_next_ok(atts[k]) <=> atts[k].current < Len(atts[k].alternatives)
    BY <1>4, NextCursor
  <2>2. ASSUME j <= i, NEW k \in 1..(j - 1) PROVE ~att_next_ok(atts[k])
    <3>1. k \in 1..n /\ k < i
      BY <1>1, <1>3, <2>2
    <3>2. ~(atts[k].current < Len(atts[k].alternatives))
      BY <1>4, <1>5, <3>1
    <3>. QED
      BY <2>1, <3>1, <3>2
  <2>3. ASSUME ~(j <= i) PROVE i \in 1..(j - 1) /\ att_next_ok(atts[i])
    BY <1>1, <1>3, <2>1, <2>3
  <2>. QED
    BY <2>2, <2>3 DEF Reached
<1>7. \A j \in 1..n : Turn(atts)[j].current = TurnedTo(atts, j)
  BY TurnOK
<1>8. \A j \in 1..n : s[j] = TurnedTo(atts, j) /\ p[j] = atts[j].current
                      /\ len[j] = Len(atts[j].alternatives)
  BY <1>7
<1>9. ASSUME NEW j \in 1..n, j < i PROVE p[j] = len[j] /\ s[j] = 1
  <2>1. i \in Int /\ j \in Int /\ j <= i
    BY <1>1, <1>3, <1>9
  <2>2. Reached(atts, j) /\ atts[j].current = Len(atts[j].alternatives)
    BY <1>5, <1>6, <1>9, <2>1, Zenon
  <2>3. ~(atts[j].current < Len(atts[j].alternatives))
    BY <1>4, <2>2
  <2>. QED
    BY <1>8, <2>2, <2>3, Zenon DEF TurnedTo
<1>10. s[i] = p[i] + 1
  BY <1>1, <1>3, <1>6, <1>8 DEF TurnedTo
<1>11. ASSUME NEW j \in 1..n, j > i PROVE s[j] = p[j]
  BY <1>1, <1>3, <1>6, <1>8, <1>11 DEF TurnedTo
<1>12. Carry(p, s, len, i, n)
  BY <1>9, <1>10, <1>11, Zenon DEF Carry
<1>. QED
  BY <1>3, <1>12, Zenon

-----------------------------------------------------------------------------
(* What has been seen *)

\* A composer that is not done has seen only positions up to its own, and all
\* of them when the iteration is clean; a clean one that is done has seen all.
Covers(comp, seen, clean) ==
  LET p == Position(comp)
      n == Len(comp.attributes)
  IN  /\ seen \subseteq Combinations(comp)
      /\ ~comp.done => p \in seen /\ \A q \in seen : q = p \/ Before(q, p, n)
      /\ ~comp.done /\ clean => \A q \in Combinations(comp) : Before(q, p, n) => q \in seen
      /\ comp.done /\ clean => Combinations(comp) \subseteq seen

\* No combination comes before the one on which an iteration starts.
LEMMA NothingBeforeFirst ==
  ASSUME NEW comp, CompOK(comp), Rewound(comp), NEW q \in Combinations(comp)
  PROVE  ~Before(q, Position(comp), Len(comp.attributes))
<1>. DEFINE p == Position(comp)
            n == Len(comp.attributes)
<1>1. DOMAIN comp.attributes = 1..n /\ n \in Nat
  BY DEF CompOK, ListOK
<1>2. \A i \in 1..n : p[i] = 1
  BY <1>1, PositionIs DEF Rewound
<1>3. q \in [1..n -> Nat] /\ \A i \in 1..n : 1 <= q[i]
  BY CombinationsAre
<1>. QED
  BY <1>2, <1>3 DEF Before

\* A composer on its first combination has seen everything up to there.
LEMMA StartCovers ==
  ASSUME NEW comp, CompOK(comp), NEW clean, clean => Rewound(comp) /\ ~comp.done
  PROVE  Covers(comp, {Position(comp)}, clean)
<1>1. Position(comp) \in Combinations(comp)
  BY PositionIs
<1>2. ASSUME clean, NEW q \in Combinations(comp)
      PROVE  ~Before(q, Position(comp), Len(comp.attributes))
  BY <1>2, NothingBeforeFirst
<1>. QED
  BY <1>1, <1>2 DEF Covers

\* A step of pathcomp_next keeps what has been seen in order, and goes to a
\* position that has not been seen.
LEMMA MoveCovers ==
  ASSUME NEW comp, CompOK(comp), NEW new, CompOK(new), NEW seen, NEW clean,
         Covers(comp, seen, clean), ~comp.done,
         new.attributes = Turn(comp.attributes),
         new.done <=> \A i \in 1..Len(comp.attributes) :
            ~(comp.attributes[i].current < Len(comp.attributes[i].alternatives))
  PROVE  /\ Covers(new, seen \cup Reaches(new), clean)
         /\ ~new.done => Position(new) \notin seen
<1>. DEFINE atts == comp.attributes
            n == Len(atts)
            p == Position(comp)
            s == Position(new)
            len == [i \in 1..n |-> Len(atts[i].alternatives)]
            All == Combinations(comp)
<1>1. n \in Nat /\ ListOK(atts) /\ len \in [1..n -> Nat]
  <2>1. ListOK(atts)
    BY DEF CompOK
  <2>2. \A i \in 1..n : Len(atts[i].alternatives) \in Nat
    BY <2>1, ListNumbers, Zenon
  <2>. QED
    BY <2>1, <2>2 DEF ListOK
<1>2. Len(new.attributes) = n /\ \A i \in 1..n :
        new.attributes[i].alternatives = atts[i].alternatives
  BY <1>1, TurnOK
<1>3. /\ p \in [1..n -> Nat] /\ p \in All
      /\ p = [i \in 1..n |-> atts[i].current]
  BY PositionIs
<1>4. /\ s \in [1..n -> Nat] /\ s \in Combinations(new)
      /\ s = [i \in 1..n |-> Turn(atts)[i].current]
  BY <1>2, PositionIs
<1>5. ASSUME NEW q \in All
      PROVE  q \in [1..n -> Nat] /\ \A i \in 1..n : 1 <= q[i] /\ q[i] <= len[i]
  <2>1. /\ q \in [1..n -> Nat]
        /\ \A i \in 1..n : 1 <= q[i] /\ q[i] <= Len(atts[i].alternatives)
    BY CombinationsAre
  <2>. QED
    BY <2>1
<1>6. Combinations(new) = All
  <2>1. ASSUME NEW q PROVE q \in Combinations(new) <=> q \in All
    <3>1. q \in All <=> /\ q \in [1..n -> Nat]
                       /\ \A i \in 1..n : 1 <= q[i] /\ q[i] <= Len(atts[i].alternatives)
      BY CombinationsAre
    <3>2. q \in Combinations(new) <=>
            /\ q \in [1..n -> Nat]
            /\ \A i \in 1..n : 1 <= q[i] /\ q[i] <= Len(new.attributes[i].alternatives)
      BY <1>2, CombinationsAre
    <3>. QED
      BY <1>2, <3>1, <3>2
  <2>. QED
    BY <2>1, Zenon
<1>7. /\ seen \subseteq All /\ p \in seen
      /\ \A q \in seen : q = p \/ Before(q, p, n)
      /\ clean => \A q \in All : Before(q, p, n) => q \in seen
  BY DEF Covers
<1>8. CASE new.done
  <2>1. ASSUME NEW q \in All PROVE q = p \/ Before(q, p, n)
    <3>1. \A i \in 1..n : atts[i].current = Len(atts[i].alternatives)
      <4>1. \A i \in 1..n : /\ Len(atts[i].alternatives) \in Nat
                             /\ atts[i].current \in 1..Len(atts[i].alternatives)
        BY <1>1, ListNumbers, Zenon
      <4>2. \A i \in 1..n : ~(atts[i].current < Len(atts[i].alternatives))
        BY <1>8, Zenon
      <4>. QED
        BY <4>1, <4>2
    <3>2. \A i \in 1..n : q[i] <= p[i]
      BY <1>3, <1>5, <3>1, Zenon
    <3>. QED
      BY <1>1, <1>3, <1>5, <3>2, Greatest, Zenon
  <2>2. clean => All \subseteq seen
    BY <1>7, <2>1
  <2>. HIDE DEF All
  <2>. QED
    BY <1>6, <1>7, <1>8, <2>2 DEF Covers, Reaches
<1>9. CASE ~new.done
  <2>1. PICK i \in 1..n : Carry(p, s, len, i, n)
    BY <1>1, <1>3, <1>4, <1>9, TurnCarries, Zenon
  <2>. HIDE DEF All, p, s, len, n
  <2>2. Before(p, s, n)
    BY <1>1, <1>3, <1>4, <2>1, CarryAdvances, Zenon
  <2>3. ASSUME NEW q \in All, Before(q, s, n) PROVE q = p \/ Before(q, p, n)
    BY <1>1, <1>3, <1>4, <1>5, <2>1, <2>3, NothingBetween, Zenon
  <2>4. ASSUME NEW q \in seen PROVE Before(q, s, n)
    BY <1>1, <1>3, <1>4, <1>5, <1>7, <2>2, BeforeTransitive, Zenon
  <2>5. s \notin seen
    BY <1>1, <1>4, <2>4, BeforeIrreflexive, Zenon
  <2>6. clean => \A q \in All : Before(q, s, n) => q \in seen
    BY <1>7, <2>3
  <2>7. Reaches(new) = {s}
    BY <1>9 DEF Reaches, s
  <2>8. Covers(new, seen \cup {s}, clean)
    <3>1. seen \cup {s} \subseteq Combinations(new)
      BY <1>4, <1>6, <1>7, Zenon
    <3>2. \A q \in seen \cup {s} : q = s \/ Before(q, s, n)
      BY <2>4
    <3>3. clean => \A q \in Combinations(new) : Before(q, s, n) => q \in seen \cup {s}
      BY <1>6, <2>6
    <3>. QED
      BY <1>2, <1>9, <3>1, <3>2, <3>3 DEF Covers, s
  <2>. QED
    BY <2>5, <2>7, <2>8 DEF s
<1>. QED
  BY <1>8, <1>9

\* Positions keep their order when an attribute or an alternative is added.
LEMMA GrowCovers ==
  ASSUME NEW comp, CompOK(comp), NEW new, CompOK(new), NEW seen, NEW clean, NEW cleaner,
         Covers(comp, seen, clean), new.done = comp.done,
         Extends(new.attributes, comp.attributes),
         cleaner => Rewound(new) /\ ~new.done
  PROVE  Covers(new, Widen(seen, Len(new.attributes)), cleaner)
<1>. DEFINE n == Len(comp.attributes)
            m == Len(new.attributes)
            p == Position(comp)
            s == Position(new)
            wide(q) == [i \in 1..m |-> IF i \in DOMAIN q THEN q[i] ELSE 1]
<1>1. n \in Nat /\ m \in Nat /\ n <= m
  BY DEF CompOK, ListOK, Extends
<1>2. p \in [1..n -> Nat] /\ \A i \in 1..n : p[i] = comp.attributes[i].current
  BY PositionIs
<1>3. s \in [1..m -> Nat] /\ \A i \in 1..m : s[i] = new.attributes[i].current
  BY PositionIs
<1>4. \A q \in Combinations(comp) :
        /\ q \in [1..n -> Nat]
        /\ \A i \in 1..n : 1 <= q[i] /\ q[i] <= Len(comp.attributes[i].alternatives)
  BY CombinationsAre
<1>5. \A i \in 1..n : /\ new.attributes[i].current = comp.attributes[i].current
                      /\ Len(new.attributes[i].alternatives) >= Len(comp.attributes[i].alternatives)
                      /\ Len(comp.attributes[i].alternatives) \in Nat
  <2>1. \A i \in 1..n : Len(comp.attributes[i].alternatives) \in Nat
    BY ListNumbers, Zenon DEF CompOK
  <2>. QED
    BY <2>1 DEF Extends
<1>6. \A i \in 1..m : /\ Len(new.attributes[i].alternatives) \in Nat
                      /\ Len(new.attributes[i].alternatives) >= 1
                      /\ i > n => new.attributes[i].current = 1
  <2>1. \A i \in 1..m : /\ Len(new.attributes[i].alternatives) \in Nat
                        /\ new.attributes[i].current \in 1..Len(new.attributes[i].alternatives)
    BY ListNumbers, Zenon DEF CompOK
  <2>. QED
    BY <2>1 DEF Extends
<1>7. ASSUME NEW q \in Combinations(comp)
      PROVE  /\ wide(q) \in [1..m -> Nat] /\ wide(q) \in Combinations(new)
             /\ \A i \in 1..m : wide(q)[i] = IF i <= n THEN q[i] ELSE 1
  <2>1. wide(q) = [i \in 1..m |-> IF i <= n THEN q[i] ELSE 1]
    BY <1>1, <1>4
  <2>2. \A i \in 1..m : i <= n => i \in 1..n
    BY <1>1
  <2>. DEFINE w == wide(q)
  <2>3. /\ w \in [1..m -> Nat]
        /\ \A i \in 1..m : w[i] = IF i <= n THEN q[i] ELSE 1
    BY <1>1, <1>4, <2>1, <2>2
  <2>. HIDE DEF w
  <2>4. ASSUME NEW i \in 1..m
        PROVE  1 <= w[i] /\ w[i] <= Len(new.attributes[i].alternatives)
    <3>1. CASE i <= n
      BY <1>1, <1>4, <1>5, <1>6, <2>2, <2>3, <3>1
    <3>2. CASE ~(i <= n)
      BY <1>1, <1>6, <2>3, <3>2
    <3>. QED
      BY <3>1, <3>2
  <2>5. w \in Combinations(new)
    BY <2>3, <2>4, CombinationsAre
  <2>. QED
    BY <2>3, <2>5 DEF w
<1>8. p \in Combinations(comp) /\ s \in Combinations(new)
  BY PositionIs
<1>9. wide(p) = s
  <2>1. wide(p) \in [1..m -> Nat] /\ \A i \in 1..m : wide(p)[i] = IF i <= n THEN p[i] ELSE 1
    BY <1>7, <1>8, Zenon
  <2>. DEFINE w == wide(p)
  <2>2. w \in [1..m -> Nat] /\ \A i \in 1..m : w[i] = IF i <= n THEN p[i] ELSE 1
    BY <2>1
  <2>. HIDE DEF w, wide
  <2>3. ASSUME NEW i \in 1..m PROVE w[i] = s[i]
    <3>1. CASE i <= n
      <4>1. i \in 1..n
        BY <1>1, <3>1
      <4>. QED
        BY <1>2, <1>3, <1>5, <2>2, <3>1, <4>1
    <3>2. CASE ~(i <= n)
      BY <1>1, <1>3, <1>6, <2>2, <3>2
    <3>. QED
      BY <3>1, <3>2
  <2>. HIDE DEF s
  <2>4. w = s
    BY <1>3, <2>2, <2>3
  <2>. QED
    BY <2>4 DEF w
<1>10. ASSUME NEW q \in Combinations(comp), Before(q, p, n)
       PROVE  Before(wide(q), s, m)
  <2>1. PICK k \in 1..n : q[k] < p[k] /\ \A j \in 1..n : j > k => q[j] = p[j]
    BY <1>10 DEF Before
  <2>2. /\ \A i \in 1..m : wide(q)[i] = IF i <= n THEN q[i] ELSE 1
        /\ \A i \in 1..m : s[i] = IF i <= n THEN p[i] ELSE 1
    BY <1>7, <1>8, <1>9, Zenon
  <2>. HIDE DEF wide, s, p, n, m
  <2>3. k \in 1..m /\ wide(q)[k] < s[k]
    BY <1>1, <2>1, <2>2
  <2>4. \A j \in 1..m : j > k => wide(q)[j] = s[j]
    BY <1>1, <2>1, <2>2
  <2>. QED
    BY <2>3, <2>4 DEF Before
<1>11. Widen(seen, m) = {wide(q) : q \in seen}
  BY DEF Widen
<1>12. seen \subseteq Combinations(comp)
       /\ (~comp.done => p \in seen /\ \A q \in seen : q = p \/ Before(q, p, n))
  BY DEF Covers
<1>. HIDE DEF wide
<1>13. Widen(seen, m) \subseteq Combinations(new)
  BY <1>7, <1>11, <1>12
<1>14. ~new.done => s \in Widen(seen, m) /\ \A q \in Widen(seen, m) : q = s \/ Before(q, s, m)
  BY <1>9, <1>10, <1>11, <1>12
<1>15. cleaner => \A q \in Combinations(new) : ~Before(q, s, m)
  BY NothingBeforeFirst
<1>. QED
  BY <1>13, <1>14, <1>15 DEF Covers

-----------------------------------------------------------------------------
(* What has been looked for and found *)

Tracks(comp, h) ==
  /\ Covers(comp, h.seen, h.clean)
  /\ h.tested \subseteq h.seen
  /\ ~comp.started => h.tested = {} /\ h.found = {}

\* The pathname of a combination is among the files.
Hits(comp, q, there) ==
  LET path == pathcomp_yield(At(comp, q)) IN path # NULL /\ path \in there

\* A client that uses only pathcomp_find on an unchanged composer: all that has
\* been seen has been looked for, and found are the combinations that hit.
Finds(comp, h, there) ==
  h.clean /\ h.byfind =>
    IF comp.started
    THEN h.tested = h.seen /\ h.found = {q \in h.tested : Hits(comp, q, there)}
    ELSE Unmoved(comp)

Follows(comp, h, there) == Tracks(comp, h) /\ Finds(comp, h, there)

\* An iteration that is on its first combination has seen only that one.
LEMMA UnmovedSeen ==
  ASSUME NEW comp, CompOK(comp), Unmoved(comp), NEW seen, NEW clean,
         Covers(comp, seen, clean)
  PROVE  seen = {Position(comp)}
<1>1. /\ seen \subseteq Combinations(comp) /\ Position(comp) \in seen
      /\ \A q \in seen : q = Position(comp) \/ Before(q, Position(comp), Len(comp.attributes))
  BY DEF Unmoved, Covers
<1>2. \A q \in Combinations(comp) : ~Before(q, Position(comp), Len(comp.attributes))
  BY NothingBeforeFirst DEF Unmoved
<1>. QED
  BY <1>1, <1>2

\* pathcomp_yield reads nothing but the attributes.
LEMMA YieldReads ==
  ASSUME NEW comp, NEW other, other.attributes = comp.attributes
  PROVE  pathcomp_yield(other) = pathcomp_yield(comp)
BY DEF pathcomp_yield, pathcomp_eval

\* What a combination names does not depend on where the cursors are.
LEMMA TurnKeepsHits ==
  ASSUME NEW comp, CompOK(comp), NEW new, CompOK(new), NEW q, NEW there,
         new.attributes = Turn(comp.attributes)
  PROVE  Hits(new, q, there) <=> Hits(comp, q, there)
<1>. DEFINE n == Len(comp.attributes)
            atts == comp.attributes
<1>1. DOMAIN atts = 1..n /\ DOMAIN new.attributes = 1..n
  BY DEF CompOK, ListOK, Turn
<1>2. ASSUME NEW i \in 1..n
      PROVE  [new.attributes[i] EXCEPT !.current = q[i]] = [atts[i] EXCEPT !.current = q[i]]
  <2>1. atts[i] \in AttType
    BY DEF CompOK, ListOK, AttOK
  <2>2. new.attributes[i] = atts[i] \/ \E k : new.attributes[i] = [atts[i] EXCEPT !.current = k]
    <3>1. att_next(atts[i]) = [atts[i] EXCEPT !.current = att_next(atts[i]).current]
      BY <2>1 DEF att_next, AttType
    <3>2. att_rewind(att_next(atts[i])) = [atts[i] EXCEPT !.current = 1]
      BY <2>1, Zenon DEF att_next, att_rewind, AttType
    <3>3. new.attributes[i] \in {atts[i], att_next(atts[i]), att_rewind(att_next(atts[i]))}
      BY <1>1 DEF Turn
    <3>. QED
      BY <3>1, <3>2, <3>3, Zenon
  <2>. QED
    BY <2>1, <2>2, Zenon DEF AttType
<1>3. At(new, q).attributes = At(comp, q).attributes
  <2>1. /\ At(new, q).attributes
             = [i \in 1..n |-> [new.attributes[i] EXCEPT !.current = q[i]]]
        /\ At(comp, q).attributes = [i \in 1..n |-> [atts[i] EXCEPT !.current = q[i]]]
    BY <1>1 DEF At, CompOK, ComposerType
  <2>. QED
    BY <1>2, <2>1
<1>. QED
  BY <1>3, YieldReads DEF Hits

\* The combination on which a composer stands.
LEMMA HitsHere ==
  ASSUME NEW comp, CompOK(comp), NEW there
  PROVE  Hits(comp, Position(comp), there)
           <=> pathcomp_yield(comp) # NULL /\ pathcomp_yield(comp) \in there
<1>. DEFINE n == Len(comp.attributes)
            atts == comp.attributes
<1>1. DOMAIN atts = 1..n /\ atts = [i \in 1..n |-> atts[i]]
  BY DEF CompOK, ListOK
<1>2. ASSUME NEW i \in 1..n
      PROVE  [atts[i] EXCEPT !.current = Position(comp)[i]] = atts[i]
  BY <1>1, Zenon DEF CompOK, ListOK, AttOK, AttType, Position
<1>3. At(comp, Position(comp)).attributes = atts
  <2>1. At(comp, Position(comp)).attributes
          = [i \in 1..n |-> [atts[i] EXCEPT !.current = Position(comp)[i]]]
    BY <1>1 DEF At, CompOK, ComposerType
  <2>. QED
    BY <1>1, <1>2, <2>1, Zenon
<1>. QED
  BY <1>3, YieldReads DEF Hits

\* A call of pathcomp_next, as such or from pathcomp_find.
LEMMA NextCovers ==
  ASSUME NEW comp, CompOK(comp), NEW new, CompOK(new), NEW seen, NEW clean,
         Covers(comp, seen, clean), new.attributes = pathcomp_next(comp).attributes,
         new.done = pathcomp_next(comp).done
  PROVE  /\ Covers(new, seen \cup Reaches(new), clean)
         /\ ~comp.done /\ ~new.done => Position(new) \notin seen
<1>1. CASE comp.done
  <2>1. new.attributes = comp.attributes /\ new.done = comp.done
    BY <1>1, NextOK, Zenon
  <2>. QED
    BY <1>1, <2>1 DEF Covers, Reaches, Position, Combinations
<1>2. CASE ~comp.done
  <2>1. /\ new.attributes = Turn(comp.attributes)
        /\ new.done <=> \A i \in 1..Len(comp.attributes) :
              ~(comp.attributes[i].current < Len(comp.attributes[i].alternatives))
    BY <1>2, NextOK
  <2>. QED
    BY <1>2, <2>1, MoveCovers, Zenon
<1>. QED
  BY <1>1, <1>2

\* An iteration of pathcomp_find.
LEMMA FindCovers ==
  ASSUME NEW comp, CompOK(comp), NEW h, Tracks(comp, h), NEW new, new = FindMove(comp)
  PROVE  /\ CompOK(new) /\ new.started
         /\ Covers(new, h.seen \cup Reaches(new), h.clean)
         /\ ~new.done => Position(new) \notin h.tested
<1>1. CompOK(new) /\ new.started
  BY FindMoveOK
<1>2. CASE comp.started
  <2>1. new.attributes = pathcomp_next(comp).attributes /\ new.done = pathcomp_next(comp).done
    BY <1>2, FindMoveOK
  <2>2. /\ Covers(new, h.seen \cup Reaches(new), h.clean)
        /\ ~comp.done /\ ~new.done => Position(new) \notin h.seen
    BY <1>1, <2>1, NextCovers DEF Tracks
  <2>3. comp.done => new.done
    BY <2>1, NextOK
  <2>. QED
    BY <1>1, <2>2, <2>3 DEF Tracks
<1>3. CASE ~comp.started
  <2>1. new.attributes = comp.attributes /\ new.done = comp.done
    BY <1>3, FindMoveOK
  <2>2. Covers(new, h.seen, h.clean)
    BY <2>1, Zenon DEF Tracks, Covers, Position, Combinations
  <2>3. h.seen \cup Reaches(new) = h.seen
    BY <2>2 DEF Covers, Reaches
  <2>. QED
    BY <1>1, <1>3, <2>2, <2>3 DEF Tracks
<1>. QED
  BY <1>2, <1>3

\* An iteration of pathcomp_find keeps the account.
LEMMA FindFinds ==
  ASSUME NEW comp, CompOK(comp), NEW h, Tracks(comp, h), NEW there, Finds(comp, h, there),
         NEW new, new = FindMove(comp), NEW hit \in BOOLEAN,
         hit <=> ~new.done /\ pathcomp_yield(new) # NULL /\ pathcomp_yield(new) \in there,
         NEW g, g.seen = h.seen \cup Reaches(new), g.tested = h.tested \cup Reaches(new),
         g.clean = h.clean, g.byfind = h.byfind,
         g.found = IF hit THEN h.found \cup Reaches(new) ELSE h.found
  PROVE  Finds(new, g, there)
<1>. SUFFICES ASSUME h.clean, h.byfind
              PROVE  g.tested = g.seen /\ g.found = {q \in g.tested : Hits(new, q, there)}
  BY FindMoveOK DEF Finds
<1>1. CompOK(new) /\ new.started
  BY FindMoveOK
<1>2. hit <=> ~new.done /\ Hits(new, Position(new), there)
  BY <1>1, HitsHere
<1>4. CASE comp.started
  <2>1. /\ h.tested = h.seen /\ h.found = {q \in h.tested : Hits(comp, q, there)}
        /\ new.attributes = pathcomp_next(comp).attributes
    BY <1>4, FindMoveOK DEF Finds
  <2>2. \A q : Hits(new, q, there) <=> Hits(comp, q, there)
    <3>1. CASE comp.done
      <4>1. new.attributes = comp.attributes
        BY <2>1, <3>1, NextOK
      <4>2. \A q : At(new, q).attributes = At(comp, q).attributes
        BY <1>1, <4>1, SMTT(20) DEF At, CompOK, ComposerType
      <4>. QED
        BY <4>2, YieldReads DEF Hits
    <3>2. CASE ~comp.done
      BY <1>1, <2>1, <3>2, NextOK, TurnKeepsHits, SMTT(20)
    <3>. QED
      BY <3>1, <3>2
  <2>. QED
    BY <1>2, <2>1, <2>2 DEF Reaches
<1>5. CASE ~comp.started
  <2>1. Unmoved(comp) /\ h.found = {} /\ h.tested = {}
    BY <1>5 DEF Finds, Tracks
  <2>2. h.seen = {Position(comp)}
    BY <2>1, UnmovedSeen, Zenon DEF Tracks
  <2>3. new.attributes = comp.attributes /\ new.done = comp.done
    BY <1>5, FindMoveOK
  <2>4. ~new.done /\ Reaches(new) = {Position(comp)} /\ Position(new) = Position(comp)
    BY <2>1, <2>3 DEF Reaches, Position, Unmoved
  <2>. QED
    BY <1>2, <2>1, <2>2, <2>4, SMTT(20)
<1>. QED
  BY <1>4, <1>5

-----------------------------------------------------------------------------
(* The inductive invariant and the theorems *)

HInv ==
  /\ CInv
  /\ history = [c \in Composers |-> history[c]]
  /\ \A c \in Composers :
       IF Live(c) THEN Follows(composer[c], history[c], files) ELSE history[c] = None

\* The history only watches.
LEMMA Watches == [HNext]_hvars => [Next]_vars
BY Zenon DEF HNext, Next, hvars, vars, HNew, HClone, HFree, HSet, HAdd, HStep, HRewind,
       HFind, HFindTry

\* Changing one composer and its history.
LEMMA HInvUpdate ==
  ASSUME HInv, CInv', NEW c \in Composers, NEW new, NEW h,
         composer' = [composer EXCEPT ![c] = new], Watch(c, h), UNCHANGED files,
         \/ new = NULL /\ h = None
         \/ CompOK(new) /\ Follows(new, h, files)
  PROVE  HInv'
<1>0. IF new = NULL THEN h = None ELSE Follows(new, h, files)
  BY NullAssumption DEF CompOK
<1>1. DOMAIN history = Composers /\ DOMAIN composer = Composers
  BY DEF HInv, CInv
<1>2. /\ composer'[c] = new /\ history'[c] = h
      /\ \A d \in Composers : d # c => composer'[d] = composer[d] /\ history'[d] = history[d]
  BY <1>1 DEF Watch
<1>3. history' = [d \in Composers |-> history'[d]]
  BY <1>1, Zenon DEF Watch
<1>4. ASSUME NEW d \in Composers
      PROVE  IF composer'[d] # NULL THEN Follows(composer'[d], history'[d], files)
                                    ELSE history'[d] = None
  BY <1>0, <1>2 DEF HInv, Live
<1>5. ASSUME NEW d \in Composers
      PROVE  (IF Live(d) THEN Follows(composer[d], history[d], files) ELSE history[d] = None)'
  BY <1>4 DEF Live
<1>. QED
  BY <1>3, <1>5 DEF HInv

\* A composer that has just been created or rewound.
LEMMA FreshFollows ==
  ASSUME NEW comp, CompOK(comp), Rewound(comp), ~comp.done, ~comp.started, NEW there
  PROVE  Follows(comp, Fresh(comp), there)
BY StartCovers, Zenon DEF Follows, Tracks, Finds, Fresh, Unmoved

\* A composer that has been added to.
LEMMA GrownFollows ==
  ASSUME NEW comp, CompOK(comp), NEW new, CompOK(new), NEW h, Tracks(comp, h),
         new.done = comp.done, new.started = comp.started,
         Extends(new.attributes, comp.attributes), NEW there
  PROVE  Follows(new, Grown(new, h), there)
<1>1. Covers(new, Widen(h.seen, Len(new.attributes)), Unmoved(new))
  BY GrowCovers, Zenon DEF Tracks, Unmoved
<1>2. Widen(h.tested, Len(new.attributes)) \subseteq Widen(h.seen, Len(new.attributes))
  BY DEF Tracks, Widen
<1>3. ~new.started => /\ Widen(h.tested, Len(new.attributes)) = {}
                      /\ Widen(h.found, Len(new.attributes)) = {}
  BY DEF Tracks, Widen
<1>. QED
  BY <1>1, <1>2, <1>3, Zenon DEF Follows, Tracks, Finds, Grown

\* A composer with an attribute whose values have been replaced.
LEMMA ReplacedFollows ==
  ASSUME NEW comp, CompOK(comp), NEW h, NEW there
  PROVE  Follows(comp, Replaced(comp, h), there)
BY StartCovers, Zenon DEF Follows, Tracks, Finds, Replaced, Unmoved

\* The invariant about the history holds before the first pathcomp_new.
LEMMA HInvInit == HInit => HInv
BY CInvInit, SMTT(20) DEF HInit, Init, HInv, Live, None

\* Every call of the library, and every iteration of pathcomp_find, preserves the
\* invariant about the history.
LEMMA HInvStep == HInv /\ [HNext]_hvars => HInv'
<1>. SUFFICES ASSUME HInv, [HNext]_hvars PROVE HInv'
  OBVIOUS
<1>0. CInv'
  BY Watches, CInvStep DEF HInv
<1>00. \A c \in Composers : Live(c) =>
         /\ CompOK(composer[c])
         /\ Tracks(composer[c], history[c]) /\ Finds(composer[c], history[c], files)
  BY DEF HInv, CInv, Follows
<1>01. DOMAIN composer = Composers
  BY DEF HInv, CInv
<1>1. ASSUME NEW c \in Composers, NEW class \in Classes, HNew(c, class)
      PROVE  HInv'
  <2>. DEFINE new == pathcomp_new(class, FromConfig[class])
  <2>1. composer' = [composer EXCEPT ![c] = new] /\ composer'[c] = new
    BY <1>01, <1>1 DEF HNew, New
  <2>2. Watch(c, Fresh(new))
    BY <1>1, <2>1 DEF HNew
  <2>3. CompOK(new) /\ Follows(new, Fresh(new), files)
    BY NewOK, FreshFollows
  <2>4. UNCHANGED files
    BY <1>1 DEF HNew, New, Calls
  <2>. HIDE DEF new
  <2>. QED
    BY <1>0, <2>1, <2>2, <2>3, <2>4, HInvUpdate, Zenon
<1>2. ASSUME NEW c \in Composers, NEW d \in Composers, HClone(c, d)
      PROVE  HInv'
  <2>1. Live(c) /\ composer' = [composer EXCEPT ![d] = pathcomp_clone(composer[c])]
    BY <1>2 DEF HClone, Clone
  <2>2. composer' = [composer EXCEPT ![d] = composer[c]]
    BY <1>00, <2>1, CloneOK, Zenon
  <2>3. Watch(d, history[c]) /\ UNCHANGED files
    BY <1>2 DEF HClone, Clone, Calls
  <2>4. CompOK(composer[c]) /\ Follows(composer[c], history[c], files)
    BY <1>00, <2>1 DEF Follows
  <2>. QED
    BY <1>0, <2>2, <2>3, <2>4, HInvUpdate, Zenon
<1>3. ASSUME NEW c \in Composers, HFree(c)
      PROVE  HInv'
  BY <1>0, <1>3, HInvUpdate, Zenon DEF HFree, Free, Calls
<1>4. ASSUME NEW c \in Composers, NEW name \in Names, NEW value \in Values,
             HSet(c, name, value)
      PROVE  HInv'
  <2>. DEFINE comp == composer[c]
              new == pathcomp_set(comp, name, value)
              h == IF HasAtt(comp.attributes, name)
                   THEN Replaced(new, history[c]) ELSE Grown(new, history[c])
  <2>1. Live(c) /\ composer' = [composer EXCEPT ![c] = new] /\ composer'[c] = new
    BY <1>01, <1>4 DEF HSet, Set
  <2>2. Watch(c, h) /\ UNCHANGED files
    BY <1>4, <2>1 DEF HSet, Set, Calls
  <2>3. CompOK(comp) /\ Tracks(comp, history[c])
    BY <1>00, <2>1
  <2>4. /\ CompOK(new) /\ new.done = comp.done /\ new.started = comp.started
        /\ ~HasAtt(comp.attributes, name) => Extends(new.attributes, comp.attributes)
    BY <2>3, SetOK
  <2>. HIDE DEF comp, new
  <2>5. Follows(new, h, files)
    BY <2>3, <2>4, GrownFollows, ReplacedFollows
  <2>. HIDE DEF h
  <2>. QED
    BY <1>0, <2>1, <2>2, <2>4, <2>5, HInvUpdate, Zenon
<1>5. ASSUME NEW c \in Composers, NEW name \in Names, NEW value \in Values,
             HAdd(c, name, value)
      PROVE  HInv'
  <2>. DEFINE comp == composer[c]
              new == pathcomp_add(comp, name, value)
  <2>1. /\ Live(c) /\ Room(comp, name)
        /\ composer' = [composer EXCEPT ![c] = new] /\ composer'[c] = new
    BY <1>01, <1>5 DEF HAdd, Add
  <2>2. Watch(c, Grown(new, history[c])) /\ UNCHANGED files
    BY <1>5, <2>1 DEF HAdd, Add, Calls
  <2>3. CompOK(comp) /\ Tracks(comp, history[c])
    BY <1>00, <2>1
  <2>4. /\ CompOK(new) /\ new.done = comp.done /\ new.started = comp.started
        /\ Extends(new.attributes, comp.attributes)
    BY <2>1, <2>3, AddOK
  <2>. HIDE DEF comp, new
  <2>5. Follows(new, Grown(new, history[c]), files)
    BY <2>3, <2>4, GrownFollows
  <2>. QED
    BY <1>0, <2>1, <2>2, <2>4, <2>5, HInvUpdate, Zenon
<1>6. ASSUME NEW c \in Composers, HStep(c)
      PROVE  HInv'
  <2>. DEFINE comp == composer[c]
              new == pathcomp_next(comp)
              old == history[c]
              h == [seen |-> old.seen \cup Reaches(new), clean |-> old.clean,
                    tested |-> old.tested, found |-> old.found,
                    byfind |-> old.byfind /\ comp.done]
  <2>1. Live(c) /\ composer' = [composer EXCEPT ![c] = new] /\ composer'[c] = new
    BY <1>01, <1>6 DEF HStep, Step
  <2>2. Watch(c, h) /\ UNCHANGED files
    BY <1>6, <2>1 DEF HStep, Step, Calls
  <2>3. CompOK(comp) /\ Tracks(comp, old) /\ Finds(comp, old, files)
    BY <1>00, <2>1
  <2>4. CompOK(new) /\ new.started = comp.started /\ (comp.done => new = comp)
    BY <2>3, NextOK
  <2>5. Covers(new, old.seen \cup Reaches(new), old.clean)
    BY <2>3, <2>4, NextCovers, SMTT(20) DEF Tracks
  <2>. HIDE DEF comp, new, old
  <2>6. Tracks(new, h)
    BY <2>3, <2>4, <2>5 DEF Tracks
  <2>7. Finds(new, h, files)
    BY <2>3, <2>4, Zenon DEF Finds, Reaches
  <2>. HIDE DEF h
  <2>. QED
    BY <1>0, <2>1, <2>2, <2>4, <2>6, <2>7, HInvUpdate, Zenon DEF Follows
<1>7. ASSUME NEW c \in Composers, HRewind(c)
      PROVE  HInv'
  <2>. DEFINE new == pathcomp_rewind(composer[c])
  <2>1. Live(c) /\ composer' = [composer EXCEPT ![c] = new] /\ composer'[c] = new
    BY <1>01, <1>7 DEF HRewind, Rewind
  <2>2. Watch(c, Fresh(new)) /\ UNCHANGED files
    BY <1>7, <2>1 DEF HRewind, Rewind, Calls
  <2>3. CompOK(new) /\ Follows(new, Fresh(new), files)
    BY <1>00, <2>1, RewindOK, FreshFollows
  <2>. HIDE DEF new
  <2>. QED
    BY <1>0, <2>1, <2>2, <2>3, HInvUpdate, Zenon
<1>8. ASSUME NEW c \in Composers, HFind(c)
      PROVE  HInv'
  BY <1>0, <1>8 DEF HFind, Find, HInv, Live
<1>9. ASSUME NEW c \in Composers, HFindTry(c)
      PROVE  HInv'
  <2>. DEFINE comp == composer[c]
              new == FindMove(comp)
              old == history[c]
              h == [seen |-> old.seen \cup Reaches(new), clean |-> old.clean,
                    tested |-> old.tested \cup Reaches(new),
                    found |-> IF FindHit(c) THEN old.found \cup Reaches(new) ELSE old.found,
                    byfind |-> old.byfind]
  <2>1. Live(c) /\ composer' = [composer EXCEPT ![c] = new] /\ composer'[c] = new
    BY <1>01, <1>9, NullAssumption DEF HFindTry, FindTry, HInv, CInv
  <2>2. Watch(c, h) /\ UNCHANGED files
    BY <1>9, <2>1, Zenon DEF HFindTry, FindTry
  <2>3. CompOK(comp) /\ Tracks(comp, old) /\ Finds(comp, old, files)
    BY <1>00, <2>1
  <2>4. CompOK(new) /\ new.started /\ Covers(new, old.seen \cup Reaches(new), old.clean)
    BY <2>3, FindCovers
  <2>5. FindHit(c) <=> ~new.done /\ pathcomp_yield(new) # NULL /\ pathcomp_yield(new) \in files
    BY <2>1, <2>2 DEF FindHit, Exists
  <2>6. new = FindMove(comp)
    OBVIOUS
  <2>. HIDE DEF comp, new, old
  <2>7. Tracks(new, h)
    BY <2>3, <2>4, Zenon DEF Tracks
  <2>8. Finds(new, h, files)
    BY <2>3, <2>5, <2>6, FindFinds, Zenon
  <2>. HIDE DEF h
  <2>. QED
    BY <1>0, <2>1, <2>2, <2>4, <2>7, <2>8, HInvUpdate, Zenon DEF Follows
<1>10. CASE UNCHANGED hvars
  BY <1>0, <1>10 DEF hvars, HInv, Live
<1>. QED
  BY <1>1, <1>2, <1>3, <1>4, <1>5, <1>6, <1>7, <1>8, <1>9, <1>10 DEF HNext

\* The invariant about the history holds whatever the client calls.
LEMMA HInvAlways == HSpec => []HInv
BY HInvInit, HInvStep, PTL DEF HSpec

\* When pathcomp_done reports the end of an iteration, every combination has
\* been visited.
THEOREM IterationIsComplete == HSpec => []VisitsAll
<1>1. HInv => VisitsAll
  BY Zenon DEF HInv, VisitsAll, Follows, Tracks, Covers
<1>. QED
  BY <1>1, HInvAlways, PTL

\* When only pathcomp_find has moved a composer and it reports that there is nothing
\* more, it has returned with exactly the combinations whose pathname exists.
THEOREM FindIsComplete == HSpec => []FindComplete
<1>1. ASSUME HInv, NEW c \in Composers, Live(c), composer[c].done,
             history[c].clean, history[c].byfind
      PROVE  history[c].found =
               {q \in Combinations(composer[c]) : Exists(pathcomp_yield(At(composer[c], q)))}
  <2>. DEFINE comp == composer[c]
              h == history[c]
  <2>1. Covers(comp, h.seen, h.clean) /\ Finds(comp, h, files)
    BY <1>1, Zenon DEF HInv, Follows, Tracks
  <2>2. h.seen = Combinations(comp)
    BY <1>1, <2>1 DEF Covers
  <2>3. h.found = {q \in h.seen : Hits(comp, q, files)}
    BY <1>1, <2>1 DEF Finds, Unmoved
  <2>. QED
    BY <2>2, <2>3 DEF Hits, Exists
<1>2. HInv => FindComplete
  BY <1>1 DEF FindComplete
<1>. QED
  BY <1>2, HInvAlways, PTL

\* pathcomp_next never returns to a combination, whatever has been added.
THEOREM IterationNeverRepeats == HSpec => NeverTwice
<1>1. ASSUME HInv, NEW c \in Composers, HStep(c) \/ HFindTry(c),
             composer'[c].attributes # composer[c].attributes
      PROVE  composer'[c].done \/ Position(composer'[c]) \notin history[c].seen
  <2>. DEFINE comp == composer[c]
              new == composer'[c]
  <2>0. DOMAIN composer = Composers
    BY <1>1 DEF HInv, CInv
  <2>1. Live(c)
    BY <1>1, NullAssumption DEF HInv, CInv, HStep, Step, HFindTry, FindTry
  <2>2. CompOK(comp) /\ Covers(comp, history[c].seen, history[c].clean)
    BY <1>1, <2>1 DEF HInv, CInv, Follows, Tracks
  <2>3. CASE HStep(c)
    <3>1. new = pathcomp_next(comp)
      BY <2>0, <2>3 DEF HStep, Step
    <3>. HIDE DEF comp, new
    <3>2. CompOK(new) /\ (comp.done => new = comp)
      BY <2>2, <3>1, NextOK
    <3>3. ~comp.done
      BY <1>1, <3>2 DEF comp, new
    <3>4. ~new.done => Position(new) \notin history[c].seen
      BY <2>2, <3>1, <3>2, <3>3, NextCovers, Zenon
    <3>. QED
      BY <3>4, SMTT(20) DEF new
  <2>4. CASE HFindTry(c)
    <3>1. new = FindMove(comp)
      BY <2>0, <2>4 DEF HFindTry, FindTry
    <3>. HIDE DEF comp, new
    <3>2. CompOK(new)
      BY <2>2, <3>1, FindMoveOK, Zenon
    <3>3. CASE ~comp.started
      <4>1. new.attributes = comp.attributes
        BY <2>2, <3>1, <3>3, FindMoveOK
      <4>. QED
        BY <1>1, <4>1 DEF comp, new
    <3>4. CASE comp.started
      <4>1. new.attributes = pathcomp_next(comp).attributes
            /\ new.done = pathcomp_next(comp).done
        BY <2>2, <3>1, <3>4, FindMoveOK
      <4>2. ~comp.done
        BY <1>1, <2>2, <4>1, NextOK DEF comp, new
      <4>3. ~new.done => Position(new) \notin history[c].seen
        BY <2>2, <3>2, <4>1, <4>2, NextCovers, Zenon
      <4>. QED
        BY <4>3 DEF new
    <3>. QED
      BY <3>3, <3>4
  <2>. QED
    BY <1>1, <2>3, <2>4
<1>. DEFINE Fresher(c) ==
       (HStep(c) \/ HFindTry(c)) /\ composer'[c].attributes # composer[c].attributes
         => composer'[c].done \/ Position(composer'[c]) \notin history[c].seen
<1>2. HInv => [\A c \in Composers : Fresher(c)]_hvars
  BY <1>1
<1>3. HSpec => [][\A c \in Composers : Fresher(c)]_hvars
  BY <1>2, HInvAlways, PTL DEF HSpec
<1>. QED
  BY <1>3 DEF NeverTwice

\* pathcomp_find looks for no pathname twice.
THEOREM FindTestsOnce == HSpec => TestsOnce
<1>1. ASSUME HInv, NEW c \in Composers, HFindTry(c), ~composer'[c].done
      PROVE  Position(composer'[c]) \notin history[c].tested
  <2>1. Live(c) /\ composer'[c] = FindMove(composer[c])
    BY <1>1, NullAssumption DEF HInv, CInv, HFindTry, FindTry
  <2>2. CompOK(composer[c]) /\ Tracks(composer[c], history[c])
    BY <1>1, <2>1 DEF HInv, CInv, Follows
  <2>. QED
    BY <1>1, <2>1, <2>2, FindCovers, Zenon
<1>. DEFINE Once(c) ==
       HFindTry(c) /\ ~composer'[c].done => Position(composer'[c]) \notin history[c].tested
<1>2. HInv => [\A c \in Composers : Once(c)]_hvars
  BY <1>1
<1>3. HSpec => [][\A c \in Composers : Once(c)]_hvars
  BY <1>2, HInvAlways, PTL DEF HSpec
<1>. QED
  BY <1>3 DEF TestsOnce

-----------------------------------------------------------------------------
(* Composers keep the promise of Enumerator *)

\* pathcomp_next leaves the combinations of a composer alone.
LEMMA TurnKeepsCombinations ==
  ASSUME NEW comp, CompOK(comp), NEW new, CompOK(new),
         new.attributes = Turn(comp.attributes)
  PROVE  Combinations(new) = Combinations(comp)
<1>. DEFINE n == Len(comp.attributes)
<1>1. /\ Len(new.attributes) = n
      /\ \A i \in 1..n : new.attributes[i].alternatives = comp.attributes[i].alternatives
  BY TurnOK DEF CompOK
<1>2. DOMAIN new.attributes = 1..n /\ DOMAIN comp.attributes = 1..n
  BY <1>1 DEF CompOK, ListOK
<1>. HIDE DEF n
<1>. QED
  BY <1>1, <1>2 DEF Combinations

\* An iterator that no call touches.
LEMMA RestMaps ==
  ASSUME NEW c \in Composers, composer'[c] = composer[c],
         history'[c].seen = history[c].seen, history'[c].clean = history[c].clean
  PROVE  Enum!Rest(c)
BY Zenon DEF Enum!Rest, Live, Combinations, Position

\* A composer that is live again, or on its first combination with other attributes.
LEMMA StartMaps ==
  ASSUME NEW c \in Composers, NEW new, CompOK(new), ~new.done, composer'[c] = new,
         history'[c].seen = {Position(new)}, history'[c].clean
  PROVE  Enum!Start(c)
<1>1. new # NULL
  BY NullAssumption DEF CompOK
<1>2. Position(new) \in Combinations(new)
  BY PositionIs
<1>. QED
  BY <1>1, <1>2, Zenon DEF Enum!Start, Live, Combinations, Position

\* A composer whose iteration is not clean.
LEMMA SpoilMaps ==
  ASSUME NEW c \in Composers, ~history'[c].clean
  PROVE  Enum!Spoil(c)
BY DEF Enum!Spoil

\* A copy of a composer.
LEMMA AdoptMaps ==
  ASSUME NEW c \in Composers, NEW d \in Composers, Live(c), composer'[d] = composer[c],
         history[c].clean, ~history[d].clean, history'[d] = history[c]
  PROVE  Enum!Adopt(d)
BY Zenon DEF Enum!Adopt, Live, Combinations, Position

\* What pathcomp_next does, called by the client or by pathcomp_find.
LEMMA NextMaps ==
  ASSUME NEW c \in Composers, NEW comp, CompOK(comp), NEW new, CompOK(new),
         composer[c] = comp, composer'[c] = new,
         Covers(comp, history[c].seen, history[c].clean),
         new.attributes = pathcomp_next(comp).attributes,
         new.done = pathcomp_next(comp).done,
         history'[c].seen = history[c].seen \cup Reaches(new),
         history'[c].clean = history[c].clean, history[c].clean
  PROVE  Enum!Move(c) \/ Enum!End(c) \/ Enum!Rest(c)
<1>1. comp # NULL /\ new # NULL
  BY NullAssumption DEF CompOK
<1>2. CASE comp.done
  <2>1. new.attributes = comp.attributes /\ new.done = comp.done
    BY <1>2, NextOK, Zenon
  <2>2. Reaches(new) = {}
    BY <1>2, <2>1, SMTT(20) DEF Reaches
  <2>. QED
    BY <1>1, <2>1, <2>2, Zenon DEF Enum!Rest, Live, Combinations, Position
<1>3. CASE ~comp.done
  <2>1. new.attributes = Turn(comp.attributes)
    BY <1>3, NextOK
  <2>2. Combinations(new) = Combinations(comp)
    BY <2>1, TurnKeepsCombinations
  <2>3. /\ Covers(new, history[c].seen \cup Reaches(new), history[c].clean)
        /\ ~new.done => Position(new) \notin history[c].seen
    BY <1>3, NextCovers, Zenon
  <2>4. Position(new) \in Combinations(comp)
    BY <2>2, PositionIs, SMTT(20)
  <2>5. history[c].seen \subseteq Combinations(comp)
    BY DEF Covers
  <2>6. CASE new.done
    <3>1. Reaches(new) = {}
      BY <2>6 DEF Reaches
    <3>2. Combinations(comp) = history[c].seen
      BY <2>2, <2>3, <2>5, <2>6, <3>1, Zenon DEF Covers
    <3>. QED
      BY <1>1, <1>3, <2>2, <2>4, <2>6, <3>1, <3>2, Zenon DEF Enum!End, Live, Combinations, Position
  <2>7. CASE ~new.done
    <3>1. Reaches(new) = {Position(new)}
      BY <2>7 DEF Reaches
    <3>. QED
      BY <1>1, <1>3, <2>2, <2>3, <2>4, <2>7, <3>1, Zenon DEF Enum!Move, Live, Combinations, Position
  <2>. QED
    BY <2>6, <2>7
<1>. QED
  BY <1>2, <1>3

\* A call that touches one composer is a step of Enumerator when it is one for
\* that composer.
LEMMA OneMaps ==
  ASSUME HInv, NEW c \in Composers, NEW new, NEW h,
         composer' = [composer EXCEPT ![c] = new], Watch(c, h),
         composer'[c] = new /\ history'[c] = h =>
           Enum!Start(c) \/ Enum!Adopt(c) \/ Enum!Move(c) \/ Enum!End(c)
             \/ Enum!Spoil(c) \/ Enum!Rest(c)
  PROVE  Enum!Next
<1>1. DOMAIN history = Composers /\ DOMAIN composer = Composers
  BY DEF HInv, CInv
<1>2. /\ composer'[c] = new /\ history'[c] = h
      /\ \A d \in Composers : d # c => composer'[d] = composer[d] /\ history'[d] = history[d]
  BY <1>1 DEF Watch
<1>3. ASSUME NEW d \in Composers, d # c PROVE Enum!Rest(d)
  BY <1>2, <1>3, RestMaps
<1>. QED
  BY <1>2, <1>3 DEF Enum!Next

\* Every call of the library and every iteration of pathcomp_find is a step of
\* Enumerator, or of none of its iterators.
LEMMA EnumStep == HInv /\ HInv' /\ [HNext]_hvars => [Enum!Next]_(Enum!vars)
<1>. SUFFICES ASSUME HInv, HInv', HNext PROVE Enum!Next
  <2>1. UNCHANGED hvars => UNCHANGED Enum!vars
    BY DEF hvars, Enum!vars, Live
  <2>. QED
    BY <2>1
<1>0. DOMAIN composer = Composers /\ DOMAIN history = Composers
  BY DEF HInv, CInv
<1>00. \A c \in Composers : Live(c) => CompOK(composer[c]) /\ Tracks(composer[c], history[c])
  BY DEF HInv, CInv, Follows
<1>01. ASSUME NEW c \in Composers, NEW new, composer' = [composer EXCEPT ![c] = new],
              CompOK(new), NEW h, Watch(c, h),
              h.clean => Unmoved(new)
       PROVE  Enum!Next
  <2>1. composer'[c] = new /\ history'[c] = h
    BY <1>0, <1>01 DEF Watch
  <2>2. new # NULL
    BY <1>01, NullAssumption DEF CompOK
  <2>3. Tracks(new, h)
    BY <2>1, <2>2 DEF HInv, Live, Follows
  <2>4. CASE h.clean
    <3>1. Unmoved(new) /\ h.seen = {Position(new)}
      BY <1>01, <2>3, <2>4, UnmovedSeen, Zenon DEF Tracks
    <3>2. Enum!Start(c)
      BY <1>01, <2>1, <2>4, <3>1, StartMaps DEF Unmoved
    <3>. QED
      BY <1>01, <3>2, OneMaps, Zenon
  <2>5. CASE ~h.clean
    BY <1>01, <2>1, <2>5, SpoilMaps, OneMaps, Zenon
  <2>. QED
    BY <2>4, <2>5
<1>1. ASSUME NEW c \in Composers, NEW class \in Classes, HNew(c, class)
      PROVE  Enum!Next
  <2>. DEFINE new == pathcomp_new(class, FromConfig[class])
  <2>1. composer' = [composer EXCEPT ![c] = new] /\ composer'[c] = new
    BY <1>0, <1>1 DEF HNew, New
  <2>2. Watch(c, Fresh(new))
    BY <1>1, <2>1 DEF HNew
  <2>3. CompOK(new) /\ Unmoved(new)
    BY NewOK DEF Unmoved
  <2>. HIDE DEF new
  <2>. QED
    BY <1>01, <2>1, <2>2, <2>3, Zenon
<1>2. ASSUME NEW c \in Composers, NEW d \in Composers, HClone(c, d)
      PROVE  Enum!Next
  <2>1. /\ Live(c) /\ ~Live(d) /\ Watch(d, history[c])
        /\ composer' = [composer EXCEPT ![d] = pathcomp_clone(composer[c])]
    BY <1>2 DEF HClone, Clone
  <2>2. composer' = [composer EXCEPT ![d] = composer[c]]
    BY <1>00, <2>1, CloneOK, Zenon
  <2>3. composer'[d] = composer[c] /\ history'[d] = history[c]
    BY <1>0, <2>1, <2>2 DEF Watch
  <2>4. ~history[d].clean
    BY <2>1 DEF HInv, None
  <2>5. CASE history[c].clean
    BY <2>1, <2>2, <2>3, <2>4, <2>5, AdoptMaps, OneMaps, Zenon
  <2>6. CASE ~history[c].clean
    BY <2>1, <2>2, <2>3, <2>6, SpoilMaps, OneMaps, Zenon
  <2>. QED
    BY <2>5, <2>6
<1>3. ASSUME NEW c \in Composers, HFree(c)
      PROVE  Enum!Next
  <2>1. composer' = [composer EXCEPT ![c] = NULL] /\ Watch(c, None)
    BY <1>3 DEF HFree, Free
  <2>2. ~history'[c].clean
    BY <1>0, <2>1 DEF Watch, None
  <2>. QED
    BY <2>1, <2>2, SpoilMaps, OneMaps, Zenon
<1>4. ASSUME NEW c \in Composers, NEW name \in Names, NEW value \in Values,
             HSet(c, name, value)
      PROVE  Enum!Next
  <2>. DEFINE new == pathcomp_set(composer[c], name, value)
              h == IF HasAtt(composer[c].attributes, name)
                   THEN Replaced(new, history[c]) ELSE Grown(new, history[c])
  <2>1. Live(c) /\ composer' = [composer EXCEPT ![c] = new] /\ composer'[c] = new
    BY <1>0, <1>4 DEF HSet, Set
  <2>2. Watch(c, h)
    BY <1>4, <2>1 DEF HSet
  <2>3. CompOK(new)
    BY <1>00, <2>1, SetOK
  <2>. HIDE DEF new
  <2>4. h.clean => Unmoved(new)
    BY DEF Replaced, Grown
  <2>. HIDE DEF h
  <2>. QED
    BY <1>01, <2>1, <2>2, <2>3, <2>4, Zenon
<1>5. ASSUME NEW c \in Composers, NEW name \in Names, NEW value \in Values,
             HAdd(c, name, value)
      PROVE  Enum!Next
  <2>. DEFINE new == pathcomp_add(composer[c], name, value)
  <2>1. /\ Live(c) /\ Room(composer[c], name)
        /\ composer' = [composer EXCEPT ![c] = new] /\ composer'[c] = new
    BY <1>0, <1>5 DEF HAdd, Add
  <2>2. Watch(c, Grown(new, history[c]))
    BY <1>5, <2>1 DEF HAdd
  <2>3. CompOK(new)
    BY <1>00, <2>1, AddOK
  <2>. DEFINE h == Grown(new, history[c])
  <2>. HIDE DEF new
  <2>4. h.clean => Unmoved(new)
    BY DEF Grown
  <2>. HIDE DEF h
  <2>. QED
    BY <1>01, <2>1, <2>2, <2>3, <2>4, Zenon DEF h
<1>6. ASSUME NEW c \in Composers, HStep(c)
      PROVE  Enum!Next
  <2>. DEFINE new == pathcomp_next(composer[c])
  <2>1. Live(c) /\ composer' = [composer EXCEPT ![c] = new] /\ composer'[c] = new
    BY <1>0, <1>6 DEF HStep, Step
  <2>2. PICK h : /\ Watch(c, h)
                 /\ h.seen = history[c].seen \cup Reaches(new) /\ h.clean = history[c].clean
    BY <1>6, <2>1 DEF HStep
  <2>3. history'[c] = h
    BY <1>0, <2>2 DEF Watch
  <2>4. CompOK(composer[c]) /\ CompOK(new) /\ Tracks(composer[c], history[c])
    BY <1>00, <2>1, NextOK
  <2>5. new.attributes = pathcomp_next(composer[c]).attributes
        /\ new.done = pathcomp_next(composer[c]).done
    OBVIOUS
  <2>. HIDE DEF new
  <2>6. CASE history[c].clean
    <3>1. Enum!Move(c) \/ Enum!End(c) \/ Enum!Rest(c)
      BY <2>1, <2>2, <2>3, <2>4, <2>5, <2>6, NextMaps, Zenon DEF Tracks
    <3>. QED
      BY <2>1, <2>2, <3>1, OneMaps, Zenon
  <2>7. CASE ~history[c].clean
    BY <2>1, <2>2, <2>3, <2>7, SpoilMaps, OneMaps, Zenon
  <2>. QED
    BY <2>6, <2>7
<1>7. ASSUME NEW c \in Composers, HRewind(c)
      PROVE  Enum!Next
  <2>. DEFINE new == pathcomp_rewind(composer[c])
  <2>1. Live(c) /\ composer' = [composer EXCEPT ![c] = new] /\ composer'[c] = new
    BY <1>0, <1>7 DEF HRewind, Rewind
  <2>2. Watch(c, Fresh(new))
    BY <1>7, <2>1 DEF HRewind
  <2>3. CompOK(new) /\ Unmoved(new)
    BY <1>00, <2>1, RewindOK DEF Unmoved
  <2>. HIDE DEF new
  <2>. QED
    BY <1>01, <2>1, <2>2, <2>3, Zenon
<1>8. ASSUME NEW c \in Composers, HFind(c)
      PROVE  Enum!Next
  BY <1>8, RestMaps DEF HFind, Find, Enum!Next
<1>9. ASSUME NEW c \in Composers, HFindTry(c)
      PROVE  Enum!Next
  <2>. DEFINE comp == composer[c]
              new == FindMove(comp)
  <2>1. Live(c) /\ composer' = [composer EXCEPT ![c] = new] /\ composer'[c] = new
    BY <1>0, <1>9, NullAssumption, SMTT(20) DEF HFindTry, FindTry, HInv, CInv
  <2>2. PICK h : /\ Watch(c, h)
                 /\ h.seen = history[c].seen \cup Reaches(new) /\ h.clean = history[c].clean
    BY <1>9, <2>1 DEF HFindTry
  <2>3. history'[c] = h
    BY <1>0, <2>2 DEF Watch
  <2>4. CompOK(comp) /\ Tracks(comp, history[c])
    BY <1>00, <2>1
  <2>5. /\ CompOK(new)
        /\ comp.started => /\ new.attributes = pathcomp_next(comp).attributes
                           /\ new.done = pathcomp_next(comp).done
        /\ ~comp.started => new.attributes = comp.attributes /\ new.done = comp.done
    BY <2>4, FindMoveOK, SMTT(20)
  <2>. HIDE DEF new
  <2>6. CASE ~history[c].clean
    BY <2>1, <2>2, <2>3, <2>6, SpoilMaps, OneMaps, Zenon
  <2>7. CASE history[c].clean /\ comp.started
    <3>1. Enum!Move(c) \/ Enum!End(c) \/ Enum!Rest(c)
      BY <2>1, <2>2, <2>3, <2>4, <2>5, <2>7, NextMaps, Zenon DEF Tracks
    <3>. QED
      BY <2>1, <2>2, <3>1, OneMaps, Zenon
  <2>8. CASE ~comp.started
    <3>1. Position(new) = Position(comp) /\ Combinations(new) = Combinations(comp)
      BY <2>5, <2>8, SMTT(20) DEF Position, Combinations
    <3>2. history[c].seen \cup Reaches(new) = history[c].seen
      BY <2>4, <2>5, <2>8, <3>1 DEF Tracks, Covers, Reaches
    <3>3. new # NULL
      BY <2>5, NullAssumption DEF CompOK
    <3>4. Enum!Rest(c)
      BY <2>1, <2>2, <2>3, <2>5, <2>8, <3>1, <3>2, <3>3, Zenon DEF Enum!Rest, Live
    <3>. QED
      BY <2>1, <2>2, <3>4, OneMaps, Zenon
  <2>. QED
    BY <2>6, <2>7, <2>8
<1>. QED
  BY <1>1, <1>2, <1>3, <1>4, <1>5, <1>6, <1>7, <1>8, <1>9, SMTT(20) DEF HNext

\* The iterators of composers implement Enumerator: each visits every combination
\* once before it reports its end, and a clone continues what its original began.
THEOREM ComposersEnumerate == HSpec => Enumerates
<1>1. HInit => Enum!Init
  BY DEF HInit, Enum!Init, None
<1>. QED
  BY <1>1, EnumStep, HInvAlways, PTL DEF HSpec, Enumerates, Enum!Spec
=============================================================================
