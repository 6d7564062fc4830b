--------------------------- MODULE LoadConfigProofs ---------------------------
(***************************************************************************)
(* Loading keeps the values of a class apart from those it inherits, for   *)
(* any classes and any configurations, cyclic ones included.               *)
(***************************************************************************)
EXTENDS LoadConfig, SequenceTheorems, TLAPS

\* What loading keeps true of the attributes.
ListOK(atts) ==
  /\ atts \in Seq(AttType)
  /\ \A i, j \in 1..Len(atts) : atts[i].name = atts[j].name => i = j
  /\ \A i \in 1..Len(atts) : Len(atts[i].alternatives) > 0
  /\ \A i \in 1..Len(atts) : \A k \in 1..Len(atts[i].alternatives) :
       (atts[i].origin = class) <=> (ClassOf(atts[i].alternatives[k]) = class)

\* Own values are still there.
Keeps(old, new) ==
  \A i \in 1..Len(old) :
    old[i].origin = class =>
      /\ i \in 1..Len(new)
      /\ new[i].name = old[i].name /\ new[i].origin = class
      /\ \A k \in 1..Len(old[i].alternatives) :
           k \in 1..Len(new[i].alternatives) /\ new[i].alternatives[k] = old[i].alternatives[k]

\* An activation is in a section of the configuration while it adds entries.
FrameOK(frame) ==
  /\ frame \in FrameType
  /\ frame.psec >= 1
  /\ frame.entry > 0 => frame.psec \in 1..Len(config)

LoadInv ==
  /\ WellFormed(config) /\ class \in Classes /\ crashed \in BOOLEAN
  /\ ListOK(attributes)
  /\ stack \in Seq(FrameType)
  /\ \A i \in 1..Len(stack) : FrameOK(stack[i])

-----------------------------------------------------------------------------
(* Adding a value *)

\* The first attribute of a name is an attribute of that name.
LEMMA Retrieved ==
  ASSUME NEW atts, ListOK(atts), NEW name \in Names, HasAtt(atts, name)
  PROVE  /\ pathcomp_retrieve_att(atts, name) \in 1..Len(atts)
         /\ atts[pathcomp_retrieve_att(atts, name)].name = name
<1>1. atts \in Seq(AttType) /\ DOMAIN atts = 1..Len(atts) /\ Len(atts) \in Nat
  BY DEF ListOK
<1>2. PICK i \in 1..Len(atts) : atts[i].name = name
  BY <1>1 DEF HasAtt
<1>3. \A j \in 1..(i - 1) : atts[j].name # name
  <2>1. \A j \in 1..(i - 1) : j \in 1..Len(atts) /\ j # i
    BY <1>1
  <2>. QED
    BY <1>2, <2>1 DEF ListOK
<1>. QED
  BY <1>1, <1>2, <1>3 DEF pathcomp_retrieve_att

\* pathcomp_add_or_replace keeps own and inherited values apart, and own values
\* in place.
LEMMA AddOK ==
  ASSUME class \in Classes, NEW atts, ListOK(atts), NEW name \in Names,
         NEW value \in Nat \X Nat, NEW origin \in Classes, ClassOf(value) = origin
  PROVE  LET new == pathcomp_add_or_replace(class, atts, name, value, origin, "ADD_IF")
         IN  ListOK(new) /\ Keeps(atts, new)
<1>. DEFINE new == pathcomp_add_or_replace(class, atts, name, value, origin, "ADD_IF")
            fresh == att_new(name, value, origin)
<1>0. SUFFICES ListOK(new) /\ Keeps(atts, new)
  OBVIOUS
<1>1. atts \in Seq(AttType) /\ DOMAIN atts = 1..Len(atts) /\ Len(atts) \in Nat
  BY DEF ListOK
<1>2. /\ fresh \in AttType /\ fresh.name = name /\ fresh.origin = origin
      /\ fresh.alternatives = <<value>>
  BY DEF AttType, att_new
<1>3. <<value>> \in Seq(Nat \X Nat) /\ Len(<<value>>) = 1 /\ <<value>>[1] = value
  OBVIOUS
<1>6. \A k \in 1..Len(<<value>>) : k = 1
  BY <1>3
<1>7. Len(fresh.alternatives) > 0 /\ \A k \in 1..Len(fresh.alternatives) : fresh.alternatives[k] = value
  BY <1>2, <1>3, <1>6
<1>. HIDE DEF fresh
<1>4. CASE ~HasAtt(atts, name)
  <2>1. new = Append(atts, fresh)
    BY <1>4 DEF pathcomp_add_or_replace, fresh
  <2>. HIDE DEF new
  <2>2. /\ new \in Seq(AttType) /\ Len(new) = Len(atts) + 1
        /\ \A i \in 1..Len(atts) : new[i] = atts[i]
        /\ new[Len(atts) + 1] = fresh
    BY <1>1, <1>2, <2>1
  <2>3. \A i \in 1..Len(new) : i \in 1..Len(atts) \/ i = Len(atts) + 1
    BY <1>1, <2>2
  <2>4. \A i \in 1..Len(atts) : new[i].name # name
    BY <1>1, <1>4, <2>2 DEF HasAtt
  <2>5. \A i, j \in 1..Len(new) : new[i].name = new[j].name => i = j
    BY <1>2, <2>2, <2>3, <2>4 DEF ListOK
  <2>6. \A i \in 1..Len(new) : Len(new[i].alternatives) > 0
    BY <1>7, <2>2, <2>3, SMTT(20) DEF ListOK
  <2>7. \A i \in 1..Len(new) : \A k \in 1..Len(new[i].alternatives) :
           (new[i].origin = class) <=> (ClassOf(new[i].alternatives[k]) = class)
    BY <1>2, <1>7, <2>2, <2>3, SMTT(20) DEF ListOK
  <2>8. Keeps(atts, new)
    BY <1>1, <2>2 DEF Keeps
  <2>. QED
    BY <2>2, <2>5, <2>6, <2>7, <2>8 DEF ListOK
<1>5. CASE HasAtt(atts, name)
  <2>. DEFINE at == pathcomp_retrieve_att(atts, name)
              att == atts[at]
              do == AddIf(class, att, origin)
  <2>1. at \in 1..Len(atts) /\ att.name = name /\ att \in AttType
    BY <1>1, <1>5, Retrieved
  <2>2. att.origin # NULL /\ origin # NULL
    BY <2>1, ClassesAssumption DEF AttType
  <2>3. do = IF origin # class /\ att.origin = class THEN "NONE"
             ELSE IF origin = class /\ att.origin # class THEN "REPLACE"
             ELSE "ADD"
    BY <2>2 DEF AddIf, Inherited
  <2>4. ASSUME NEW put \in AttType, new = [atts EXCEPT ![at] = put], put.name = name,
               Len(put.alternatives) > 0,
               \A k \in 1..Len(put.alternatives) :
                 (put.origin = class) <=> (ClassOf(put.alternatives[k]) = class),
               att.origin = class =>
                 /\ put.origin = class
                 /\ \A k \in 1..Len(att.alternatives) :
                      /\ k \in 1..Len(put.alternatives)
                      /\ put.alternatives[k] = att.alternatives[k]
        PROVE  ListOK(new) /\ Keeps(atts, new)
    <3>. HIDE DEF new, at
    <3>1. /\ new \in Seq(AttType) /\ Len(new) = Len(atts) /\ new[at] = put
          /\ \A i \in 1..Len(atts) : i # at => new[i] = atts[i]
      BY <1>1, <2>1, <2>4
    <3>2. \A i \in 1..Len(atts) : new[i].name = atts[i].name
      BY <2>1, <2>4, <3>1
    <3>3. Keeps(atts, new)
      BY <1>1, <2>4, <3>1, <3>2 DEF Keeps
    <3>. QED
      BY <2>4, <3>1, <3>2, <3>3 DEF ListOK
  <2>5. CASE do = "REPLACE"
    <3>. DEFINE put == att_replace_value(att, value, origin)
    <3>1. new = [atts EXCEPT ![at] = put]
      BY <1>5, <2>5 DEF pathcomp_add_or_replace
    <3>2. /\ put \in AttType /\ put.name = name /\ put.origin = origin
          /\ put.alternatives = <<value>>
      BY <2>1 DEF AttType, att_replace_value
    <3>3. att.origin # class /\ origin = class
      BY <2>3, <2>5
    <3>. HIDE DEF put
    <3>. QED
      <4>1. /\ Len(put.alternatives) > 0
            /\ \A k \in 1..Len(put.alternatives) : put.alternatives[k] = value
        BY <1>3, <1>6, <3>2
      <4>. QED
        BY <2>4, <3>1, <3>2, <3>3, <4>1, Zenon
  <2>6. CASE do = "ADD"
    <3>. DEFINE put == att_add_value(att, value)
                longer == Append(att.alternatives, value)
    <3>1. new = [atts EXCEPT ![at] = put]
      BY <1>5, <2>6 DEF pathcomp_add_or_replace
    <3>2. att.alternatives \in Seq(Nat \X Nat)
      BY <2>1 DEF AttType
    <3>3. /\ longer \in Seq(Nat \X Nat) /\ Len(longer) = Len(att.alternatives) + 1
          /\ \A k \in 1..Len(att.alternatives) : longer[k] = att.alternatives[k]
          /\ longer[Len(att.alternatives) + 1] = value
          /\ Len(att.alternatives) \in Nat
      BY <3>2
    <3>4. /\ put \in AttType /\ put.name = name /\ put.origin = att.origin
          /\ put.alternatives = longer
      <4>. HIDE DEF longer
      <4>1. put = [att EXCEPT !.alternatives = longer]
        BY DEF att_add_value, longer
      <4>. QED
        BY <2>1, <3>3, <4>1, Zenon DEF AttType
    <3>5. (att.origin = class) <=> (origin = class)
      BY <2>3, <2>6
    <3>. DEFINE n == Len(att.alternatives)
    <3>10. \A k \in 1..n : (att.origin = class) <=> (ClassOf(att.alternatives[k]) = class)
      BY <2>1 DEF ListOK
    <3>. HIDE DEF put, longer
    <3>6. /\ \A k \in 1..Len(longer) : k \in 1..n \/ k = n + 1
          /\ \A k \in 1..n : k \in 1..Len(longer)
          /\ Len(longer) > 0
      <4>1. n \in Nat /\ Len(longer) = n + 1
        BY <3>3
      <4>. HIDE DEF n
      <4>. QED
        BY <4>1
    <3>8. \A k \in 1..Len(longer) :
             (att.origin = class) <=> (ClassOf(longer[k]) = class)
      <4>1. (\A k \in 1..n : longer[k] = att.alternatives[k]) /\ longer[n + 1] = value
        BY <3>3
      <4>. HIDE DEF n, at
      <4>. QED
        BY <3>5, <3>6, <3>10, <4>1
    <3>. QED
      BY <2>4, <3>1, <3>3, <3>4, <3>6, <3>8, Zenon
  <2>7. CASE do = "NONE"
    <3>1. new = atts
      BY <1>5, <2>7 DEF pathcomp_add_or_replace
    <3>. QED
      BY <1>1, <3>1 DEF Keeps
  <2>. QED
    BY <2>3, <2>5, <2>6, <2>7
<1>. QED
  BY <1>4, <1>5

-----------------------------------------------------------------------------
(* The stack *)

StackOK(s) == s \in Seq(FrameType) /\ \A i \in 1..Len(s) : FrameOK(s[i])

\* A call of pathcomp_add_atts_from_sections: one more activation.
LEMMA PushOK ==
  ASSUME NEW s, StackOK(s), NEW frame, FrameOK(frame)
  PROVE  StackOK(Append(s, frame))
<1>1. s \in Seq(FrameType) /\ frame \in FrameType /\ Len(s) \in Nat
  BY DEF StackOK, FrameOK
<1>2. /\ Append(s, frame) \in Seq(FrameType) /\ Len(Append(s, frame)) = Len(s) + 1
      /\ \A i \in 1..Len(s) : Append(s, frame)[i] = s[i]
      /\ Append(s, frame)[Len(s) + 1] = frame
  BY <1>1
<1>3. \A i \in 1..(Len(s) + 1) : i \in 1..Len(s) \/ i = Len(s) + 1
  BY <1>1
<1>. QED
  BY <1>2, <1>3 DEF StackOK

\* Its return.
LEMMA PopOK ==
  ASSUME NEW s, StackOK(s), s # << >>
  PROVE  StackOK(Front(s)) /\ FrameOK(Last(s))
<1>1. s \in Seq(FrameType) /\ Len(s) \in Nat /\ Len(s) # 0
  BY DEF StackOK
<1>2. Len(s) - 1 \in Nat /\ Len(s) \in 1..Len(s)
  BY <1>1
<1>3. \A i \in 1..(Len(s) - 1) : i \in 1..Len(s)
  BY <1>1
<1>4. Front(s) = SubSeq(s, 1, Len(s) - 1)
  BY DEF Front
<1>5. /\ Front(s) \in Seq(FrameType) /\ Len(Front(s)) = Len(s) - 1
      /\ \A i \in 1..(Len(s) - 1) : Front(s)[i] = s[i]
  <2>1. \A i \in 1..(Len(s) - 1) : s[i] \in FrameType
    BY <1>1, <1>3
  <2>2. SubSeq(s, 1, Len(s) - 1) = [i \in 1..(Len(s) - 1) |-> s[i]]
    BY <1>1, <1>2
  <2>3. Front(s) \in [1..(Len(s) - 1) -> FrameType]
    BY <1>4, <2>1, <2>2, Zenon
  <2>4. Front(s) \in Seq(FrameType) /\ Len(Front(s)) = Len(s) - 1
    BY <1>2, <2>3
  <2>. QED
    BY <1>4, <2>2, <2>4
<1>. QED
  BY <1>2, <1>3, <1>5 DEF StackOK, Last

\* A new activation.
LEMMA ActivationOK ==
  ASSUME NEW c \in Classes
  PROVE  FrameOK(Activation(c))
BY DEF FrameOK, FrameType, Activation

\* An activation that looks for a section.
LEMMA LookingOK ==
  ASSUME NEW frame \in FrameType, NEW n \in Nat, n >= 1
  PROVE  FrameOK([frame EXCEPT !.psec = n, !.entry = 0])
<1>. DEFINE new == [frame EXCEPT !.psec = n, !.entry = 0]
<1>1. new \in FrameType /\ new.psec = n /\ new.entry = 0
  BY Zenon DEF FrameType
<1>2. ~(0 > 0)
  OBVIOUS
<1>. HIDE DEF new
<1>3. FrameOK(new)
  BY <1>1, <1>2 DEF FrameOK
<1>. QED
  BY <1>3 DEF new

-----------------------------------------------------------------------------
(* Steps *)

\* The first state.
LEMMA LoadInitInv == Init => LoadInv
<1>1. SUFFICES ASSUME Init PROVE LoadInv
  OBVIOUS
<1>2. WellFormed(config) /\ class \in Classes /\ crashed = FALSE
  BY <1>1, ConfigsAssumption DEF Init
<1>3. ListOK(attributes)
  <2>1. attributes = << >>
    BY <1>1 DEF Init
  <2>2. << >> \in Seq(AttType) /\ Len(<< >>) = 0 /\ 1..0 = {}
    OBVIOUS
  <2>. QED
    BY <2>1, <2>2 DEF ListOK
<1>4. StackOK(stack)
  <2>1. stack = <<Activation(class)>> /\ FrameOK(Activation(class))
    BY <1>1, <1>2, ActivationOK DEF Init
  <2>2. Activation(class) \in FrameType
    BY <2>1 DEF FrameOK
  <2>. HIDE DEF Activation
  <2>3. stack \in Seq(FrameType) /\ Len(stack) = 1 /\ stack[1] = Activation(class)
    BY <2>1, <2>2
  <2>4. \A i \in 1..1 : i = 1
    OBVIOUS
  <2>. QED
    BY <2>1, <2>3, <2>4 DEF StackOK
<1>. QED
  BY <1>2, <1>3, <1>4, Zenon DEF LoadInv, StackOK

\* The entry that pathcomp_add_atts_from_entries is at.
LEMMA EntryOK ==
  ASSUME LoadInv, Running, Top.entry > 0, Top.entry <= Len(Entries)
  PROVE  LET kv == Entries[Top.entry]
         IN  /\ kv.key \in Names
             /\ kv.key = COPY => kv.parent \in Classes
             /\ config[Top.psec].name \in Classes
             /\ <<Top.psec, Top.entry>> \in Nat \X Nat
             /\ ClassOf(<<Top.psec, Top.entry>>) = config[Top.psec].name
<1>1. FrameOK(Top)
  BY PopOK DEF LoadInv, StackOK, Running, Top
<1>2. Top.psec \in 1..Len(config) /\ Top.psec \in Nat /\ Top.entry \in Nat
  BY <1>1 DEF FrameOK, FrameType
<1>3. config \in Seq(SectionType) /\ DOMAIN config = 1..Len(config)
  BY DEF LoadInv, WellFormed
<1>4. config[Top.psec] \in SectionType
  BY <1>2, <1>3
<1>5. Entries \in Seq(EntryType) /\ config[Top.psec].name \in Classes
  BY <1>4 DEF Entries, SectionType
<1>6. Top.entry \in DOMAIN Entries
  BY <1>2, <1>5
<1>7. Entries[Top.entry] \in EntryType
  BY <1>5, <1>6
<1>8. Entries[Top.entry].key = COPY => Entries[Top.entry].parent \in Classes
  BY <1>2, <1>3, <1>6 DEF LoadInv, WellFormed, Entries
<1>9. ClassOf(<<Top.psec, Top.entry>>) = config[Top.psec].name
  BY DEF ClassOf
<1>. QED
  BY <1>2, <1>5, <1>7, <1>8, <1>9 DEF EntryType

\* Every step keeps the invariant, and own values.
LEMMA LoadNextInv == LoadInv /\ [Next]_vars => LoadInv' /\ Keeps(attributes, attributes')
<1>1. SUFFICES ASSUME LoadInv, [Next]_vars
               PROVE  LoadInv' /\ Keeps(attributes, attributes')
  OBVIOUS
<1>2. StackOK(stack) /\ ListOK(attributes) /\ attributes \in Seq(AttType)
  BY <1>1 DEF LoadInv, StackOK, ListOK
<1>3. config' = config /\ class' = class
  BY <1>1, Zenon DEF Next, EnterSection, Return, AddEntry, LeaveSection, vars
<1>4. SUFFICES /\ crashed' \in BOOLEAN /\ StackOK(stack')
               /\ ListOK(attributes') /\ Keeps(attributes, attributes')
  <2>1. \A f : FrameOK(f)' <=> FrameOK(f)
    BY <1>3 DEF FrameOK
  <2>2. ListOK(attributes') <=> ListOK(attributes)'
    BY <1>3 DEF ListOK, ClassOf
  <2>3. WellFormed(config)' /\ class' \in Classes
    BY <1>1, <1>3 DEF LoadInv
  <2>. QED
    BY <2>1, <2>2, <2>3 DEF LoadInv, StackOK
<1>5. attributes' = attributes => ListOK(attributes') /\ Keeps(attributes, attributes')
  BY <1>2 DEF Keeps
<1>6. CASE EnterSection
  <2>1. PICK i \in Top.psec..Len(config) :
           stack' = Append(Front(stack), [Top EXCEPT !.psec = i, !.entry = 1])
    BY <1>6, Zenon DEF EnterSection, SetTop
  <2>2. FrameOK(Top) /\ StackOK(Front(stack))
    BY <1>2, <1>6, PopOK DEF EnterSection, Running, Top
  <2>3. FrameOK([Top EXCEPT !.psec = i, !.entry = 1])
    <3>1. config \in Seq(SectionType) /\ Len(config) \in Nat
      BY <1>1 DEF LoadInv, WellFormed
    <3>2. Top \in FrameType /\ Top.psec \in Nat /\ Top.psec >= 1
      BY <2>2 DEF FrameOK, FrameType
    <3>3. i \in Nat /\ i >= 1 /\ i \in 1..Len(config)
      BY <2>1, <3>1, <3>2
    <3>. QED
      BY <3>2, <3>3, Zenon DEF FrameOK, FrameType
  <2>4. StackOK(stack')
    BY <2>1, <2>2, <2>3, PushOK
  <2>. QED
    BY <1>1, <1>5, <1>6, <2>4 DEF EnterSection, LoadInv
<1>7. CASE Return
  <2>1. StackOK(stack')
    BY <1>2, <1>7, PopOK DEF Return, Running
  <2>. QED
    BY <1>1, <1>5, <1>7, <2>1 DEF Return, LoadInv
<1>8. CASE LeaveSection
  <2>1. stack' = Append(Front(stack), [Top EXCEPT !.psec = @ + 1, !.entry = 0])
    BY <1>8 DEF LeaveSection, SetTop
  <2>2. FrameOK(Top) /\ StackOK(Front(stack))
    BY <1>2, <1>8, PopOK DEF LeaveSection, Running, Top
  <2>3. FrameOK([Top EXCEPT !.psec = @ + 1, !.entry = 0])
    <3>1. Top \in FrameType /\ Top.psec + 1 \in Nat /\ Top.psec + 1 >= 1
      BY <2>2 DEF FrameOK, FrameType
    <3>. QED
      BY <3>1, LookingOK, Zenon
  <2>4. StackOK(stack')
    BY <2>1, <2>2, <2>3, PushOK
  <2>. QED
    BY <1>1, <1>5, <1>8, <2>4 DEF LeaveSection, LoadInv
<1>9. CASE AddEntry
  <2>. DEFINE kv == Entries[Top.entry]
              more == [Top EXCEPT !.entry = @ + 1]
              rest == Append(Front(stack), more)
  <2>1. Running /\ Top.entry > 0 /\ Top.entry <= Len(Entries)
    BY <1>9 DEF AddEntry
  <2>2. /\ kv.key \in Names
        /\ kv.key = COPY => kv.parent \in Classes
        /\ config[Top.psec].name \in Classes
        /\ <<Top.psec, Top.entry>> \in Nat \X Nat
        /\ ClassOf(<<Top.psec, Top.entry>>) = config[Top.psec].name
    BY <1>1, <2>1, EntryOK
  <2>3. attributes' = pathcomp_add_or_replace(class, attributes, kv.key,
                        <<Top.psec, Top.entry>>, config[Top.psec].name, "ADD_IF")
    BY <1>9 DEF AddEntry
  <2>4. ListOK(attributes') /\ Keeps(attributes, attributes')
    <3>1. class \in Classes
      BY <1>1 DEF LoadInv
    <3>. QED
      BY <1>2, <2>2, <2>3, <3>1, AddOK
  <2>5. FrameOK(Top) /\ StackOK(Front(stack))
    BY <1>2, <2>1, PopOK DEF Running, Top
  <2>6. FrameOK(more)
    BY <2>1, <2>5 DEF FrameOK, FrameType
  <2>7. StackOK(rest)
    BY <2>5, <2>6, PushOK
  <2>8. kv.key = COPY => StackOK(Append(rest, Activation(kv.parent)))
    <3>. HIDE DEF rest
    <3>. QED
      BY <2>2, <2>7, PushOK, ActivationOK
  <2>9. \/ stack' = rest /\ crashed' = crashed
        \/ kv.key = COPY /\ stack' = Append(rest, Activation(kv.parent)) /\ crashed' = crashed
        \/ crashed' = TRUE /\ stack' = stack
    BY <1>9, Zenon DEF AddEntry, SetTop
  <2>. QED
    BY <1>1, <1>2, <2>4, <2>7, <2>8, <2>9, Zenon DEF LoadInv
<1>10. CASE UNCHANGED vars
  BY <1>1, <1>2, <1>5, <1>10 DEF vars, LoadInv
<1>. QED
  BY <1>1, <1>6, <1>7, <1>8, <1>9, <1>10, SMTT(20) DEF Next

-----------------------------------------------------------------------------
(* Theorems *)

\* The invariant holds in every state.
LEMMA LoadAlways == Spec => []LoadInv
<1>1. LoadInv /\ [Next]_vars => LoadInv'
  BY LoadNextInv
<1>. QED
  BY <1>1, LoadInitInv, PTL DEF Spec

\* Loading builds attributes with different names, each with a value.
THEOREM LoadTypeCorrect == Spec => []TypeOK
<1>1. ASSUME LoadInv PROVE TypeOK
  <2>1. attributes \in Seq(AttType) /\ DOMAIN attributes = 1..Len(attributes)
    BY <1>1 DEF LoadInv, ListOK
  <2>. QED
    BY <1>1, <2>1 DEF LoadInv, ListOK, TypeOK
<1>. QED
  BY <1>1, LoadAlways, PTL

\* No attribute ever has values of the class itself and inherited ones.
THEOREM LoadNeverMixes == Spec => []NeverMixed
<1>1. ASSUME LoadInv PROVE NeverMixed
  <2>1. attributes \in Seq(AttType) /\ DOMAIN attributes = 1..Len(attributes)
    BY <1>1 DEF LoadInv, ListOK
  <2>2. \A i \in 1..Len(attributes) :
           DOMAIN attributes[i].alternatives = 1..Len(attributes[i].alternatives)
    BY <2>1 DEF AttType
  <2>. QED
    BY <1>1, <2>1, <2>2, Zenon DEF LoadInv, ListOK, NeverMixed
<1>. QED
  BY <1>1, LoadAlways, PTL

\* The class' own values are never lost.
THEOREM LoadKeepsOwn == Spec => OwnValuesStay
<1>. DEFINE Step ==
       \A i \in DOMAIN attributes :
         attributes[i].origin = class =>
           /\ i \in DOMAIN attributes'
           /\ attributes'[i].name = attributes[i].name
           /\ attributes'[i].origin = class
           /\ \A k \in DOMAIN attributes[i].alternatives :
                /\ k \in DOMAIN attributes'[i].alternatives
                /\ attributes'[i].alternatives[k] = attributes[i].alternatives[k]
<1>1. ASSUME LoadInv, [Next]_vars PROVE Step
  <2>1. LoadInv' /\ Keeps(attributes, attributes')
    BY <1>1, LoadNextInv
  <2>2. attributes \in Seq(AttType) /\ attributes' \in Seq(AttType)
    BY <1>1, <2>1 DEF LoadInv, ListOK
  <2>3. /\ DOMAIN attributes = 1..Len(attributes) /\ DOMAIN attributes' = 1..Len(attributes')
        /\ \A i \in 1..Len(attributes) :
             DOMAIN attributes[i].alternatives = 1..Len(attributes[i].alternatives)
        /\ \A i \in 1..Len(attributes') :
             DOMAIN attributes'[i].alternatives = 1..Len(attributes'[i].alternatives)
    BY <2>2 DEF AttType
  <2>. QED
    BY <2>1, <2>3, SMTT(20) DEF Keeps
<1>2. LoadInv /\ [Next]_vars => [Step]_vars
  BY <1>1
<1>. QED
  BY <1>2, LoadAlways, PTL DEF OwnValuesStay, Spec
=============================================================================
