------------------------------ MODULE LoadConfig ------------------------------
(***************************************************************************)
(* How pathcomp_new fills a composer from the parsed configuration: the    *)
(* mutual recursion of pathcomp_add_atts_from_sections and                 *)
(* pathcomp_add_atts_from_entries, with its call stack.                    *)
(*                                                                         *)
(* A configuration is a sequence of sections, a section a name and a       *)
(* sequence of entries.  The value of an entry is represented by the place *)
(* of the entry, <<section, entry>>, so that all values are different; of  *)
(* a copy-from entry the model also keeps the class it names.              *)
(***************************************************************************)
EXTENDS Pathcomp, SequencesExt

CONSTANTS Classes,      \* class names
          Configs,      \* the configurations to load
          MaxDepth      \* bound: activations that fit on the C stack

\* A copy-from entry names a class; the other entries have no parent.
EntryType == [key : Names, parent : Classes \cup {NULL}]

SectionType == [name : Classes, entries : Seq(EntryType)]

COPY == "copy-from"

WellFormed(cfg) ==
  /\ cfg \in Seq(SectionType)
  /\ \A s \in DOMAIN cfg : \A e \in DOMAIN cfg[s].entries :
       cfg[s].entries[e].key = COPY => cfg[s].entries[e].parent \in Classes

\* A class name is a string, never a null pointer.
ASSUME ClassesAssumption == NULL \notin Classes

ASSUME ConfigsAssumption == \A cfg \in Configs : WellFormed(cfg)

VARIABLES config,
          class,        \* composer->name
          attributes,   \* composer->attributes
          stack,        \* activations of pathcomp_add_atts_from_sections
          crashed       \* the C stack has overflowed

vars == <<config, class, attributes, stack, crashed>>

\* An activation: the section name it looks for, the place psec where it
\* goes on looking and the entry to add next (0 while it looks).
Activation(name) == [name |-> name, psec |-> 1, entry |-> 0]

Init ==
  /\ config \in Configs
  /\ class \in Classes
  /\ attributes = << >>
  /\ stack = <<Activation(class)>>
  /\ crashed = FALSE

Top == Last(stack)

SetTop(frame) == Append(Front(stack), frame)

Running == stack # << >> /\ ~crashed

\* list_find_first finds the next section of that name.
EnterSection ==
  /\ Running /\ Top.entry = 0
  /\ \E i \in Top.psec..Len(config) :
       /\ config[i].name = Top.name
       /\ \A j \in Top.psec..(i - 1) : config[j].name # Top.name
       /\ stack' = SetTop([Top EXCEPT !.psec = i, !.entry = 1])
  /\ UNCHANGED <<config, class, attributes, crashed>>

\* There is none: pathcomp_add_atts_from_sections returns.
Return ==
  /\ Running /\ Top.entry = 0
  /\ \A i \in Top.psec..Len(config) : config[i].name # Top.name
  /\ stack' = Front(stack)
  /\ UNCHANGED <<config, class, attributes, crashed>>

Entries == config[Top.psec].entries

\* One iteration of pathcomp_add_atts_from_entries.
AddEntry ==
  /\ Running /\ Top.entry > 0 /\ Top.entry <= Len(Entries)
  /\ LET kv   == Entries[Top.entry]
         rest == SetTop([Top EXCEPT !.entry = @ + 1])
     IN  /\ attributes' = pathcomp_add_or_replace(class, attributes, kv.key,
                            <<Top.psec, Top.entry>>, config[Top.psec].name, "ADD_IF")
         /\ IF kv.key # COPY
            THEN stack' = rest /\ UNCHANGED crashed
            ELSE IF Len(stack) < MaxDepth
            THEN stack' = Append(rest, Activation(kv.parent)) /\ UNCHANGED crashed
            ELSE crashed' = TRUE /\ UNCHANGED stack
  /\ UNCHANGED <<config, class>>

\* Defective: without psec = psec->next.
LeaveSection_again ==
  /\ Running /\ Top.entry > 0 /\ Top.entry > Len(Entries)
  /\ stack' = SetTop([Top EXCEPT !.entry = 0])
  /\ UNCHANGED <<config, class, attributes, crashed>>

\* The entries are used up: psec = psec->next.
LeaveSection ==
  /\ Running /\ Top.entry > 0 /\ Top.entry > Len(Entries)
  /\ stack' = SetTop([Top EXCEPT !.psec = @ + 1, !.entry = 0])
  /\ UNCHANGED <<config, class, attributes, crashed>>

Next == EnterSection \/ Return \/ AddEntry \/ LeaveSection

\* A call that has begun keeps running.
Spec == Init /\ [][Next]_vars /\ WF_vars(Next)

Returned == stack = << >>

-----------------------------------------------------------------------------
(* The configuration that a composer should end up with *)

Parents(cfg, c) ==
  UNION {{kv.parent : kv \in {kv \in ToSet(sec.entries) : kv.key = COPY}} :
           sec \in {sec \in ToSet(cfg) : sec.name = c}}

\* The classes that c inherits from, directly or not.
Ancestors(cfg, c) ==
  LET up[n \in Nat] ==
        IF n = 0 THEN Parents(cfg, c)
        ELSE LET low == up[n - 1] IN low \cup UNION {Parents(cfg, p) : p \in low}
  IN  up[Len(cfg)]

Acyclic(cfg) == \A sec \in ToSet(cfg) : sec.name \notin Ancestors(cfg, sec.name)

\* All entries that a class takes over, parents at the place of their
\* copy-from entry.
Expansion(c) ==
  LET At[n \in Nat] ==
        [d \in Classes |->
           FlattenSeq([s \in DOMAIN config |->
             IF config[s].name # d THEN << >>
             ELSE FlattenSeq([e \in DOMAIN config[s].entries |->
                    <<<<s, e>>>> \o
                    IF n > 0 /\ config[s].entries[e].key = COPY
                    THEN At[n - 1][config[s].entries[e].parent] ELSE << >>])])]
  IN  At[Len(config)][c]

KeyOf(place) == config[place[1]].entries[place[2]].key
ClassOf(place) == config[place[1]].name

\* The values of an attribute: the class' own ones if it has any, and else
\* all the inherited ones.
Expected(name) ==
  LET all == SelectSeq(Expansion(class), LAMBDA place : KeyOf(place) = name)
      own == SelectSeq(all, LAMBDA place : ClassOf(place) = class)
  IN  IF own # << >> THEN own ELSE all

-----------------------------------------------------------------------------
(* Properties *)

AttType == [name : Names, alternatives : Seq(Nat \X Nat), current : {1}, origin : Classes]

FrameType == [name : Classes, psec : Nat, entry : Nat]

\* Type invariant: loading builds attributes with different names, each with
\* its cursor on its first alternative.
TypeOK ==
  /\ WellFormed(config)
  /\ class \in Classes
  /\ attributes \in Seq(AttType)
  /\ \A i, j \in DOMAIN attributes : attributes[i].name = attributes[j].name => i = j
  /\ \A i \in DOMAIN attributes : Len(attributes[i].alternatives) > 0
  /\ stack \in Seq(FrameType)
  /\ crashed \in BOOLEAN

\* At no time does an attribute have values of the class itself and inherited
\* ones (README.md:236), in whatever order the sections and copy-from entries
\* come: its origin tells which of the two all its values are.
NeverMixed ==
  \A i \in DOMAIN attributes : \A k \in DOMAIN attributes[i].alternatives :
    (attributes[i].origin = class)
      <=> (ClassOf(attributes[i].alternatives[k]) = class)

\* The class' own values are never lost: whatever the sections that follow, an
\* attribute that has them keeps them, in order, and gets only more of them.
OwnValuesStay ==
  [][\A i \in DOMAIN attributes :
       attributes[i].origin = class =>
         /\ i \in DOMAIN attributes'
         /\ attributes'[i].name = attributes[i].name
         /\ attributes'[i].origin = class
         /\ \A k \in DOMAIN attributes[i].alternatives :
              /\ k \in DOMAIN attributes'[i].alternatives
              /\ attributes'[i].alternatives[k] = attributes[i].alternatives[k]]_vars

\* A loaded composer has exactly the attributes that occur in its sections and
\* those it inherits from, and each has its own values in the order of the
\* configuration or, without own values, all the inherited ones in the order
\* in which the copy-from entries bring them in.
LoadsExpected ==
  Returned /\ Acyclic(config) =>
    /\ {attributes[i].name : i \in DOMAIN attributes}
         = {KeyOf(place) : place \in ToSet(Expansion(class))}
    /\ \A i \in DOMAIN attributes :
         attributes[i].alternatives = Expected(attributes[i].name)

\* "Allocate and return a new composer object for class \a name"
\* (pathcomp.h:44), whatever the configuration.
NewReturns == <>Returned

\* "A class' attribute is never combined with an inherited attribute of the
\* same name to add alternatives to the values inherited from the parent
\* class." (README.md:237), for every class that contributes to the composer.
ClassOverridesParents ==
  Returned =>
    \A i \in DOMAIN attributes : \A k, l \in DOMAIN attributes[i].alternatives :
      ClassOf(attributes[i].alternatives[k])
        \notin Ancestors(config, ClassOf(attributes[i].alternatives[l]))
=============================================================================
