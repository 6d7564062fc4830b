------------------------------- MODULE Composer -------------------------------
(***************************************************************************)
(* The composers of one client of the library and the public operations of *)
(* include/pathcomp.h that change them, called in any order.               *)
(*                                                                         *)
(* pathcomp_find walks through combinations until one names an existing    *)
(* file.  Its loop is one action per iteration; the library is not         *)
(* reentrant, so no other call happens before it returns.                  *)
(***************************************************************************)
EXTENDS Pathcomp

CONSTANTS Composers,    \* the composer pointers the client holds
          Classes,      \* the class names it asks for
          FromConfig,   \* attributes that the configuration gives each class
          Values,       \* the values it sets and adds
          Paths,        \* pathnames that may exist in the file system
          MaxAlts       \* bound: alternatives of one attribute

AttType == [name : Names, alternatives : Seq(Values), current : Nat,
            origin : Classes \cup {NULL}]

ComposerType == [name : Classes, attributes : Seq(AttType),
                 done : BOOLEAN, started : BOOLEAN]

\* Every cursor is on an alternative and no two attributes share a name.
AttsOK(atts) ==
  /\ \A i \in DOMAIN atts : atts[i].current \in 1..Len(atts[i].alternatives)
  /\ \A i, j \in DOMAIN atts : atts[i].name = atts[j].name => i = j

Rewound(comp) == \A i \in DOMAIN comp.attributes : comp.attributes[i].current = 1

ASSUME NullAssumption == NULL \notin Composers /\ NULL \notin ComposerType

ASSUME BoundAssumption == MaxAlts \in Nat \ {0}

\* What LoadConfig shows of the attributes that loading leaves behind.
ASSUME FromConfigAssumption ==
  /\ FromConfig \in [Classes -> Seq(AttType)]
  /\ \A class \in Classes :
       /\ AttsOK(FromConfig[class])
       /\ \A i \in DOMAIN FromConfig[class] :
            /\ FromConfig[class][i].current = 1
            /\ Len(FromConfig[class][i].alternatives) <= MaxAlts

VARIABLES composer,     \* the object behind each pointer, NULL when there is none
          finding,      \* the composer whose pathcomp_find is running, or NULL
          files         \* the pathnames that exist

vars == <<composer, finding, files>>

Live(c) == composer[c] # NULL

Room(comp, name) ==
  \A i \in DOMAIN comp.attributes :
    comp.attributes[i].name = name => Len(comp.attributes[i].alternatives) < MaxAlts

Init ==
  /\ composer = [c \in Composers |-> NULL]
  /\ finding = NULL
  /\ files \in SUBSET Paths

\* The client may call: pathcomp_find is not running.
Calls(c) == finding = NULL /\ UNCHANGED <<finding, files>>

New(c, class) ==
  /\ Calls(c)
  /\ ~Live(c)
  /\ composer' = [composer EXCEPT ![c] = pathcomp_new(class, FromConfig[class])]

Clone(c, d) ==
  /\ Calls(c)
  /\ Live(c) /\ ~Live(d)
  /\ composer' = [composer EXCEPT ![d] = pathcomp_clone(composer[c])]

Free(c) ==
  /\ Calls(c)
  /\ Live(c)
  /\ composer' = [composer EXCEPT ![c] = NULL]

Set(c, name, value) ==
  /\ Calls(c)
  /\ Live(c)
  /\ composer' = [composer EXCEPT ![c] = pathcomp_set(@, name, value)]

Add(c, name, value) ==
  /\ Calls(c)
  /\ Live(c)
  /\ Room(composer[c], name)
  /\ composer' = [composer EXCEPT ![c] = pathcomp_add(@, name, value)]

Step(c) ==
  /\ Calls(c)
  /\ Live(c)
  /\ composer' = [composer EXCEPT ![c] = pathcomp_next(@)]

Rewind(c) ==
  /\ Calls(c)
  /\ Live(c)
  /\ composer' = [composer EXCEPT ![c] = pathcomp_rewind(@)]

\* pathcomp_find is called.
Find(c) ==
  /\ finding = NULL
  /\ Live(c)
  /\ finding' = c
  /\ UNCHANGED <<composer, files>>

Exists(path) == path # NULL /\ path \in files

FindHit(c) == ~composer'[c].done /\ Exists(pathcomp_yield(composer'[c]))

\* One iteration of that loop; it returns when the combinations are used up
\* or the pathname exists.
FindTry(c) ==
  /\ finding = c
  /\ composer' = [composer EXCEPT ![c] = FindMove(@)]
  /\ finding' = IF composer'[c].done \/ FindHit(c) THEN NULL ELSE c
  /\ UNCHANGED files

Next ==
  \E c \in Composers :
    \/ \E class \in Classes : New(c, class)
    \/ \E d \in Composers : Clone(c, d)
    \/ Free(c)
    \/ \E name \in Names, value \in Values : Set(c, name, value) \/ Add(c, name, value)
    \/ Step(c)
    \/ Rewind(c)
    \/ Find(c)
    \/ FindTry(c)

-----------------------------------------------------------------------------
(* Properties *)

\* Type invariant.  Between calls every cursor is on an alternative: the null
\* cursor that att_next leaves at the end of a list (att.c:154) never outlives
\* the pathcomp_next that caused it, so a composer always has a combination.
TypeOK ==
  /\ composer \in [Composers -> ComposerType \cup {NULL}]
  /\ \A c \in Composers : Live(c) => AttsOK(composer[c].attributes)
  /\ finding \in Composers \cup {NULL}
  /\ finding # NULL => Live(finding)
  /\ files \subseteq Paths

\* Every call of pathcomp_find returns: its loop (pathcomp.c:364) has no bound
\* of its own and relies on pathcomp_next to raise done in the end.
FindReturns == finding # NULL ~> finding = NULL

\* A call of pathcomp_find that has begun keeps running.
Spec == Init /\ [][Next]_vars /\ \A c \in Composers : WF_vars(FindTry(c))
=============================================================================
