--------------------------- MODULE ComposerHistory ---------------------------
(***************************************************************************)
(* Composer with history variables: what has been visited, tested and      *)
(* found since a composer was last (re)started.  The actions are those of  *)
(* Composer; the history only watches them.                                *)
(*                                                                         *)
(* A combination is identified by the positions of the cursors.            *)
(***************************************************************************)
EXTENDS Composer

VARIABLE history

hvars == <<composer, finding, files, history>>

Position(comp) == [i \in DOMAIN comp.attributes |-> comp.attributes[i].current]

Combinations(comp) ==
  {q \in [DOMAIN comp.attributes -> 1..MaxAlts] :
     \A i \in DOMAIN comp.attributes : q[i] <= Len(comp.attributes[i].alternatives)}

\* The composer moved to another combination.
At(comp, q) ==
  [comp EXCEPT !.attributes = [i \in DOMAIN @ |-> [@[i] EXCEPT !.current = q[i]]]]

(* seen    combinations the composer has stood on                          *)
(* clean   seen is since a restart, and the attributes have not changed    *)
(*         since the iteration left its first combination                  *)
(* tested  combinations whose pathname pathcomp_find has looked for        *)
(* found   those with which it returned                                    *)
(* byfind  only pathcomp_find has moved the composer, and the attributes   *)
(*         have not changed since its first call                           *)
Fresh(comp) ==
  [seen |-> {Position(comp)}, clean |-> TRUE,
   tested |-> {}, found |-> {}, byfind |-> TRUE]

None == [seen |-> {}, clean |-> FALSE, tested |-> {}, found |-> {}, byfind |-> FALSE]

\* Positions of a composer that has got an attribute more.
Widen(S, n) == {[i \in 1..n |-> IF i \in DOMAIN q THEN q[i] ELSE 1] : q \in S}

\* The iteration is still on its first combination.
Unmoved(comp) == Rewound(comp) /\ ~comp.done

\* An alternative or an attribute has been appended: positions keep their meaning.
Grown(comp, h) ==
  [seen   |-> Widen(h.seen, Len(comp.attributes)),
   clean  |-> Unmoved(comp),
   tested |-> Widen(h.tested, Len(comp.attributes)),
   found  |-> Widen(h.found, Len(comp.attributes)),
   byfind |-> h.byfind /\ ~comp.started]

\* The alternatives of an attribute have been replaced: positions lose it.
Replaced(comp, h) ==
  [seen   |-> {Position(comp)},
   clean  |-> Unmoved(comp),
   tested |-> {},
   found  |-> {},
   byfind |-> h.byfind /\ ~comp.started]

\* The combination that the iteration has reached.
Reaches(comp) == IF comp.done THEN {} ELSE {Position(comp)}

Watch(c, h) == history' = [history EXCEPT ![c] = h]

HInit == Init /\ history = [c \in Composers |-> None]

HNew(c, class) == New(c, class) /\ Watch(c, Fresh(composer'[c]))

HClone(c, d) == Clone(c, d) /\ Watch(d, history[c])

HFree(c) == Free(c) /\ Watch(c, None)

HSet(c, name, value) ==
  /\ Set(c, name, value)
  /\ Watch(c, IF HasAtt(composer[c].attributes, name)
              THEN Replaced(composer'[c], history[c])
              ELSE Grown(composer'[c], history[c]))

HAdd(c, name, value) ==
  Add(c, name, value) /\ Watch(c, Grown(composer'[c], history[c]))

HStep(c) ==
  /\ Step(c)
  /\ Watch(c, LET h == history[c]
              IN  [seen   |-> h.seen \cup Reaches(composer'[c]),
                   clean  |-> h.clean,
                   tested |-> h.tested,
                   found  |-> h.found,
                   byfind |-> h.byfind /\ composer[c].done])

HRewind(c) == Rewind(c) /\ Watch(c, Fresh(composer'[c]))

HFind(c) == Find(c) /\ UNCHANGED history

HFindTry(c) ==
  /\ FindTry(c)
  /\ Watch(c, LET h == history[c]
                  p == Reaches(composer'[c])
              IN  [seen   |-> h.seen \cup p,
                   clean  |-> h.clean,
                   tested |-> h.tested \cup p,
                   found  |-> IF FindHit(c) THEN h.found \cup p ELSE h.found,
                   byfind |-> h.byfind])

HNext ==
  \E c \in Composers :
    \/ \E class \in Classes : HNew(c, class)
    \/ \E d \in Composers : HClone(c, d)
    \/ HFree(c)
    \/ \E name \in Names, value \in Values : HSet(c, name, value) \/ HAdd(c, name, value)
    \/ HStep(c)
    \/ HRewind(c)
    \/ HFind(c)
    \/ HFindTry(c)

HSpec == HInit /\ [][HNext]_hvars /\ \A c \in Composers : WF_hvars(HFindTry(c))

-----------------------------------------------------------------------------
(* Properties *)

\* When the iteration reports its end, every combination has been visited
\* (README.md:463), provided the attributes have not changed since it left the
\* first combination; changes before that need no rewind (README.md:497).
VisitsAll ==
  \A c \in Composers :
    Live(c) /\ composer[c].done /\ history[c].clean
      => history[c].seen = Combinations(composer[c])

\* When a client that moves the composer only with pathcomp_find has been told
\* there is nothing more, the calls that returned a pathname were those for
\* exactly the combinations whose pathname exists.
FindComplete ==
  \A c \in Composers :
    Live(c) /\ composer[c].done /\ history[c].clean /\ history[c].byfind
      => history[c].found =
           {q \in Combinations(composer[c]) : Exists(pathcomp_yield(At(composer[c], q)))}

\* The iterator never returns to a combination it has stood on, even when
\* alternatives or attributes are added while it is under way: pathcomp_next
\* either raises done or moves to a new one.
NeverTwice ==
  [][\A c \in Composers :
       (HStep(c) \/ HFindTry(c)) /\ composer'[c].attributes # composer[c].attributes
         => composer'[c].done \/ Position(composer'[c]) \notin history[c].seen]_hvars

\* pathcomp_find looks for the pathname of a combination at most once between
\* restarts, however it is mixed with pathcomp_next and pathcomp_add.
TestsOnce ==
  [][\A c \in Composers :
       HFindTry(c) /\ ~composer'[c].done
         => Position(composer'[c]) \notin history[c].tested]_hvars

\* The refinement mapping: the space of a composer is its combinations.
Enum ==
  INSTANCE Enumerator WITH
    Iterators <- Composers,
    space <- [c \in Composers |-> IF Live(c) THEN Combinations(composer[c]) ELSE {}],
    at    <- [c \in Composers |-> IF Live(c) THEN Position(composer[c]) ELSE << >>],
    seen  <- [c \in Composers |-> history[c].seen],
    over  <- [c \in Composers |-> Live(c) /\ composer[c].done],
    kept  <- [c \in Composers |-> history[c].clean]

\* Every composer keeps the promise of Enumerator: the sequence of its visits
\* is an enumeration without repetition, done means that it is complete, and a
\* clone continues the enumeration of its original.
Enumerates == Enum!Spec
=============================================================================
