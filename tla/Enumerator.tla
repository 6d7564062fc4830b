------------------------------ MODULE Enumerator ------------------------------
(***************************************************************************)
(* What the iterators of composers promise their client: between the       *)
(* moment an iterator is (re)started and the moment it reports the end, it *)
(* stands on every element of its space exactly once.  The order is not    *)
(* promised.                                                               *)
(*                                                                         *)
(* The space may be changed under a running enumeration.  Then nothing is  *)
(* promised until the next restart; kept says that this has not happened.  *)
(***************************************************************************)
CONSTANT Iterators

VARIABLES space,        \* the elements to enumerate
          at,           \* the element the iterator stands on
          seen,         \* the elements it has stood on since the restart
          over,         \* the end has been reported
          kept          \* the promise holds

vars == <<space, at, seen, over, kept>>

Init == \A i \in Iterators : ~kept[i]

\* Created, rewound, or given another space before it has moved.
Start(i) ==
  /\ kept'[i] /\ ~over'[i]
  /\ at'[i] \in space'[i]
  /\ seen'[i] = {at'[i]}

\* Created as a copy of another one, which may be under way or at its end.
Adopt(i) ==
  \E j \in Iterators :
    /\ ~kept[i] /\ kept[j] /\ kept'[i]
    /\ <<space'[i], at'[i], seen'[i], over'[i]>> = <<space[j], at[j], seen[j], over[j]>>

Move(i) ==
  /\ kept[i] /\ ~over[i]
  /\ at'[i] \in space[i] \ seen[i]
  /\ seen'[i] = seen[i] \cup {at'[i]}
  /\ <<space'[i], over'[i], kept'[i]>> = <<space[i], over[i], kept[i]>>

End(i) ==
  /\ kept[i] /\ ~over[i]
  /\ seen[i] = space[i]
  /\ over'[i]
  /\ at'[i] \in space[i]
  /\ <<space'[i], seen'[i], kept'[i]>> = <<space[i], seen[i], kept[i]>>

\* The space changes under way, or the iterator is destroyed.
Spoil(i) == ~kept'[i]

Rest(i) ==
  <<space'[i], at'[i], seen'[i], over'[i], kept'[i]>>
    = <<space[i], at[i], seen[i], over[i], kept[i]>>

Next ==
  \A i \in Iterators : Start(i) \/ Adopt(i) \/ Move(i) \/ End(i) \/ Spoil(i) \/ Rest(i)

Spec == Init /\ [][Next]_vars
=============================================================================
