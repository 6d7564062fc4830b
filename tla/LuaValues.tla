------------------------------ MODULE LuaValues ------------------------------
(***************************************************************************)
(* Lua's values: <<"nil">>, <<"boolean", b>>, <<"number", n>>,             *)
(* <<"string", s>>, where s is a sequence of atoms, <<"table", i>>,        *)
(* <<"function", i>>, <<"cfunction", name, thread>>, <<"thread", i>>.  The *)
(* contents of a table are a function from its keys to values that are not *)
(* nil.                                                                    *)
(***************************************************************************)
EXTENDS Integers, Sequences, FiniteSets, TLC, SequencesExt

CONSTANT Alphabet   \* the atoms of strings, in the order of strcoll

Nil == <<"nil">>
Undefined == <<"undefined">>
Bool(b) == <<"boolean", b>>
Str(s) == <<"string", <<s>>>>

RawGet(t, k) == IF k \in DOMAIN t THEN t[k] ELSE Nil
RawSet(t, k, v) ==
  IF v = Nil THEN [x \in DOMAIN t \ {k} |-> t[x]]
  ELSE [x \in DOMAIN t \cup {k} |-> IF x = k THEN v ELSE t[x]]

\* What is seen of a value from outside.
Shown(v) == IF v[1] \in {"table", "function", "cfunction", "thread"} THEN <<v[1]>> ELSE v
=============================================================================
