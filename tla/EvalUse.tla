------------------------------- MODULE EvalUse -------------------------------
(***************************************************************************)
(* A client that makes, changes, evaluates, copies and frees composers,    *)
(* loads a configuration and calls pathcomp_cleanup, in any order; Eval    *)
(* keeps the library's memory m.  config tells whether there is a          *)
(* configuration.                                                          *)
(***************************************************************************)
EXTENDS Eval

CONSTANTS SetNames, Readable(_, _), MaxAtts

VARIABLES m, config

vars == <<m, config>>

Init ==
  /\ m = [cell |-> << >>, comp |-> [c \in Composers |-> NULL], stack |-> << >>, metas |-> {},
          freed |-> {}, wild |-> FALSE]
  /\ config = FALSE

Live(c) == m.comp[c] # NULL
Does(n) == m' = Returns(n)

AddConfig == ~config /\ config' = TRUE /\ Does(m)

\* Bound: attributes of all composers.
Room(n) == Cardinality({x \in Composers \X (1 .. Cardinality(Names)) :
                          Live(x[1]) /\ x[2] \in DOMAIN m.comp[x[1]].attributes}) + n <= MaxAtts

New(c, class) ==
  /\ ~Live(c)
  /\ config => Room(Len(FromConfig[class]))
  /\ Does(new_composer(m, c, class, IF config THEN FromConfig[class] ELSE << >>))
  /\ UNCHANGED config

Clone(c, d) == Live(c) /\ ~Live(d) /\ Room(Len(m.comp[c].attributes)) /\ Does(clone_composer(m, c, d)) /\ UNCHANGED config

Free(c) == Live(c) /\ Does(free_composer(m, c)) /\ UNCHANGED config

\* The client sets what the instance lets an attribute read.
Set(c, name, val) ==
  /\ Live(c)
  /\ Readable(name, val)
  /\ Find(m, c, name) = 0 => Room(1)
  /\ Does(set_value(m, c, name, val))
  /\ UNCHANGED config

\* The client owns the copy that pathcomp_eval returns, and the path.
Eval1(c, name) == Live(c) /\ Does(pathcomp_eval_nocopy(m, c, name).m) /\ UNCHANGED config

Yield(c) == Live(c) /\ Does(yield_path(m, c, << >>).m) /\ UNCHANGED config

Cleanup == Does(interpreter_cleanup(m)) /\ config' = FALSE

Next ==
  \/ AddConfig \/ Cleanup
  \/ \E c \in Composers :
       \/ \E class \in Classes : New(c, class)
       \/ \E d \in Composers : Clone(c, d)
       \/ Free(c)
       \/ \E name \in SetNames, val \in Values : Set(c, name, val)
       \/ \E name \in Names : Eval1(c, name)
       \/ Yield(c)

Spec == Init /\ [][Next]_vars

-----------------------------------------------------------------------------
Results == {<<c, i, k>> \in Composers \X (1 .. Cardinality(Names)) \X {1} :
              Live(c) /\ i \in DOMAIN m.comp[c].attributes}
ResultOf(x) == m.comp[x[1]].attributes[x[2]].alternatives[x[3]].result

\* Type invariant: composers and metatables are those of classes, and without an
\* interpreter (interpreter.c:44) there are no metatables.
TypeOK ==
  /\ \A c \in Composers : Live(c) => m.comp[c].name \in Classes
  /\ m.metas \subseteq Classes
  /\ m.stack = << >> => m.metas = {}
  /\ config \in BOOLEAN

\* Every block belongs to the result of one value of one composer, whatever was
\* cloned, replaced, evaluated or freed; none is lost, none is freed twice.
OneOwner ==
  /\ DOMAIN m.cell = {ResultOf(x) : x \in Results} \ {NULL}
  /\ \A x, y \in Results : ResultOf(x) = ResultOf(y) /\ ResultOf(x) # NULL => x = y
  /\ ~m.wild

\* interpreter.c:48 asserts it: whatever path evaluations took, through errors
\* and nested blocks, nothing is left on the Lua stack between calls.
StackEmpty == m.stack \in {<< >>, <<0>>}

\* A block that uses self depends on the metatable that pathcomp_new has put in
\* the registry; it gets lost in pathcomp_cleanup and is back with the next
\* composer of the class.
Expected(c, name) ==
  LET atts == m.comp[c].attributes
      parsed == [i \in DOMAIN atts |->
                   [atts[i] EXCEPT !.alternatives = [k \in DOMAIN @ |->
                       IF @[k].type = "lua" /\ ~@[k].parses THEN [@[k] EXCEPT !.refs = <<"no such attribute">>] ELSE @[k]]]]
      val == Value(m, c, Find(m, c, name))
  IN  IF ~HasAtt(atts, name) THEN NULL
      ELSE IF val.type = "lua" /\ val.refs # << >> /\ m.comp[c].name \notin m.metas THEN NULL
      ELSE Texts(parsed)[name]

\* pathcomp_eval returns what the attribute stands for now, after any calls: a
\* cached result is never a stale one, and a failed evaluation leaves none.
EvalAgrees ==
  \A c \in Composers, name \in Names :
    Live(c) => Let(pathcomp_eval_nocopy(m, c, name), LAMBDA r : Text(r.m, r.p)) = Expected(c, name)

\* The pathname that pathcomp.h:130-137 promises for a root and a compose.  One
\* without a text counts as one that cannot be evaluated (pathcomp.c:273).
Promised(root, compose) ==
  LET none(x) == x \in {NULL, << >>}
  IN  CASE ~none(root) /\ ~none(compose) -> root \o <<"/">> \o compose
        [] none(root) /\ ~none(compose)  -> compose
        [] ~none(root) /\ none(compose)  -> root \o <<"/">>
        [] none(root) /\ none(compose)   -> NULL

\* README.md:522: "pathcomp_yield() evaluates the attributes `root` and
\* `compose` and joins them"; with one of them, the pathname is the one that
\* pathcomp.h:135-137 tells: "If the attribute \a compose cannot be evaluated, the
\* value of the \a root attribute is returned, followed by a directory separator",
\* as test_yield.c:69 expects.  README.md:525 leaves out the separator.
YieldJoins ==
  \A c \in Composers, garbage \in {<<"?">>, << >>} : Live(c) =>
    yield_path(m, c, garbage).path = Promised(Expected(c, "root"), Expected(c, "compose"))
=============================================================================
