------------------------------ MODULE MCComposer ------------------------------
(***************************************************************************)
(* Small instances of ComposerHistory, one for each class:                 *)
(*   iterate  one composer with room for three attributes of up to three   *)
(*            alternatives, stepped through with pathcomp_next.  Iteration *)
(*            does not look at values: one is enough;                      *)
(*   clone    two composers with room for two attributes;                  *)
(*   find     one composer, where a pathname may or may not exist and a    *)
(*            Lua block may fail.                                          *)
(***************************************************************************)
EXTENDS ComposerHistory

String(t) == [type |-> "string", text |-> t]
Lua(refs) == [type |-> "lua", refs |-> refs]
Integer(i) == [type |-> "int", integer |-> i]

NamesOf(class) == IF class = "iterate" THEN Names ELSE {"root", "compose"}
ValuesOf(class) == IF class = "find" THEN Values ELSE {Integer(1)}
AltsOf(class) == IF class = "iterate" THEN MaxAlts ELSE 2

MCNames == {"root", "compose", "ext"}
MCValues == {Integer(1), String(<< >>), Lua(<<"root">>)}
MCPaths == {<<"1", "/", "1">>, <<"1", "/">>, <<"1">>}
MCFromConfig ==
  [class \in Classes |-> <<att_new(IF class = "iterate" THEN "ext" ELSE "root", Integer(1), class)>>]

First == CHOOSE c \in Composers : TRUE

\* Where a client may begin an instance.
Begins(c, class) ==
  IF class = "clone" THEN files = {} /\ \A d \in Composers : Live(d) => composer[d].name = "clone"
  ELSE c = First /\ (class = "iterate" => files = {}) /\ \A d \in Composers : ~Live(d)

\* The steps of HNext with what the instance allows.
Acts(c, class) ==
  \/ \E d \in Composers : class = "clone" /\ HClone(c, d)
  \/ HFree(c)
  \/ \E name \in NamesOf(class), value \in ValuesOf(class) :
       \/ HSet(c, name, value)
       \/ /\ \A i \in DOMAIN composer[c].attributes :
               composer[c].attributes[i].name = name => Len(composer[c].attributes[i].alternatives) < AltsOf(class)
          /\ HAdd(c, name, value)
  \/ HStep(c)
  \/ HRewind(c)
  \/ class # "iterate" /\ HFind(c)
  \/ HFindTry(c)

MCNext ==
  \E c \in Composers :
    \/ \E class \in Classes : Begins(c, class) /\ HNew(c, class)
    \/ Live(c) /\ Acts(c, composer[c].name)

\* A call of pathcomp_find that has begun keeps running; FindTry is enabled as
\* long as one has.
MCSpec ==
  /\ HInit /\ [][MCNext]_hvars
  /\ []<>(finding = NULL) \/ []<><<\E c \in Composers : HFindTry(c)>>_hvars
=============================================================================
