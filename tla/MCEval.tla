------------------------------- MODULE MCEval -------------------------------
(***************************************************************************)
(* Small instances of EvalUse.                                             *)
(***************************************************************************)
EXTENDS EvalUse

String(t) == [type |-> "string", text |-> t]
Integer(i) == [type |-> "int", integer |-> i]
Lua(refs) == [type |-> "lua", refs |-> refs, parses |-> TRUE]
Bad == [type |-> "lua", refs |-> << >>, parses |-> FALSE]

MCValues == {String(<< >>), Integer(1), Lua(<<"ext">>), Lua(<<"root", "ext">>), Bad}
MCFromConfig == [class \in Classes |-> <<att_new("root", String(<<"d">>), class),
                                         att_new("compose", Lua(<<"ext">>), class)>>]

\* To keep the instance small, only ext is set to an integer, and root is not set
\* to a block that does not parse.
Settable(name, val) ==
  /\ val.type = "int" => name = "ext"
  /\ val = Bad => name # "root"

\* compose does not read root, which may be a block.
ReadsExt(name, val) ==
  /\ Settable(name, val)
  /\ name = "compose" /\ val.type = "lua" => "root" \notin {val.refs[i] : i \in DOMAIN val.refs}
ReadsAny(name, val) == Settable(name, val)
=============================================================================
