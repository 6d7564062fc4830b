------------------------------- MODULE MCLuaGC -------------------------------
(***************************************************************************)
(* Small instances of LuaGCUse.                                            *)
(***************************************************************************)
EXTENDS LuaGCUse

MCHash(text) == IF text = "a" THEN 0 ELSE 1

Table(mt, v, tm) == [tt |-> "table", c |-> "w0", mt |-> mt, key |-> INT, val |-> v, tm |-> tm]
Udata(mt) == [tt |-> "udata", c |-> "w0", fin |-> FALSE, mt |-> mt, env |-> globals]
Thread(stk) == [tt |-> "thread", c |-> "w0", stack |-> stk, openupval |-> << >>]

Tables == [uses |-> {"table"}, boot |-> Boot(<<Table(NIL, NIL, {}), Table(NIL, NIL, {})>>, <<3, 4>>, NIL)]
WeakValues == [uses |-> {"table", "string"}, boot |-> Boot(<<Table(NIL, NIL, {"v"}), Table(3, NIL, {})>>, <<4>>, NIL)]
WeakKeys == [uses |-> {"weak"}, boot |-> Boot(<<Table(NIL, NIL, {"k"}), Table(3, NIL, {}),
                   Table(NIL, NIL, {"gc"}), Udata(5)>>, <<6>>, 4)]
WeakBoth == [uses |-> {"weak"}, boot |-> Boot(<<Table(NIL, NIL, {"k", "v"}), Table(3, NIL, {}), Table(NIL, NIL, {})>>, <<5>>, 4)]
Finalizers == [uses |-> {"meta"}, boot |-> Boot(<<Table(NIL, NIL, {"gc"}), Udata(3), Udata(3)>>, <<5>>, 4)]
Environments == [uses |-> {"udata", "env", "table"}, boot |-> Boot(<<Udata(NIL)>>, <<3>>, NIL)]
Strings == [uses |-> {"string", "meta"}, boot |-> Boot(<<Table(NIL, NIL, {})>>, <<3>>, NIL)]
Coroutines == [uses |-> {"thread", "lclosure", "table"}, boot |-> Boot(<<Thread(<< >>), Table(NIL, NIL, {})>>, <<3, 4>>, NIL)]
\* A closure has outlived the coroutine whose variable it uses.
DeadThread == [uses |-> {"table"}, boot |->
  Boot(<<[Thread(<<NIL>>) EXCEPT !.openupval = <<5>>],
         [tt |-> "function", c |-> "w0", env |-> globals, p |-> NIL, up |-> 5],
         [tt |-> "upval", c |-> "w0", open |-> TRUE, thread |-> 3, v |-> 1]>>, <<4>>, NIL)]
CClosures == [uses |-> {"cclosure", "env", "table"}, boot |-> Boot(<< >>, << >>, NIL)]
Protos == [uses |-> {"string", "proto"}, boot |-> Boot(<< >>, << >>, NIL)]

MCScenes == {Tables, WeakValues, WeakKeys, WeakBoth, Finalizers, Environments, Strings, Coroutines, DeadThread, CClosures, Protos}
=============================================================================
