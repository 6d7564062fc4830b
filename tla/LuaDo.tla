-------------------------------- MODULE LuaDo --------------------------------
(***************************************************************************)
(* The stacks and calls of Lua's machine: ldo.c, the upvalues of lfunc.c   *)
(* and luaG_errormsg.                                                      *)
(*                                                                         *)
(* The machine m is a record:                                              *)
(*   p       the prototype of the program                                  *)
(*   th      the threads; the first is the main one                        *)
(*   cur     the thread that runs                                          *)
(*   cs      the C stack: the C functions that are active and will go on   *)
(*           when what they call returns, the innermost last               *)
(*   mode    what happens next: an instruction ("execute"), the body of a  *)
(*           C function that has been called ("enter"), the return to the  *)
(*           innermost C function of cs ("ret"), luaG_errormsg ("error"),  *)
(*           luaD_throw ("throw"), the return of a yield ("yield"), nothing*)
(*           ("done"); "lua" when luaD_precall returns PCRLUA              *)
(*   errcode the status thrown                                             *)
(*   h       the tables: their contents t and metatable mt (0: none)       *)
(*   cl      the Lua closures: the prototype's path p and the upvalues     *)
(*   uv      the upvalues: open ones name a stack cell, closed ones have a *)
(*           value v                                                       *)
(*   out     what the program has noted                                    *)
(*   sound   whether every lua_assert on the way has held, and every store *)
(*           has been to a cell of the stack                               *)
(* A thread has its stack (cells 0 .. stacksize - 1), top, the calls ci,   *)
(* size_ci, nCcalls, baseCcalls, errfunc and status.  A call has func,     *)
(* base, top, nresults, savedpc and tailcalls.  L->base and L->savedpc are *)
(* those of the last call.                                                 *)
(***************************************************************************)
EXTENDS LuaParser, LuaValues

CONSTANTS BASIC_STACK_SIZE, EXTRA_STACK, LUA_MINSTACK, BASIC_CI_SIZE, LUAI_MAXCALLS

isfunction(v) == v[1] \in {"function", "cfunction"}
l_isfalse(v) == v = Nil \/ v = Bool(FALSE)

Cur(m) == m.th[m.cur]
CI(m) == Last(Cur(m).ci)
Cell(m, at) == Cur(m).stack[at]
stacksize(t) == Cardinality(DOMAIN t.stack)
stack_last(t) == stacksize(t) - EXTRA_STACK - 1
Prototype(m, path) == FoldLeft(LAMBDA p, i : p.p[i], m.p, path)
f_isLua(m) == Cell(m, CI(m).func)[1] = "function"

Check(m, holds) == [m EXCEPT !.sound = @ /\ holds]
Put(m, at, v) ==
  IF at \in DOMAIN Cur(m).stack THEN [m EXCEPT !.th[m.cur].stack[at] = v] ELSE Check(m, FALSE)
SetTop(m, n) == [m EXCEPT !.th[m.cur].top = n]
Push(m, v) == SetTop(Put(m, Cur(m).top, v), Cur(m).top + 1)
SetCI(m, ci) == [m EXCEPT !.th[m.cur].ci[Len(Cur(m).ci)] = ci]

\* n cells from `from' on become those from `to' on.
Copy(m, to, from, n) ==
  LET s == Cur(m).stack
  IN  [Check(m, to + n <= stacksize(Cur(m))) EXCEPT
         !.th[m.cur].stack = [a \in DOMAIN s |-> IF a >= to /\ a < to + n THEN s[from + a - to] ELSE s[a]]]
Clear(m, from, to) ==
  LET s == Cur(m).stack
  IN  [Check(m, to <= stacksize(Cur(m))) EXCEPT
         !.th[m.cur].stack = [a \in DOMAIN s |-> IF a >= from /\ a < to THEN Nil ELSE s[a]]]

\* stack_init (lstate.c), with the bottom call.
NewThread ==
  [stack |-> [a \in 0 .. BASIC_STACK_SIZE + EXTRA_STACK - 1 |-> IF a = 0 THEN Nil ELSE Undefined], top |-> 1,
   ci |-> <<[func |-> 0, base |-> 1, top |-> 1 + LUA_MINSTACK, nresults |-> 0, savedpc |-> 0, tailcalls |-> 0]>>,
   size_ci |-> BASIC_CI_SIZE, nCcalls |-> 0, baseCcalls |-> 0, errfunc |-> 0, status |-> "0"]

-----------------------------------------------------------------------------
(* Upvalues *)

OpenAt(m) == {u \in DOMAIN m.uv : m.uv[u].open /\ m.uv[u].t = m.cur}

\* The upvalue's number is u.
luaF_findupval(m, level) ==
  LET same == {u \in OpenAt(m) : m.uv[u].at = level}
  IN  IF same # {} THEN [m |-> m, u |-> CHOOSE u \in same : TRUE]
      ELSE [m |-> [m EXCEPT !.uv = Append(@, [open |-> TRUE, t |-> m.cur, at |-> level, v |-> Nil])], u |-> Len(m.uv) + 1]

\* Defective: the cell at level itself stays open.
luaF_close_above(m, level) ==
  [m EXCEPT !.uv = [u \in DOMAIN m.uv |-> IF u \in OpenAt(m) /\ m.uv[u].at > level
                                          THEN [m.uv[u] EXCEPT !.open = FALSE, !.v = Cell(m, m.uv[u].at)] ELSE m.uv[u]]]

luaF_close(m, level) ==
  [m EXCEPT !.uv = [u \in DOMAIN m.uv |-> IF u \in OpenAt(m) /\ m.uv[u].at >= level
                                          THEN [m.uv[u] EXCEPT !.open = FALSE, !.v = Cell(m, m.uv[u].at)] ELSE m.uv[u]]]

upvalue(m, u) == IF m.uv[u].open THEN m.th[m.uv[u].t].stack[m.uv[u].at] ELSE m.uv[u].v
setupvalue(m, u, v) ==
  IF m.uv[u].open THEN [m EXCEPT !.th[m.uv[u].t].stack[m.uv[u].at] = v] ELSE [m EXCEPT !.uv[u].v = v]

-----------------------------------------------------------------------------
(* Room on the stack *)

\* What the new cells hold is not defined.
luaD_growstack(m, n) ==
  LET s == Cur(m).stack
      size == stacksize(Cur(m))
      more == IF n <= size THEN 2 * size ELSE size + n
  IN  [m EXCEPT !.th[m.cur].stack =
         [a \in 0 .. more + EXTRA_STACK |-> IF a \in DOMAIN s THEN s[a] ELSE Undefined]]

luaD_checkstack(m, n) == IF stack_last(Cur(m)) - Cur(m).top <= n THEN luaD_growstack(m, n) ELSE m

\* A value pushed with incr_top.
PushChecked(m, v) == LET m1 == luaD_checkstack(Put(m, Cur(m).top, v), 1) IN SetTop(m1, Cur(m).top + 1)

-----------------------------------------------------------------------------
(* Errors *)

luaD_throw(m, errcode) == [m EXCEPT !.mode = "throw", !.errcode = errcode]

\* The message is pushed; luaG_errormsg comes next.
luaG_runerror(m, msg) == [PushChecked(m, Str(msg)) EXCEPT !.mode = "error"]

luaD_seterrorobj(m, errcode, oldtop) ==
  SetTop(Put(m, oldtop, IF errcode = "ERRERR" THEN Str("error in error handling") ELSE Cell(m, Cur(m).top - 1)), oldtop + 1)

restore_stack_limit(m) ==
  LET t == Cur(m)
  IN  IF t.size_ci > LUAI_MAXCALLS /\ Len(t.ci) < LUAI_MAXCALLS THEN [m EXCEPT !.th[m.cur].size_ci = LUAI_MAXCALLS] ELSE m

-----------------------------------------------------------------------------
(* Calls *)

\* A new call, unless there are too many.
inc_ci(m, ci) ==
  LET t == Cur(m)
      grown == IF Len(t.ci) < t.size_ci THEN m ELSE [m EXCEPT !.th[m.cur].size_ci = 2 * @]
  IN  IF Len(t.ci) >= t.size_ci /\ t.size_ci > LUAI_MAXCALLS THEN luaD_throw(m, "ERRERR")
      ELSE IF Len(t.ci) >= t.size_ci /\ 2 * t.size_ci > LUAI_MAXCALLS THEN luaG_runerror(grown, "stack overflow")
      ELSE [grown EXCEPT !.th[m.cur].ci = Append(@, ci)]

\* Only tables have metatables.
luaT_gettmbyobj(m, o, event) ==
  IF o[1] = "table" /\ m.h[o[2]].mt # 0 THEN RawGet(m.h[m.h[o[2]].mt].t, Str(event)) ELSE Nil

\* The table arg of a function that uses it as Lua 5.0 did.
NewArg(m, extra) ==
  LET n == {i \in DOMAIN extra : extra[i] # Nil}
      t == [k \in {<<"number", i>> : i \in n} \cup {Str("n")} |-> IF k = Str("n") THEN <<"number", Len(extra)>> ELSE extra[k[2]]]
  IN  Push([m EXCEPT !.h = Append(@, [t |-> t, mt |-> 0])], <<"table", Len(m.h) + 1>>)

\* The fixed parameters move above the arguments, to base.
adjust_varargs(m, p, actual) ==
  LET missing == IF actual < p.numparams THEN p.numparams - actual ELSE 0
      args == actual + missing
  IN  Let(Cur(m).top + missing, LAMBDA base :
      Let(Clear(m, Cur(m).top, base), LAMBDA m1 :
      Let(SetTop(Clear(Copy(m1, base, base - args, p.numparams), base - args, base - args + p.numparams),
                 base + p.numparams), LAMBDA m2 :
        [m |-> IF "NEEDSARG" \notin p.is_vararg THEN m2
               ELSE NewArg(m2, [i \in 1 .. args - p.numparams |-> Cell(m1, base - (args - p.numparams) + i - 1)]),
         base |-> base])))

\* A value with a __call metamethod becomes its first argument.
tryfuncTM(m, func) ==
  Let(luaT_gettmbyobj(m, Cell(m, func), "__call"), LAMBDA tm :
    IF ~isfunction(tm) THEN luaG_runerror(m, "call")
    ELSE Put(SetTop(luaD_checkstack(Copy(m, func + 1, func, Cur(m).top - func), 1), Cur(m).top + 1), func, tm))

NewCI(func, base, top, nresults) ==
  [func |-> func, base |-> base, top |-> top, nresults |-> nresults, savedpc |-> 0, tailcalls |-> 0]
Failed(m) == m.mode \in {"throw", "error"}

\* p is the prototype of the Lua function at func.
PrecallLua(m, func, nresults, p) ==
  LET plain(m1) == [m |-> IF Cur(m1).top > func + 1 + p.numparams THEN SetTop(m1, func + 1 + p.numparams) ELSE m1,
                    base |-> func + 1]
      room(m1, top) == Check(SetTop(Clear(m1, Cur(m1).top, top), top), top <= stack_last(Cur(m1)))
  IN  Let(luaD_checkstack(m, p.maxstack), LAMBDA m1 :
      Let(IF p.is_vararg = {} THEN plain(m1) ELSE adjust_varargs(m1, p, Cur(m1).top - func - 1), LAMBDA a :
      Let(inc_ci(a.m, NewCI(func, a.base, a.base + p.maxstack, nresults)), LAMBDA m2 :
        IF Failed(m2) THEN m2 ELSE [room(m2, a.base + p.maxstack) EXCEPT !.mode = "lua"])))

PrecallC(m, func, nresults) ==
  Let(luaD_checkstack(m, LUA_MINSTACK), LAMBDA m1 :
  Let(inc_ci(m1, NewCI(func, func + 1, Cur(m1).top + LUA_MINSTACK, nresults)), LAMBDA m2 :
    IF Failed(m2) THEN m2 ELSE [Check(m2, CI(m2).top <= stack_last(Cur(m2))) EXCEPT !.mode = "enter"]))

luaD_precall(m, func, nresults) ==
  Let(IF isfunction(Cell(m, func)) THEN m ELSE tryfuncTM(m, func), LAMBDA m1 :
  Let(Cell(m1, func), LAMBDA f :
    CASE m1.mode = "error"  -> m1
      [] m1.mode # "error" /\ f[1] = "function"  -> PrecallLua(m1, func, nresults, Prototype(m1, m1.cl[f[2]].p))
      [] m1.mode # "error" /\ f[1] = "cfunction" -> PrecallC(m1, func, nresults)))

\* Defective: the call is not taken off.
luaD_poscall_stays(m, first) ==
  Let(CI(m), LAMBDA ci :
  Let(Cur(m).top - first, LAMBDA n :
  Let(IF ci.nresults = LUA_MULTRET THEN n ELSE ci.nresults, LAMBDA wanted :
  Let(Copy(m, ci.func, first, IF n < wanted THEN n ELSE wanted), LAMBDA m1 :
    SetTop(IF n < wanted THEN Clear(m1, ci.func + n, ci.func + wanted) ELSE m1, ci.func + wanted)))))

luaD_poscall(m, first) ==
  Let(CI(m), LAMBDA ci :
  Let(Cur(m).top - first, LAMBDA n :
  Let(IF ci.nresults = LUA_MULTRET THEN n ELSE ci.nresults, LAMBDA wanted :
  Let(Copy(m, ci.func, first, IF n < wanted THEN n ELSE wanted), LAMBDA m1 :
    [SetTop(IF n < wanted THEN Clear(m1, ci.func + n, ci.func + wanted) ELSE m1, ci.func + wanted) EXCEPT
       !.th[m.cur].ci = Front(@)]))))

Execute(n) == [k |-> "execute", n |-> n]

\* The caller has put itself on cs.
luaD_call(m, func, nresults) ==
  Let([m EXCEPT !.th[m.cur].nCcalls = @ + 1, !.mode = "call"], LAMBDA m1 :
    IF Cur(m1).nCcalls = LUAI_MAXCCALLS THEN luaG_runerror(m1, "C stack overflow")
    ELSE IF Cur(m1).nCcalls >= LUAI_MAXCCALLS + LUAI_MAXCCALLS \div 8 THEN luaD_throw(m1, "ERRERR")
    ELSE Let(luaD_precall(m1, func, nresults), LAMBDA m2 :
           IF m2.mode = "lua" THEN [m2 EXCEPT !.mode = "execute", !.cs = Append(@, Execute(1))] ELSE m2))

\* A luaD_call of the innermost C function returns to it.
Called(m) == [m EXCEPT !.th[m.cur].nCcalls = @ - 1, !.cs = Front(@)]

\* The C function that runs returns its last n values.
CReturn(m, n) == [luaD_poscall(m, Cur(m).top - n) EXCEPT !.mode = "ret"]

\* A message handler is called with the message.
luaG_errormsg(m) ==
  LET top == Cur(m).top
      handler == Cell(m, Cur(m).errfunc)
  IN  IF Cur(m).errfunc = 0 THEN luaD_throw(m, "ERRRUN")
      ELSE IF ~isfunction(handler) THEN luaD_throw(m, "ERRERR")
      ELSE luaD_call([PushChecked(Put(m, top - 1, handler), Cell(m, top - 1)) EXCEPT !.cs = Append(@, [k |-> "errfunc"])],
                     top - 1, 1)
=============================================================================
