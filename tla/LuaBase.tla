------------------------------- MODULE LuaBase -------------------------------
(***************************************************************************)
(* C functions of Lua's basic library (lbaselib.c) with the functions of   *)
(* lapi.c and ldo.c they rest on: protected calls, errors, metatables and  *)
(* coroutines.  Where an error message tells its place in the text, the    *)
(* place is left out.  note stands for a C function of the host: it takes  *)
(* note of its arguments and returns them.                                 *)
(***************************************************************************)
EXTENDS LuaVM

CONSTANT LUAI_MAXCSTACK

Cells(m, from, to) == << >> \o [j \in 1 .. to - from |-> Shown(Cell(m, from + j - 1))]

\* The C function that runs, and its arguments.
Enters(name) == lua.mode = "enter" /\ Cell(lua, CI(lua).func)[2] = name
nargs == Cur(lua).top - CI(lua).base
arg(j) == IF j <= nargs THEN R(lua, j - 1) ELSE <<"none">>

lua_settop(m, n) ==
  LET base == CI(m).base
  IN  SetTop(IF Cur(m).top < base + n THEN Clear(m, Cur(m).top, base + n) ELSE m, base + n)

\* ok is FALSE when the stack may not grow so far.
lua_checkstack(m, size) ==
  LET fits == size <= LUAI_MAXCSTACK /\ Cur(m).top - CI(m).base + size <= LUAI_MAXCSTACK
      m1 == luaD_checkstack(m, size)
      end == Cur(m1).top + size
  IN  [ok |-> fits, m |-> IF ~fits \/ size = 0 THEN m
                          ELSE SetCI(m1, [CI(m1) EXCEPT !.top = IF @ < end THEN end ELSE @])]

\* The last n values of thread `from' move to thread `to'.
lua_xmove(m, from, to, n) ==
  LET top == m.th[from].top - n
      m1 == [m EXCEPT !.th[from].top = top]
      move(x, j) == [Push([x EXCEPT !.cur = to], m.th[from].stack[top + j - 1]) EXCEPT !.cur = m.cur]
  IN  FoldLeft(move, m1, [j \in 1 .. n |-> j])

-----------------------------------------------------------------------------
(* Values *)

note == Enters("note") /\ Goes(CReturn([lua EXCEPT !.out = Append(@, Cells(lua, CI(lua).base, Cur(lua).top))], nargs))

\* The message is raised as it is: the place that level asks for is left out.
luaB_error == Enters("error") /\ Goes([lua_settop(lua, 1) EXCEPT !.mode = "error"])

luaB_assert ==
  /\ Enters("assert")
  /\ Goes(IF nargs = 0 THEN luaG_runerror(lua, "value expected")
          ELSE IF ~l_isfalse(arg(1)) THEN CReturn(lua, nargs)
          ELSE CASE arg(2)[1] = "string" -> [Push(lua, arg(2)) EXCEPT !.mode = "error"]
                 [] arg(2)[1] = "number" -> luaG_runerror(lua, ToString(arg(2)[2]))
                 [] arg(2)[1] \in {"none", "nil"} -> luaG_runerror(lua, "assertion failed!")
                 [] OTHER -> luaG_runerror(lua, "bad argument"))

luaB_setmetatable ==
  LET t == arg(1)
      mt == arg(2)
      m1 == lua_settop(lua, 1)
  IN  /\ Enters("setmetatable")
      /\ Goes(IF t[1] # "table" \/ mt[1] \notin {"nil", "table"} THEN luaG_runerror(lua, "bad argument")
              ELSE IF luaT_gettmbyobj(lua, t, "__metatable") # Nil THEN luaG_runerror(lua, "protected")
              ELSE CReturn([m1 EXCEPT !.h[t[2]].mt = IF mt = Nil THEN 0 ELSE mt[2]], 1))

luaB_getmetatable ==
  LET t == arg(1)
      shown == luaT_gettmbyobj(lua, t, "__metatable")
  IN  /\ Enters("getmetatable")
      /\ Goes(IF nargs = 0 THEN luaG_runerror(lua, "value expected")
              ELSE CReturn(Push(lua, IF t[1] # "table" \/ lua.h[t[2]].mt = 0 THEN Nil
                                     ELSE IF shown # Nil THEN shown ELSE <<"table", lua.h[t[2]].mt>>), 1))

luaB_rawget ==
  /\ Enters("rawget")
  /\ Goes(IF arg(1)[1] # "table" \/ nargs < 2 THEN luaG_runerror(lua, "bad argument")
          ELSE CReturn(Push(lua_settop(lua, 1), RawGet(lua.h[arg(1)[2]].t, arg(2))), 1))

luaB_rawset ==
  /\ Enters("rawset")
  /\ Goes(IF arg(1)[1] # "table" \/ nargs < 3 THEN luaG_runerror(lua, "bad argument")
          ELSE IF arg(2) = Nil THEN luaG_runerror(lua, "nil")
          ELSE CReturn([lua_settop(lua, 1) EXCEPT !.h[arg(1)[2]].t = RawSet(@, arg(2), arg(3))], 1))

luaB_ipairs ==
  /\ Enters("ipairs")
  /\ Goes(IF arg(1)[1] # "table" THEN luaG_runerror(lua, "bad argument")
          ELSE CReturn(Push(Push(Push(lua, <<"cfunction", "ipairsaux", 0>>), arg(1)), <<"number", 0>>), 3))

ipairsaux ==
  LET i == <<"number", arg(2)[2] + 1>>
      v == RawGet(lua.h[arg(1)[2]].t, i)
  IN  Enters("ipairsaux") /\ Goes(CReturn(Push(Push(lua, i), v), IF v = Nil THEN 0 ELSE 2))

luaB_select ==
  LET i == arg(1)[2]
      n == IF i < 0 THEN nargs + i ELSE IF i > nargs THEN nargs ELSE i
  IN  /\ Enters("select")
      /\ Goes(CASE arg(1) = Str("#")      -> CReturn(Push(lua, <<"number", nargs - 1>>), 1)
                [] arg(1)[1] # "number"   -> luaG_runerror(lua, "bad argument")
                [] OTHER -> IF n < 1 THEN luaG_runerror(lua, "bad argument") ELSE CReturn(lua, nargs - n))

\* The bounds are far from those of an int, and e - i + 1 does not overflow.
luaB_unpack ==
  LET t == lua.h[arg(1)[2]].t
      opt(j, default) == IF arg(j)[1] = "number" THEN arg(j)[2] ELSE default
      i == opt(2, 1)
      e == opt(3, luaH_getn(t))
      n == e - i + 1
      room == lua_checkstack(lua, n)
      push(m, j) == Push(m, RawGet(t, <<"number", i + j - 1>>))
  IN  /\ Enters("unpack")
      /\ Goes(IF arg(1)[1] # "table" \/ \E j \in 2 .. 3 : arg(j)[1] \notin {"none", "nil", "number"}
              THEN luaG_runerror(lua, "bad argument")
              ELSE IF i > e THEN CReturn(lua, 0)
              ELSE IF ~room.ok THEN luaG_runerror(lua, "too many results to unpack")
              ELSE CReturn(FoldLeft(push, room.m, [j \in 1 .. n |-> j]), n))

-----------------------------------------------------------------------------
(* Protected calls *)

\* lua_pcall and luaD_pcall, up to the call, for luaB_pcall, luaB_xpcall or the
\* host.
Pcall(m, func, errfunc, by) ==
  LET entry == [k |-> "pcall", by |-> by, oldtop |-> func, ci |-> Len(Cur(m).ci),
                nCcalls |-> Cur(m).nCcalls, errfunc |-> Cur(m).errfunc]
  IN  luaD_call([m EXCEPT !.cs = Append(@, entry), !.th[m.cur].errfunc = errfunc], func, LUA_MULTRET)

luaB_pcall ==
  /\ Enters("pcall")
  /\ Goes(IF nargs = 0 THEN luaG_runerror(lua, "value expected") ELSE Pcall(lua, CI(lua).base, 0, "pcall"))

luaB_xpcall ==
  LET base == CI(lua).base
      m1 == lua_settop(lua, 2)
  IN  /\ Enters("xpcall")
      /\ Goes(IF nargs < 2 THEN luaG_runerror(lua, "value expected")
              ELSE Pcall(Put(Put(m1, base, arg(2)), base + 1, arg(1)), base + 1, base, "xpcall"))

\* The end of lua_pcall, and of the function that has called it.
EndPcall(m, e, ok) ==
  LET m1 == [m EXCEPT !.th[m.cur].errfunc = e.errfunc]
      m2 == IF Cur(m1).top >= CI(m1).top THEN SetCI(m1, [CI(m1) EXCEPT !.top = Cur(m1).top]) ELSE m1
      base == CI(m2).base
      n == Cur(m2).top - base
      first == Put(IF e.by = "pcall" THEN SetTop(Copy(m2, base + 1, base, n), Cur(m2).top + 1) ELSE m2, base, Bool(ok))
  IN  IF e.by = "host" THEN [m2 EXCEPT !.mode = "done", !.errcode = IF ok THEN "none" ELSE @]
      ELSE CReturn(first, Cur(first).top - base)

AfterPcall == ReturnTo("pcall") /\ Goes(EndPcall(Called(lua), Last(lua.cs), TRUE))

\* Defective: nCcalls stays what it was when the error happened.
FailedPcall_count(m, e) ==
  LET m1 == luaD_seterrorobj(luaF_close(m, e.oldtop), m.errcode, e.oldtop)
      m2 == [m1 EXCEPT !.th[m.cur].ci = SubSeq(@, 1, e.ci)]
  IN  EndPcall(restore_stack_limit(m2), e, FALSE)

\* luaD_pcall when luaD_rawrunprotected returns an error.
FailedPcall(m, e) ==
  LET m1 == luaD_seterrorobj(luaF_close(m, e.oldtop), m.errcode, e.oldtop)
      m2 == [m1 EXCEPT !.th[m.cur].nCcalls = e.nCcalls, !.th[m.cur].ci = SubSeq(@, 1, e.ci)]
  IN  EndPcall(restore_stack_limit(m2), e, FALSE)

\* The innermost handler: that of a protected call or of lua_resume.
errorJmp(m) == CHOOSE j \in DOMAIN m.cs : /\ m.cs[j].k \in {"pcall", "resume"}
                                          /\ \A l \in j + 1 .. Len(m.cs) : m.cs[l].k \notin {"pcall", "resume"}
Unwound(m) == [m EXCEPT !.cs = SubSeq(@, 1, errorJmp(m) - 1)]
Thrown(k) == lua.mode = "throw" /\ lua.cs[errorJmp(lua)].k = k

ThrowToPcall == Thrown("pcall") /\ Goes(FailedPcall(Unwound(lua), lua.cs[errorJmp(lua)]))

Errormsg == lua.mode = "error" /\ Goes(luaG_errormsg(lua))
AfterHandler == ReturnTo("errfunc") /\ Goes(luaD_throw(Called(lua), "ERRRUN"))

-----------------------------------------------------------------------------
(* Coroutines *)

\* costatus: lua_getstack finds a call when there is more than the first.
costatus(m, co) ==
  LET t == m.th[co]
  IN  CASE m.cur = co -> "running"
        [] t.status = "YIELD" -> "suspended"
        [] t.status = "0" /\ Len(t.ci) > 1 -> "normal"
        [] t.status = "0" /\ Len(t.ci) = 1 /\ t.top = Last(t.ci).base -> "dead"
        [] t.status = "0" /\ Len(t.ci) = 1 /\ t.top # Last(t.ci).base -> "suspended"
        [] OTHER -> "dead"

CoCreate(m) == lua_xmove(Push([m EXCEPT !.th = Append(@, NewThread)], arg(1)), m.cur, Len(m.th) + 1, 1)
Created(name, v) ==
  /\ Enters(name)
  /\ Goes(IF arg(1)[1] # "function" THEN luaG_runerror(lua, "Lua function expected")
          ELSE CReturn(Push(CoCreate(lua), v), 1))
luaB_cocreate == Created("create", <<"thread", Len(lua.th) + 1>>)
luaB_cowrap == Created("wrap", <<"cfunction", "auxwrap", Len(lua.th) + 1>>)

\* resume: the function begins, or the call of yield ends.
resume(m, first) ==
  LET t == Cur(m)
      m1 == luaD_precall(m, first - 1, LUA_MULTRET)
      m2 == luaD_poscall([m EXCEPT !.th[m.cur].status = "0"], first)
      m3 == IF CI(m).nresults = LUA_MULTRET THEN m2 ELSE SetTop(m2, CI(m2).top)
      run(x) == [x EXCEPT !.mode = "execute", !.cs = Append(@, Execute(Len(Cur(x).ci) - 1))]
  IN  IF t.status = "0" THEN (IF m1.mode = "lua" THEN run(Check(m1, Len(t.ci) = 1)) ELSE m1)
      ELSE run(Check(m3, ~f_isLua(m) /\ Ins(m2).op \in {"CALL", "TAILCALL"}))

\* The end of auxresume and of its caller: a failure with the message on top,
\* or n results.
Unresumed(m, wrap) ==
  IF wrap THEN [m EXCEPT !.mode = "error"]
  ELSE LET top == Cur(m).top IN CReturn(Push(Put(m, top - 1, Bool(FALSE)), Cell(m, top - 1)), 2)
Resulted(m, wrap, n) ==
  LET top == Cur(m).top
  IN  IF wrap THEN CReturn(m, n)
      ELSE CReturn(SetTop(Put(Copy(m, top - n + 1, top - n, n), top - n, Bool(TRUE)), top + 1), n + 1)

\* lua_resume begins: co takes over the count of C calls of its caller
\* (lua_setlevel).
lua_resume(m, co, narg, wrap) ==
  LET n == Cur(m).nCcalls
      m1 == [m EXCEPT !.cur = co, !.mode = "call", !.cs = Append(@, [k |-> "resume", from |-> m.cur, wrap |-> wrap]),
                      !.th[co].nCcalls = n + 1, !.th[co].baseCcalls = n + 1]
      m2 == PushChecked(SetTop([m EXCEPT !.cur = co, !.th[co].nCcalls = n], Last(m.th[co].ci).base), Str("C stack overflow"))
  IN  IF n >= LUAI_MAXCCALLS THEN Unresumed(lua_xmove([m2 EXCEPT !.cur = m.cur], co, m.cur, 1), wrap)
      ELSE resume(Check(m1, Cur(m1).errfunc = 0), Cur(m1).top - narg)

auxresume(m, co, narg, wrap) ==
  LET checked == lua_checkstack([m EXCEPT !.cur = co], narg)
      m1 == [checked.m EXCEPT !.cur = m.cur]
      status == costatus(m, co)
  IN  IF ~checked.ok THEN luaG_runerror(m, "too many arguments to resume")
      ELSE IF status # "suspended" THEN Unresumed(Push(m1, Str("cannot resume " \o status)), wrap)
      ELSE lua_resume(lua_xmove(m1, m.cur, co, narg), co, narg, wrap)

luaB_coresume ==
  /\ Enters("resume")
  /\ Goes(IF arg(1)[1] # "thread" THEN luaG_runerror(lua, "bad argument") ELSE auxresume(lua, arg(1)[2], nargs - 1, FALSE))
luaB_auxwrap == Enters("auxwrap") /\ Goes(auxresume(lua, Cell(lua, CI(lua).func)[3], nargs, TRUE))

luaB_costatus ==
  /\ Enters("status")
  /\ Goes(IF arg(1)[1] # "thread" THEN luaG_runerror(lua, "bad argument")
          ELSE CReturn(Push(lua, Str(costatus(lua, arg(1)[2]))), 1))

luaB_yield ==
  /\ Enters("yield")
  /\ Goes(IF Cur(lua).nCcalls > Cur(lua).baseCcalls THEN luaG_runerror(lua, "yield across a C call")
          ELSE [lua EXCEPT !.mode = "yield", !.th[lua.cur].status = "YIELD"])

\* lua_resume returns from thread m.cur to the one that has resumed it.
EndResume(m, e) ==
  LET n == Cur(m).top - CI(m).base
      m1 == Check([m EXCEPT !.th[m.cur].nCcalls = @ - 1], Cur(m).nCcalls = Cur(m).baseCcalls)
      room == lua_checkstack([m1 EXCEPT !.cur = e.from], n + 1)
  IN  IF room.ok THEN Resulted(lua_xmove(room.m, m.cur, e.from, n), e.wrap, n)
      ELSE luaG_runerror(room.m, "too many results to resume")

AfterResume == ReturnTo("resume") /\ Goes(EndResume([lua EXCEPT !.cs = Front(@)], Last(lua.cs)))

\* luaV_execute returns, and so does lua_resume.
Yielded == lua.mode = "yield" /\ Goes(EndResume([lua EXCEPT !.cs = Front(Front(@))], Last(Front(lua.cs))))

\* Defective: the thread does not become a dead one.
ThrowToResume_alive ==
  LET e == lua.cs[errorJmp(lua)]
      m1 == luaD_seterrorobj(Unwound(lua), lua.errcode, Cur(lua).top)
      m2 == [SetCI(m1, [CI(m1) EXCEPT !.top = Cur(m1).top]) EXCEPT !.th[lua.cur].nCcalls = @ - 1, !.cur = e.from]
  IN  Thrown("resume") /\ Goes(Unresumed(lua_xmove(m2, lua.cur, e.from, 1), e.wrap))

\* The thread is dead from now on.
ThrowToResume ==
  LET e == lua.cs[errorJmp(lua)]
      m1 == luaD_seterrorobj(Unwound(lua), lua.errcode, Cur(lua).top)
      m2 == SetCI(m1, [CI(m1) EXCEPT !.top = Cur(m1).top])
      m3 == [m2 EXCEPT !.th[lua.cur].status = lua.errcode, !.th[lua.cur].nCcalls = @ - 1, !.cur = e.from]
  IN  Thrown("resume") /\ Goes(Unresumed(lua_xmove(m3, lua.cur, e.from, 1), e.wrap))

-----------------------------------------------------------------------------

CFunctions == {"note", "error", "assert", "setmetatable", "getmetatable", "rawget", "rawset", "ipairs", "select", "unpack",
               "pcall", "xpcall", "create", "wrap", "resume", "status", "yield"}

\* A new state, and the host's lua_pcall of the program in it.
Opened(p) ==
  LET globals == [k \in {Str(f) : f \in CFunctions} |-> <<"cfunction", k[2][1], 0>>]
  IN  [p |-> p, th |-> <<NewThread>>, cur |-> 1, cs |-> << >>, mode |-> "call", errcode |-> "none",
       h |-> <<[t |-> globals, mt |-> 0]>>, cl |-> <<[p |-> << >>, upvals |-> << >>]>>, uv |-> << >>,
       out |-> << >>, sound |-> TRUE]
Started(p) == Pcall(Push(Opened(p), <<"function", 1>>), 1, 0, "host")

baselib ==
  \/ note \/ luaB_error \/ luaB_assert \/ luaB_setmetatable \/ luaB_getmetatable \/ luaB_rawget \/ luaB_rawset
  \/ luaB_ipairs \/ ipairsaux \/ luaB_select \/ luaB_unpack \/ luaB_pcall \/ luaB_xpcall \/ luaB_cocreate
  \/ luaB_cowrap \/ luaB_coresume \/ luaB_auxwrap \/ luaB_costatus \/ luaB_yield

Returns == \/ AfterCall \/ AfterIterator \/ AfterTM \/ AfterTMres \/ AfterPcall \/ AfterHandler \/ AfterResume
Raises == Errormsg \/ ThrowToPcall \/ ThrowToResume \/ Yielded
=============================================================================
