-------------------------------- MODULE LuaRun --------------------------------
(***************************************************************************)
(* A Lua program from its text to its end: it is compiled (LuaParser,      *)
(* LuaCode), and run by the machine (LuaVM, LuaBase) in a protected call   *)
(* of the host.                                                            *)
(*                                                                         *)
(* A program of Programs has its text, a sequence of tokens, and what the  *)
(* text means: the outcome it shall have.                                  *)
(***************************************************************************)
EXTENDS LuaBase

CONSTANT Programs

VARIABLE program
vars == <<program, ls, lua>>

Init ==
  /\ program \in Programs
  /\ ls = Parsing(program.text)
  /\ lua = [Opened(Proto(NewFunc)) EXCEPT !.mode = "load"]

\* The host's lua_load ends: the program is called, or there is a message.
luaD_protectedparser ==
  /\ lua.mode = "load" /\ ls.todo = << >>
  /\ lua' = IF ls.fs.err = "none" THEN Started(Proto(ls.fs))
            ELSE [Push(lua, Str(ls.fs.err)) EXCEPT !.mode = "done", !.errcode = "ERRSYNTAX"]
  /\ ls' = Parsed

\* The host's call has returned.
Finished == lua.mode = "done" /\ UNCHANGED <<ls, lua>>

Next ==
  /\ \/ luaY_parser /\ UNCHANGED lua
     \/ luaD_protectedparser
     \/ (luaV_execute \/ baselib \/ Returns \/ Raises) /\ UNCHANGED ls
     \/ Finished
  /\ UNCHANGED program

\* Every step is the parser's or the machine's own: as long as the host's
\* call has not returned, there is one.
Spec == Init /\ [][Next]_vars /\ ([]<>(lua.mode = "done") \/ []<><<program' = program>>_vars)

-----------------------------------------------------------------------------

Values == {Nil, Undefined, Bool(TRUE), Bool(FALSE), <<"inf">>}

TypeOK ==
  /\ lua.mode \in {"load", "execute", "enter", "ret", "error", "throw", "yield", "done"}
  /\ lua.cur \in DOMAIN lua.th
  /\ \A t \in DOMAIN lua.th :
       /\ lua.th[t].status \in {"0", "YIELD", "ERRRUN", "ERRERR"}
       /\ \A j \in 2 .. Len(lua.th[t].ci) : isfunction(lua.th[t].stack[lua.th[t].ci[j].func])
       /\ \A a \in DOMAIN lua.th[t].stack :
            LET v == lua.th[t].stack[a]
            IN  \/ v[1] = "table" /\ v[2] \in DOMAIN lua.h
                \/ v[1] = "function" /\ v[2] \in DOMAIN lua.cl
                \/ v[1] = "thread" /\ v[2] \in DOMAIN lua.th
                \/ v[1] \in {"number", "string", "cfunction"}
                \/ v \in Values
  /\ \A c \in DOMAIN lua.cl : \A j \in DOMAIN lua.cl[c].upvals : lua.cl[c].upvals[j] \in DOMAIN lua.uv

Outcome ==
  [out |-> lua.out, err |-> lua.errcode # "none", results |-> Cells(lua, 1, Cur(lua).top)]

\* A compiled program notes, returns and raises what its text means: the
\* registers, jump lists and folded constants of lcode.c, the tail calls,
\* vararg frames and upvalues of ldo.c, lvm.c and lfunc.c, protected calls
\* and metamethods included.
RunsAsWritten == lua.mode = "done" => Outcome = program.means

\* The compiler's and the machine's assertions (lua_assert, which a release
\* build leaves out) hold, luaG_checkcode accepts all code, and no cell
\* outside of the stack is stored to.
AssertionsHold == lua.sound /\ ls.fs.sound /\ \A i \in DOMAIN ls.prev : ls.prev[i].sound

\* An open upvalue names a cell of a call that is still active, and no cell
\* has two: a variable outlives its block only as a closed upvalue
\* (luaF_close by OP_CLOSE, OP_RETURN, tail calls and errors).
UpvaluesInFrames ==
  LET open == {u \in DOMAIN lua.uv : lua.uv[u].open}
      Holds(c, u) == c.base <= lua.uv[u].at /\ lua.uv[u].at < c.top
  IN  \A u \in open :
        /\ \E j \in 2 .. Len(lua.th[lua.uv[u].t].ci) : Holds(lua.th[lua.uv[u].t].ci[j], u)
        /\ \A w \in open : lua.uv[w].t = lua.uv[u].t /\ lua.uv[w].at = lua.uv[u].at => w = u

\* The entries of the C stack that belong to a thread that runs or waits for
\* one it has resumed.
Resumes == {j \in DOMAIN lua.cs : lua.cs[j].k = "resume"}
ThreadAt(j) ==
  LET later == {l \in j + 1 .. Len(lua.cs) : lua.cs[l].k = "resume"}
  IN  IF later = {} THEN lua.cur ELSE lua.cs[CHOOSE l \in later : \A k \in later : l <= k].from
Own(t) == {j \in DOMAIN lua.cs : ThreadAt(j) = t}

\* nCcalls, by which recursion through C is limited and a yield is allowed or
\* refused, counts exactly the calls on the C stack, over all coroutines that
\* have resumed one another and also after errors; nexeccalls, by which
\* luaV_execute knows when to return, counts the Lua calls it runs.  When the
\* host's protected call returns, whatever happened, the thread is as before: no
\* call, C call, open upvalue or handler is left, and the room taken for an
\* overflow has been given back.
CallsCounted ==
  /\ \A t \in {lua.cur} \cup {lua.cs[j].from : j \in Resumes} :
       LET LuaCalls == {j \in DOMAIN lua.th[t].ci : lua.th[t].stack[lua.th[t].ci[j].func][1] = "function"}
           run == {j \in Own(t) : lua.cs[j].k = "execute"}
           below == {j \in DOMAIN lua.cs : lua.cs[j].k # "execute" /\ \E l \in Own(t) : j <= l}
       IN  /\ lua.th[t].nCcalls = Cardinality(below)
           /\ lua.mode \notin {"throw", "error"} =>
                FoldSet(LAMBDA j, n : n + lua.cs[j].n, 0, run) = Cardinality(LuaCalls)
  /\ lua.mode = "done" =>
       /\ lua.cur = 1 /\ lua.cs = << >>
       /\ Len(Cur(lua).ci) = 1 /\ Cur(lua).errfunc = 0
       /\ Cur(lua).size_ci <= LUAI_MAXCALLS
       /\ OpenAt(lua) = {}

\* Every program of the instance ends: recursion without end is stopped by
\* the limits on calls, and an error handler that fails is not called for
\* ever.
Terminates == <>(lua.mode = "done")
=============================================================================
