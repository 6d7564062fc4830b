-------------------------------- MODULE LuaVM --------------------------------
(***************************************************************************)
(* Lua's virtual machine (lvm.c): an action for each opcode of             *)
(* luaV_execute, and the metamethods.  An instruction that calls a Lua     *)
(* function in its middle (a metamethod, or the iterator of a for) leaves  *)
(* an entry on the C stack and goes on when the function returns.          *)
(*                                                                         *)
(* Numbers are integers, and a division by 0 gives <<"inf">>; a string is  *)
(* a sequence of atoms, in the order of Alphabet.  Tables are functions    *)
(* (LuaTable is about how they are stored), nothing is collected (LuaGC is *)
(* about that), and there are no hooks.                                    *)
(***************************************************************************)
EXTENDS LuaDo

CONSTANT MAXTAGLOOP

VARIABLE lua

Skip(m, n) == [m EXCEPT !.th[m.cur].ci[Len(Cur(m).ci)].savedpc = @ + n]
Code(m) == Prototype(m, m.cl[Cell(m, CI(m).func)[2]].p)

\* The instruction that is executed, once it has been fetched, and the next.
Ins(m) == Code(m).code[CI(m).savedpc]
NextIns(m) == Code(m).code[CI(m).savedpc + 1]

\* `const Instruction i = *pc++' and the assertions before the switch.
Fetch(m) ==
  LET t == Cur(m)
      i == NextIns(m)
  IN  Skip(Check(m, CI(m).base <= t.top /\ t.top <= stacksize(t) /\ (t.top = CI(m).top \/ luaG_checkopenop(i))), 1)

\* Instruction i is executed: does tells what it makes of the machine after the
\* fetch.
Executes(op, does(_, _)) ==
  /\ lua.mode = "execute" /\ NextIns(lua).op = op
  /\ lua' = does(Fetch(lua), NextIns(lua))
Goes(m) == lua' = m

RA(m, i) == CI(m).base + i.a
R(m, x) == Cell(m, CI(m).base + x)
K(m, x) == Code(m).k[x + 1]
RK(m, x) == IF ISK(x) THEN K(m, INDEXK(x)) ELSE R(m, x)

dojump(m, taken) == Skip(m, IF taken THEN NextIns(m).b + 1 ELSE 1)

-----------------------------------------------------------------------------
(* Metamethods *)

TMres(res, then, total, last) == [k |-> "TMres", res |-> res, then |-> then, total |-> total, last |-> last]

\* f is called with p1 and p2; its first result goes to the cell res.
callTMres(m, f, p1, p2, entry) ==
  LET top == Cur(m).top
      m1 == SetTop(luaD_checkstack(Put(Put(Put(m, top, f), top + 1, p1), top + 2, p2), 3), top + 3)
  IN  luaD_call([m1 EXCEPT !.cs = Append(@, entry)], top, 1)

callTM(m, f, p1, p2, p3) ==
  LET top == Cur(m).top
      m1 == SetTop(luaD_checkstack(Put(Put(Put(Put(m, top, f), top + 1, p1), top + 2, p2), top + 3, p3), 4), top + 4)
  IN  luaD_call([m1 EXCEPT !.cs = Append(@, [k |-> "TM"])], top, 0)

\* Where the loop of luaV_gettable and luaV_settable ends: at a table without
\* the metamethod or with the key ("raw"), at a function, or in an error.
RECURSIVE TagLoop(_, _, _, _, _)
TagLoop(m, t, key, event, loop) ==
  LET tm == luaT_gettmbyobj(m, t, event)
  IN  IF loop = MAXTAGLOOP THEN [how |-> "loop", t |-> t, tm |-> Nil]
      ELSE IF t[1] = "table" /\ event = "__newindex" /\ key = Nil THEN [how |-> "nil", t |-> t, tm |-> Nil]
      ELSE IF t[1] = "table" /\ (RawGet(m.h[t[2]].t, key) # Nil \/ tm = Nil) THEN [how |-> "raw", t |-> t, tm |-> Nil]
      ELSE IF tm = Nil THEN [how |-> "index", t |-> t, tm |-> Nil]
      ELSE IF isfunction(tm) THEN [how |-> "function", t |-> t, tm |-> tm]
      ELSE TagLoop(m, tm, key, event, loop + 1)

luaV_gettable(m, t, key, res) ==
  LET l == TagLoop(m, t, key, "__index", 0)
  IN  CASE l.how = "raw"      -> Put(m, res, RawGet(m.h[l.t[2]].t, key))
        [] l.how = "function" -> callTMres(m, l.tm, l.t, key, TMres(res, "next", 0, 0))
        [] OTHER              -> luaG_runerror(m, l.how)

luaV_settable(m, t, key, v) ==
  LET l == TagLoop(m, t, key, "__newindex", 0)
  IN  CASE l.how = "raw"      -> [m EXCEPT !.h[l.t[2]].t = RawSet(@, key, v)]
        [] l.how = "function" -> callTM(m, l.tm, l.t, key, v)
        [] OTHER              -> luaG_runerror(m, l.how)

\* The metamethod of the first operand, or else of the second.
binTM(m, p1, p2, event) ==
  LET tm == luaT_gettmbyobj(m, p1, event) IN IF tm = Nil THEN luaT_gettmbyobj(m, p2, event) ELSE tm

call_binTM(m, p1, p2, event, entry, msg) ==
  LET tm == binTM(m, p1, p2, event) IN IF tm = Nil THEN luaG_runerror(m, msg) ELSE callTMres(m, tm, p1, p2, entry)

\* The common metamethod of two tables for __eq.
get_compTM(m, t1, t2, event) ==
  LET tm1 == luaT_gettmbyobj(m, t1, event)
      tm2 == luaT_gettmbyobj(m, t2, event)
  IN  IF tm1 # Nil /\ tm1 = tm2 THEN tm1 ELSE Nil

\* The same for __lt and __le.
orderTM(m, p1, p2, event) == get_compTM(m, p1, p2, event)

-----------------------------------------------------------------------------
(* Conversions, comparisons and arithmetic *)

\* luaO_str2d: a text of one digit is a number.
luaV_tonumber(v) ==
  LET digits == {n \in 0 .. 9 : v = Str(ToString(n))}
  IN  IF v[1] = "number" THEN v ELSE IF digits = {} THEN Nil ELSE <<"number", CHOOSE n \in digits : TRUE>>
istext(v) == v[1] \in {"string", "number"}
luaV_tostring(v) == IF v[1] = "number" THEN <<ToString(v[2])>> ELSE v[2]

Rank(atom) == CHOOSE i \in DOMAIN Alphabet : Alphabet[i] = atom

\* strcoll on what precedes the first "NUL": the sign of the comparison.
RECURSIVE strcoll(_, _)
strcoll(l, r) ==
  LET ends(s) == s = << >> \/ Head(s) = "NUL"
  IN  CASE ends(l) /\ ends(r)   -> 0
        [] ends(l) /\ ~ends(r)  -> -1
        [] ~ends(l) /\ ends(r)  -> 1
        [] OTHER -> IF Head(l) = Head(r) THEN strcoll(Tail(l), Tail(r))
                    ELSE IF Rank(Head(l)) < Rank(Head(r)) THEN -1 ELSE 1

RECURSIVE l_strcmp(_, _)
l_strcmp(l, r) ==
  LET len == SelectInSeq(l, LAMBDA a : a = "NUL") - 1
      n == IF len < 0 THEN Len(l) ELSE len
      after(s) == SubSeq(s, n + 2, Len(s))
  IN  IF strcoll(l, r) # 0 THEN strcoll(l, r)
      ELSE IF n = Len(r) THEN (IF n = Len(l) THEN 0 ELSE 1)
      ELSE IF n = Len(l) THEN -1
      ELSE l_strcmp(after(l), after(r))

\* The outcome of a comparison, when it is known, and else the machine that
\* finds it out.
Known(m, holds) == [m |-> m, known |-> TRUE, holds |-> holds]
Asked(m) == [m |-> m, known |-> FALSE, holds |-> FALSE]

luaV_lessthan(m, l, r) ==
  LET tm == orderTM(m, l, r, "__lt")
  IN  CASE l[1] # r[1]      -> Asked(luaG_runerror(m, "compare"))
        [] l[1] = "number"  -> Known(m, l[2] < r[2])
        [] l[1] = "string"  -> Known(m, l_strcmp(l[2], r[2]) < 0)
        [] tm # Nil         -> Asked(callTMres(m, tm, l, r, TMres(Cur(m).top, "test", 0, 0)))
        [] OTHER            -> Asked(luaG_runerror(m, "compare"))

lessequal(m, l, r) ==
  LET le == orderTM(m, l, r, "__le")
      lt == orderTM(m, r, l, "__lt")
  IN  CASE l[1] # r[1]      -> Asked(luaG_runerror(m, "compare"))
        [] l[1] = "number"  -> Known(m, l[2] <= r[2])
        [] l[1] = "string"  -> Known(m, l_strcmp(l[2], r[2]) <= 0)
        [] le # Nil         -> Asked(callTMres(m, le, l, r, TMres(Cur(m).top, "test", 0, 0)))
        [] lt # Nil         -> Asked(callTMres(m, lt, r, l, TMres(Cur(m).top, "testnot", 0, 0)))
        [] OTHER            -> Asked(luaG_runerror(m, "compare"))

luaV_equalval(m, t1, t2) ==
  LET tm == get_compTM(m, t1, t2, "__eq")
  IN  IF t1[1] = "table" /\ t2[1] = "table" /\ t1 # t2 /\ tm # Nil
      THEN Asked(callTMres(m, tm, t1, t2, TMres(Cur(m).top, "test", 0, 0)))
      ELSE Known(m, t1 = t2)

number(op, a, b) == IF op = "DIV" /\ b = 0 THEN <<"inf">> ELSE <<"number", numop(op, a, b)>>
Event == "ADD" :> "__add" @@ "SUB" :> "__sub" @@ "MUL" :> "__mul" @@ "DIV" :> "__div" @@ "MOD" :> "__mod"
         @@ "POW" :> "__pow" @@ "UNM" :> "__unm"

Arith(m, ra, rb, rc, op) ==
  LET b == luaV_tonumber(rb)
      c == luaV_tonumber(rc)
  IN  IF b # Nil /\ c # Nil THEN Put(m, ra, number(op, b[2], c[2]))
      ELSE call_binTM(m, rb, rc, Event[op], TMres(ra, "next", 0, 0), "arith")

\* The number of texts, of the total values up to the cell top - 1.
RECURSIVE Texts(_, _, _)
Texts(m, top, total) ==
  IF total = 0 \/ ~istext(Cell(m, top - 1)) THEN 0 ELSE 1 + Texts(m, top - 1, total - 1)

RECURSIVE luaV_concat(_, _, _, _)
luaV_concat(m, ra, total, last) ==
  LET top == CI(m).base + last + 1
      text(at) == luaV_tostring(Cell(m, at))
      n == IF text(top - 1) = << >> THEN 2 ELSE Texts(m, top, total)
      joined == FlattenSeq([j \in 1 .. n |-> text(top - n + j - 1)])
      m1 == Put(m, top - n, <<"string", joined>>)
  IN  IF total <= 1 THEN Put(m, ra, R(m, Ins(m).b))
      ELSE IF ~istext(Cell(m, top - 2)) \/ ~istext(Cell(m, top - 1))
      THEN call_binTM(m, Cell(m, top - 2), Cell(m, top - 1), "__concat",
                      TMres(top - 2, "concat", total - 1, last - 1), "concat")
      ELSE luaV_concat(m1, ra, total - (n - 1), last - (n - 1))

-----------------------------------------------------------------------------
(* The instructions *)

OP_MOVE == Executes("MOVE", LAMBDA m, i : Put(m, RA(m, i), R(m, i.b)))
OP_LOADK == Executes("LOADK", LAMBDA m, i : Put(m, RA(m, i), K(m, i.b)))
OP_LOADBOOL ==
  Executes("LOADBOOL", LAMBDA m, i : Skip(Put(m, RA(m, i), Bool(i.b # 0)), IF i.c # 0 THEN 1 ELSE 0))
OP_LOADNIL == Executes("LOADNIL", LAMBDA m, i : Clear(m, RA(m, i), CI(m).base + i.b + 1))

UpvalOf(m, x) == m.cl[Cell(m, CI(m).func)[2]].upvals[x + 1]
OP_GETUPVAL == Executes("GETUPVAL", LAMBDA m, i : Put(m, RA(m, i), upvalue(m, UpvalOf(m, i.b))))
OP_SETUPVAL == Executes("SETUPVAL", LAMBDA m, i : setupvalue(m, UpvalOf(m, i.b), Cell(m, RA(m, i))))

env == <<"table", 1>>
OP_GETGLOBAL == Executes("GETGLOBAL", LAMBDA m, i : luaV_gettable(m, env, K(m, i.b), RA(m, i)))
OP_SETGLOBAL == Executes("SETGLOBAL", LAMBDA m, i : luaV_settable(m, env, K(m, i.b), Cell(m, RA(m, i))))
OP_GETTABLE == Executes("GETTABLE", LAMBDA m, i : luaV_gettable(m, R(m, i.b), RK(m, i.c), RA(m, i)))
OP_SETTABLE == Executes("SETTABLE", LAMBDA m, i : luaV_settable(m, Cell(m, RA(m, i)), RK(m, i.b), RK(m, i.c)))
OP_NEWTABLE ==
  Executes("NEWTABLE", LAMBDA m, i :
    Put([m EXCEPT !.h = Append(@, [t |-> << >>, mt |-> 0])], RA(m, i), <<"table", Len(m.h) + 1>>))

OP_SELF ==
  Executes("SELF", LAMBDA m, i :
    luaV_gettable(Put(m, RA(m, i) + 1, R(m, i.b)), R(m, i.b), RK(m, i.c), RA(m, i)))

arith_op ==
  \E op \in Arithmetic : Executes(op, LAMBDA m, i : Arith(m, RA(m, i), RK(m, i.b), RK(m, i.c), op))
OP_UNM == Executes("UNM", LAMBDA m, i : Arith(m, RA(m, i), R(m, i.b), R(m, i.b), "UNM"))
OP_NOT == Executes("NOT", LAMBDA m, i : Put(m, RA(m, i), Bool(l_isfalse(R(m, i.b)))))

\* luaH_getn, for a table without holes.
luaH_getn(t) == Cardinality({k \in DOMAIN t : k[1] = "number"})
ObjectLength(m, v, ra) ==
  CASE v[1] = "table"  -> Put(m, ra, <<"number", luaH_getn(m.h[v[2]].t)>>)
    [] v[1] = "string" -> Put(m, ra, <<"number", Len(v[2])>>)
    [] OTHER           -> call_binTM(m, v, Nil, "__len", TMres(ra, "next", 0, 0), "length")
OP_LEN == Executes("LEN", LAMBDA m, i : ObjectLength(m, R(m, i.b), RA(m, i)))

OP_CONCAT == Executes("CONCAT", LAMBDA m, i : luaV_concat(m, RA(m, i), i.c - i.b + 1, i.c))

OP_JMP == Executes("JMP", LAMBDA m, i : Skip(m, i.b))
Compared(r, i) == IF r.known THEN dojump(r.m, r.holds = (i.a = 1)) ELSE r.m
OP_EQ == Executes("EQ", LAMBDA m, i : Compared(luaV_equalval(m, RK(m, i.b), RK(m, i.c)), i))
OP_LT == Executes("LT", LAMBDA m, i : Compared(luaV_lessthan(m, RK(m, i.b), RK(m, i.c)), i))
OP_LE == Executes("LE", LAMBDA m, i : Compared(lessequal(m, RK(m, i.b), RK(m, i.c)), i))
OP_TEST == Executes("TEST", LAMBDA m, i : dojump(m, l_isfalse(Cell(m, RA(m, i))) # (i.c = 1)))
OP_TESTSET ==
  Executes("TESTSET", LAMBDA m, i :
    IF l_isfalse(R(m, i.b)) # (i.c = 1) THEN dojump(Put(m, RA(m, i), R(m, i.b)), TRUE) ELSE dojump(m, FALSE))

SetN(m, n) == [m EXCEPT !.mode = "execute", !.cs[Len(m.cs)].n = n]

\* A Lua function runs in the same luaV_execute.
Counted(m) == IF m.mode = "lua" THEN SetN(m, Last(m.cs).n + 1) ELSE m
OP_CALL ==
  Executes("CALL", LAMBDA m, i :
    Counted(luaD_precall(IF i.b = 0 THEN m ELSE SetTop(m, RA(m, i) + i.b), RA(m, i), i.c - 1)))

\* The frame of the called function takes the place of the caller's.
TailCall(m) ==
  LET new == CI(m)
      old == Last(Front(Cur(m).ci))
      m1 == luaF_close(m, old.base)
      n == Cur(m).top - new.func
      base == old.func + (new.base - new.func)
      m2 == SetTop(Copy(m1, old.func, new.func, n), old.func + n)
      m3 == [m2 EXCEPT !.th[m.cur].ci = Front(@)]
  IN  Check(SetCI(m3, [old EXCEPT !.base = base, !.top = old.func + n, !.savedpc = 0, !.tailcalls = @ + 1]),
            old.func + n = base + Prototype(m, m.cl[Cell(m, new.func)[2]].p).maxstack)

Replaced(m) == IF m.mode = "lua" THEN SetN(TailCall(m), Last(m.cs).n) ELSE m
OP_TAILCALL ==
  Executes("TAILCALL", LAMBDA m, i :
    Replaced(luaD_precall(Check(IF i.b = 0 THEN m ELSE SetTop(m, RA(m, i) + i.b), i.c - 1 = LUA_MULTRET),
                          RA(m, i), LUA_MULTRET)))

\* Back to the caller in this luaV_execute, or out of it.
BackToLua(m, n) == Check(SetN(m, n), f_isLua(m) /\ Ins(m).op = "CALL")
Returned(m, nresults) ==
  IF Last(m.cs).n = 1 THEN [m EXCEPT !.mode = "ret", !.cs = Front(@)]
  ELSE BackToLua(IF nresults = LUA_MULTRET THEN m ELSE SetTop(m, CI(m).top), Last(m.cs).n - 1)
OP_RETURN ==
  Executes("RETURN", LAMBDA m, i :
    Returned(luaD_poscall(luaF_close(IF i.b = 0 THEN m ELSE SetTop(m, RA(m, i) + i.b - 1), CI(m).base), RA(m, i)),
             CI(m).nresults))

Loops(m, ra, idx, step, limit, jump) ==
  IF (IF 0 < step THEN idx <= limit ELSE limit <= idx)
  THEN Skip(Put(Put(m, ra, <<"number", idx>>), ra + 3, <<"number", idx>>), jump) ELSE m
OP_FORLOOP ==
  Executes("FORLOOP", LAMBDA m, i :
    LET x(n) == Cell(m, RA(m, i) + n)[2] IN Loops(m, RA(m, i), x(0) + x(2), x(2), x(1), i.b))

OP_FORPREP ==
  Executes("FORPREP", LAMBDA m, i :
    LET v(n) == luaV_tonumber(Cell(m, RA(m, i) + n))
        set(x, n, y) == Put(x, RA(m, i) + n, y)
    IN  IF \E n \in 0 .. 2 : v(n) = Nil THEN luaG_runerror(m, "for")
        ELSE Skip(set(set(set(m, 2, v(2)), 1, v(1)), 0, <<"number", v(0)[2] - v(2)[2]>>), i.b))

Iterate(m, cb, nresults) ==
  luaD_call([SetTop(Copy(m, cb, cb - 3, 3), cb + 3) EXCEPT !.cs = Append(@, [k |-> "tforloop"])], cb, nresults)
OP_TFORLOOP == Executes("TFORLOOP", LAMBDA m, i : Iterate(m, RA(m, i) + 3, i.c))

\* The iterator has returned.
AfterTFORLOOP(m) ==
  LET cb == RA(m, Ins(m)) + 3
      m1 == SetTop(m, CI(m).top)
      v == Cell(m, cb)
  IN  IF v = Nil THEN Skip(m1, 1) ELSE dojump(Put(m1, cb - 1, v), TRUE)

SetList(m, m1, ra, first, n) ==
  LET set(x, j) == [x EXCEPT !.h[Cell(m, ra)[2]].t = RawSet(@, <<"number", first + j>>, Cell(m, ra + j))]
  IN  FoldLeft(set, m1, [j \in 1 .. n |-> j])
OP_SETLIST ==
  Executes("SETLIST", LAMBDA m, i :
    LET m1 == IF i.b = 0 THEN SetTop(m, CI(m).top) ELSE m
        c == IF i.c = 0 THEN NextIns(m).a ELSE i.c
    IN  SetList(m, IF i.c = 0 THEN Skip(m1, 1) ELSE m1, RA(m, i), (c - 1) * LFIELDS_PER_FLUSH,
                IF i.b = 0 THEN Cur(m).top - RA(m, i) - 1 ELSE i.b))

OP_CLOSE == Executes("CLOSE", LAMBDA m, i : luaF_close(m, RA(m, i)))

\* The instructions that follow say where the upvalues are.
NewClosure(m, path, words, ra) ==
  LET upval(r, w) == Let(luaF_findupval(r.m, CI(m).base + w.b), LAMBDA f :
                       IF w.op = "GETUPVAL" THEN [r EXCEPT !.us = Append(@, UpvalOf(m, w.b))]
                       ELSE [m |-> Check(f.m, w.op = "MOVE"), us |-> Append(r.us, f.u)])
  IN  Let(FoldLeft(upval, [m |-> m, us |-> << >>], words), LAMBDA r :
        Skip(Put([r.m EXCEPT !.cl = Append(@, [p |-> path, upvals |-> r.us])], ra, <<"function", Len(r.m.cl) + 1>>),
             Len(words)))
OP_CLOSURE ==
  Executes("CLOSURE", LAMBDA m, i :
    LET path == Append(m.cl[Cell(m, CI(m).func)[2]].p, i.b + 1)
    IN  NewClosure(m, path, SubSeq(Code(m).code, CI(m).savedpc + 1, CI(m).savedpc + Prototype(m, path).nups), RA(m, i)))

Varargs(m, ci, ra, n, all, b) ==
  LET m1 == IF all THEN SetTop(luaD_checkstack(m, n), ra + n) ELSE m
      m2 == Copy(m1, ra, ci.base - n, IF b < n THEN b ELSE n)
  IN  IF b > n THEN Clear(m2, ra + n, ra + b) ELSE m2
OP_VARARG ==
  Executes("VARARG", LAMBDA m, i :
    LET n == CI(m).base - CI(m).func - Code(m).numparams - 1
        all == i.b - 1 = LUA_MULTRET
    IN  Varargs(m, CI(m), RA(m, i), n, all, IF all THEN n ELSE i.b - 1))

luaV_execute ==
  \/ OP_MOVE \/ OP_LOADK \/ OP_LOADBOOL \/ OP_LOADNIL \/ OP_GETUPVAL \/ OP_SETUPVAL \/ OP_GETGLOBAL \/ OP_SETGLOBAL
  \/ OP_GETTABLE \/ OP_SETTABLE \/ OP_NEWTABLE \/ OP_SELF \/ arith_op \/ OP_UNM \/ OP_NOT \/ OP_LEN \/ OP_CONCAT
  \/ OP_JMP \/ OP_EQ \/ OP_LT \/ OP_LE \/ OP_TEST \/ OP_TESTSET \/ OP_CALL \/ OP_TAILCALL \/ OP_RETURN
  \/ OP_FORLOOP \/ OP_FORPREP \/ OP_TFORLOOP \/ OP_SETLIST \/ OP_CLOSE \/ OP_CLOSURE \/ OP_VARARG

\* What luaV_execute does when a call it has made returns: the last entry of
\* the C stack says which.
ReturnTo(k) == lua.mode = "ret" /\ Last(lua.cs).k = k
Resumed(m) == [m EXCEPT !.mode = "execute"]

AfterCall ==
  /\ ReturnTo("execute")
  /\ Goes(Resumed(IF Ins(lua).op = "CALL" /\ Ins(lua).c - 1 >= 0 THEN SetTop(lua, CI(lua).top) ELSE lua))

AfterIterator == ReturnTo("tforloop") /\ Goes(Resumed(AfterTFORLOOP(Called(lua))))
AfterTM == ReturnTo("TM") /\ Goes(Resumed(Called(lua)))
AfterTMres ==
  LET e == Last(lua.cs)
      m1 == SetTop(Called(lua), Cur(lua).top - 1)
      m2 == Resumed(Put(m1, e.res, Cell(m1, Cur(m1).top)))
      holds == ~l_isfalse(Cell(m2, e.res))
  IN  /\ ReturnTo("TMres")
      /\ Goes(CASE e.then = "next"    -> m2
                [] e.then = "test"    -> dojump(m2, holds = (Ins(m2).a = 1))
                [] e.then = "testnot" -> dojump(m2, (~holds) = (Ins(m2).a = 1))
                [] e.then = "concat"  -> luaV_concat(m2, RA(m2, Ins(m2)), e.total, e.last))
=============================================================================
