------------------------------ MODULE LuaParser ------------------------------
(***************************************************************************)
(* Lua's parser (lparser.c), which calls the code generator as it goes.    *)
(*                                                                         *)
(* A token is a record of its kind t and, for names, numbers and strings,  *)
(* its value v; all tokens are on one line.  The state ls has              *)
(*   toks       the tokens that are left, the current one first            *)
(*   fs, prev   the function that is being read and those around it        *)
(*   level      the syntax levels that are open (L->nCcalls)               *)
(*   todo       what is still to be read or done: the calls on the C stack *)
(*              and where they continue, the innermost first               *)
(*   e, n       the expression, and how many, that was read last           *)
(* To what LuaCode has, the state of a function adds                       *)
(*   p          the functions defined in it                                *)
(*   actvar     the names of the local variables, active or declared       *)
(*   bl         the open blocks, the innermost last                        *)
(*   upvalues   name, kind and info of each upvalue                        *)
(*   numparams, is_vararg                                                  *)
(***************************************************************************)
EXTENDS LuaCode

CONSTANTS LUAI_MAXVARS, LUAI_MAXUPVALUES, LUAI_MAXCCALLS

EOS == [t |-> "<eof>", v |-> 0]
Tok(l) == Head(l.toks).t
Seminfo(l) == Head(l.toks).v
luaX_next(l) == [l EXCEPT !.toks = IF Len(@) = 1 THEN @ ELSE Tail(@)]
luaX_lookahead(l) == l.toks[2].t

Set(l, fs) == [l EXCEPT !.fs = fs]

luaX_syntaxerror(l, msg) == [l EXCEPT !.fs.err = IF @ = "none" THEN msg ELSE @]

\* For the operators of LuaCode that return a record.
With(l, r) == [l EXCEPT !.fs = r.fs, !.e = r.e]

testnext(l, c) == IF Tok(l) = c THEN luaX_next(l) ELSE l
checknext(l, c) == IF Tok(l) = c THEN luaX_next(l) ELSE luaX_syntaxerror(l, c)
str_checkname(l) == checknext(l, "name")

codestring(l, s) ==
  LET k == addk(l.fs, <<"string", s>>) IN [l EXCEPT !.fs = k.fs, !.e = init_exp("VK", k.l)]
checkname(l) == str_checkname(IF Tok(l) = "name" THEN codestring(l, Seminfo(l)) ELSE l)

enterlevel(l) ==
  LET n == l.level + 1
  IN  IF n > LUAI_MAXCCALLS THEN [luaX_syntaxerror(l, "chunk has too many syntax levels") EXCEPT !.level = n]
      ELSE [l EXCEPT !.level = n]
leavelevel(l) == [l EXCEPT !.level = @ - 1]

-----------------------------------------------------------------------------
(* Variables, blocks and functions *)

new_localvar(l, name, n) ==
  LET fs == l.fs
  IN  IF fs.nactvar + n + 1 > LUAI_MAXVARS THEN luaX_syntaxerror(l, "local variables")
      ELSE Set(l, [fs EXCEPT !.actvar = Append(SubSeq(@, 1, fs.nactvar + n), name)])

adjustlocalvars(l, nvars) == Set(l, [l.fs EXCEPT !.nactvar = @ + nvars])
removevars(fs, tolevel) == [fs EXCEPT !.nactvar = IF @ > tolevel THEN tolevel ELSE @]

\* The innermost active variable of that name, or -1.
searchvar(fs, n) ==
  LET found == {i \in 0 .. fs.nactvar - 1 : fs.actvar[i + 1] = n}
  IN  IF found = {} THEN -1 ELSE CHOOSE i \in found : \A j \in found : j <= i

\* The block that declares the variable is left with OP_CLOSE.
markupval(fs, level) ==
  LET bs == {b \in DOMAIN fs.bl : fs.bl[b].nactvar <= level}
  IN  IF bs = {} THEN fs ELSE [fs EXCEPT !.bl[CHOOSE b \in bs : \A c \in bs : c <= b].upval = TRUE]

\* The upvalue's index is l.
indexupvalue(fs, name, k, info) ==
  LET same == {i \in DOMAIN fs.upvalues : fs.upvalues[i].k = k /\ fs.upvalues[i].info = info}
  IN  IF same # {} THEN [fs |-> Require(fs, \A i \in same : fs.upvalues[i].name = name), l |-> (CHOOSE i \in same : TRUE) - 1]
      ELSE IF Len(fs.upvalues) + 1 > LUAI_MAXUPVALUES THEN [fs |-> Fail(fs, "upvalues"), l |-> 0]
      ELSE [fs |-> [fs EXCEPT !.upvalues = Append(@, [name |-> name, k |-> k, info |-> info])], l |-> Len(fs.upvalues)]

\* The functions fs, the innermost last, of which level many matter.
RECURSIVE singlevaraux(_, _, _, _)
singlevaraux(fs, level, n, base) ==
  LET v == searchvar(fs[level], n)
      up == singlevaraux(fs, level - 1, n, FALSE)
      i == indexupvalue(up.fs[level], n, up.e.k, up.e.info)
  IN  IF level = 0 THEN [fs |-> fs, e |-> init_exp("VGLOBAL", NO_REG)]
      ELSE IF v >= 0 THEN [fs |-> IF base THEN fs ELSE [fs EXCEPT ![level] = markupval(@, v)], e |-> init_exp("VLOCAL", v)]
      ELSE IF up.e.k = "VGLOBAL" THEN up
      ELSE [fs |-> [up.fs EXCEPT ![level] = i.fs], e |-> init_exp("VUPVAL", i.l)]

singlevar(l) ==
  LET v == singlevaraux(Append(l.prev, l.fs), Len(l.prev) + 1, Seminfo(l), TRUE)
      l1 == luaX_next([l EXCEPT !.prev = Front(v.fs), !.fs = Last(v.fs)])
      k == addk(l1.fs, <<"string", Seminfo(l)>>)
  IN  IF Tok(l) # "name" THEN luaX_syntaxerror(l, "name")
      ELSE IF v.e.k = "VGLOBAL" THEN [l1 EXCEPT !.fs = k.fs, !.e = init_exp("VGLOBAL", k.l)]
      ELSE [l1 EXCEPT !.e = v.e]

adjust_assign(l, nvars, nexps, e) ==
  LET fs == l.fs
      extra == nvars - nexps
      open == IF extra + 1 < 0 THEN 0 ELSE extra + 1
      fs1 == luaK_setreturns(fs, e, open)
      fs2 == IF e.k = "VVOID" THEN fs ELSE luaK_exp2nextreg(fs, e).fs
  IN  Set(l, IF hasmultret(e.k) THEN (IF open > 1 THEN luaK_reserveregs(fs1, open - 1) ELSE fs1)
              ELSE IF extra > 0 THEN luaK_nil(luaK_reserveregs(fs2, extra), fs2.freereg, extra)
              ELSE fs2)

enterblock(l, isbreakable) ==
  LET fs == l.fs
  IN  Set(l, [Require(fs, fs.freereg = fs.nactvar) EXCEPT
                 !.bl = Append(@, [breaklist |-> NO_JUMP, nactvar |-> fs.nactvar,
                                   upval |-> FALSE, isbreakable |-> isbreakable])])

leaveblock(l) ==
  LET bl == Last(l.fs.bl)
      fs == removevars([l.fs EXCEPT !.bl = Front(@)], bl.nactvar)
      fs1 == IF bl.upval THEN luaK_codeABC(fs, "CLOSE", bl.nactvar, 0, 0) ELSE fs
      fs2 == Require(fs1, ~(bl.isbreakable /\ bl.upval) /\ bl.nactvar = fs1.nactvar)
  IN  Set(l, luaK_patchtohere([fs2 EXCEPT !.freereg = fs2.nactvar], bl.breaklist))

NewFunc == [code |-> << >>, lasttarget |-> -1, jpc |-> NO_JUMP, freereg |-> 0, k |-> << >>,
            p |-> << >>, nactvar |-> 0, actvar |-> << >>, bl |-> << >>, maxstack |-> 2,
            upvalues |-> << >>, numparams |-> 0, is_vararg |-> {}, err |-> "none", sound |-> TRUE]
open_func(l) == [l EXCEPT !.prev = Append(@, l.fs), !.fs = NewFunc]

Proto(fs) == [code |-> fs.code, k |-> fs.k, p |-> fs.p, nups |-> Len(fs.upvalues),
              numparams |-> fs.numparams, is_vararg |-> fs.is_vararg, maxstack |-> fs.maxstack]

\* The finished function stays the current one until pushclosure has used it.
close_func(l) ==
  LET fs == luaK_ret(removevars(l.fs, 0), 0, 0)
  IN  Set(l, Require(fs, (fs.err = "none" => luaG_checkcode(Proto(fs))) /\ fs.bl = << >>))

pushclosure(l) ==
  LET func == l.fs
      f == Fail(Require(Last(l.prev), func.sound), func.err)
      f1 == [f EXCEPT !.p = Append(@, Proto(func))]
      upval(fs, u) == luaK_codeABC(fs, IF u.k = "VLOCAL" THEN "MOVE" ELSE "GETUPVAL", 0, u.info, 0)
      f2 == FoldLeft(upval, luaK_codeABx(f1, "CLOSURE", 0, Len(f1.p) - 1), func.upvalues)
  IN  [l EXCEPT !.prev = Front(@), !.fs = f2, !.e = init_exp("VRELOCABLE", pc(f1))]

-----------------------------------------------------------------------------
(* The parser's stack *)

VARIABLE ls

Goal(t) == ls.todo # << >> /\ Head(ls.todo)[1] = t
goal == Head(ls.todo)
rest == [ls EXCEPT !.todo = Tail(@)]
Todo(l, goals) == [l EXCEPT !.todo = goals \o @]

\* An error ends the parse.
Does(l) == ls' = IF l.fs.err = "none" THEN l ELSE [l EXCEPT !.todo = << >>]

expr == <<"subexpr", 0>>
explist1 == <<expr, <<"explist1", 1>>>>
primaryexp == <<<<"prefixexp">>, <<"suffixes">>>>
chunk == <<"chunk">>
block == <<"block">>

Expect == Goal("expect") /\ Does(checknext(rest, goal[2]))

-----------------------------------------------------------------------------
(* Expressions *)

field(l) ==
  Let(With(l, luaK_exp2anyreg(l.fs, l.e)), LAMBDA t :
  Let(checkname(luaX_next(t)), LAMBDA key : With(key, luaK_indexed(key.fs, t.e, key.e))))

\* The end of yindex.
Bracket == Goal("]") /\ Does(checknext(With(rest, luaK_exp2val(ls.fs, ls.e)), "]"))
Indexed == Goal("index") /\ Does(With(rest, luaK_indexed(ls.fs, goal[2], ls.e)))

\* Constructors: cc has the last item v, the table t, the pc of its OP_NEWTABLE,
\* and na, nh, tostore.
constructor(l) ==
  LET cc(t) == [v |-> init_exp("VVOID", 0), t |-> t, pc |-> pc(l.fs), na |-> 0, nh |-> 0, tostore |-> 0]
  IN  Let(luaK_exp2nextreg(luaK_codeABC(l.fs, "NEWTABLE", 0, 0, 0), init_exp("VRELOCABLE", pc(l.fs))), LAMBDA r :
        Todo(checknext(Set(l, r.fs), "{"), <<<<"item", cc(r.e)>>>>))

closelistfield(fs, cc) ==
  LET full == cc.tostore = LFIELDS_PER_FLUSH
  IN  IF cc.v.k = "VVOID" THEN [fs |-> fs, cc |-> cc]
      ELSE Let(luaK_exp2nextreg(fs, cc.v), LAMBDA r :
             [fs |-> IF full THEN luaK_setlist(r.fs, cc.t.info, cc.na, cc.tostore) ELSE r.fs,
              cc |-> [cc EXCEPT !.v.k = "VVOID", !.tostore = IF full THEN 0 ELSE @]])

lastlistfield(fs, cc) ==
  IF cc.tostore = 0 THEN fs
  ELSE luaK_setlist(CASE hasmultret(cc.v.k) -> luaK_setreturns(fs, cc.v, LUA_MULTRET)
                      [] cc.v.k = "VVOID"   -> fs
                      [] OTHER              -> luaK_exp2nextreg(fs, cc.v).fs,
                    cc.t.info, cc.na, IF hasmultret(cc.v.k) THEN LUA_MULTRET ELSE cc.tostore)

Item ==
  /\ Goal("item")
  /\ LET sound == Require(ls.fs, goal[2].v.k = "VVOID" \/ goal[2].tostore > 0)
         recfield(c) == <<"key", c.cc, c.fs.freereg>>
     IN  Does(IF Tok(ls) = "}" THEN Todo(Set(rest, sound), <<<<"endconstructor", goal[2]>>>>)
              ELSE Let(closelistfield(sound, goal[2]), LAMBDA c :
                   Let(Set(rest, c.fs), LAMBDA l :
                     CASE Tok(ls) = "[" -> Todo(luaX_next(l), <<expr, <<"]">>, recfield(c)>>)
                       [] Tok(ls) = "name" /\ luaX_lookahead(ls) = "=" -> Todo(checkname(l), <<recfield(c)>>)
                       [] OTHER -> Todo(l, <<expr, <<"listfield", c.cc>>>>))))

\* `do ... while' in constructor.
NextItem(l, cc) ==
  IF Tok(l) \in {",", ";"} THEN Todo(luaX_next(l), <<<<"item", cc>>>>) ELSE Todo(l, <<<<"endconstructor", cc>>>>)

ListField ==
  /\ Goal("listfield")
  /\ Does(NextItem(rest, [goal[2] EXCEPT !.v = ls.e, !.na = @ + 1, !.tostore = @ + 1]))

RecField ==
  /\ Goal("key")
  /\ Does(Let(checknext(rest, "="), LAMBDA l :
          Let(luaK_exp2RK(l.fs, ls.e), LAMBDA key :
            Todo(Set(l, key.fs), <<expr, <<"recfield", goal[2], goal[3], key.rk>>>>))))
RecValue ==
  /\ Goal("recfield")
  /\ Does(Let(luaK_exp2RK(ls.fs, ls.e), LAMBDA val :
            NextItem(Set(rest, [luaK_codeABC(val.fs, "SETTABLE", goal[2].t.info, goal[4], val.rk) EXCEPT !.freereg = goal[3]]),
                     [goal[2] EXCEPT !.nh = @ + 1])))

\* luaO_int2fb and luaO_fb2int only size the table: the operands are the counts.
EndConstructor ==
  /\ Goal("endconstructor")
  /\ LET cc == goal[2]
         l == checknext(rest, "}")
         na == IF cc.tostore > 0 /\ hasmultret(cc.v.k) THEN cc.na - 1 ELSE cc.na
     IN  Does([l EXCEPT !.e = cc.t,
                        !.fs = [lastlistfield(l.fs, cc) EXCEPT !.code[cc.pc + 1].b = na, !.code[cc.pc + 1].c = cc.nh]])

\* LUA_COMPAT_VARARG is defined: `...' declares a variable arg.
RECURSIVE params(_, _)
params(l, n) ==
  LET l1 == new_localvar(luaX_next(l), Seminfo(l), n)
      l2 == new_localvar(luaX_next(l), <<"arg">>, n)
  IN  CASE Tok(l) = "name" -> IF Tok(l1) = "," THEN params(luaX_next(l1), n + 1) ELSE [l |-> l1, n |-> n + 1]
        [] Tok(l) = "..."  -> [l |-> Set(l2, [l2.fs EXCEPT !.is_vararg = {"HASARG", "NEEDSARG", "ISVARARG"}]), n |-> n + 1]
        [] OTHER -> [l |-> luaX_syntaxerror(l, "parameter"), n |-> n]

parlist(l) ==
  LET r == IF Tok(l) = ")" THEN [l |-> l, n |-> 0] ELSE params(l, 0)
      fs == adjustlocalvars(r.l, r.n).fs
      hasarg == IF "HASARG" \in fs.is_vararg THEN 1 ELSE 0
  IN  Set(r.l, luaK_reserveregs([fs EXCEPT !.numparams = fs.nactvar - hasarg], fs.nactvar))

body(l, needself) ==
  LET l1 == checknext(open_func(l), "(")
      l2 == IF needself THEN adjustlocalvars(new_localvar(l1, <<"self">>, 0), 1) ELSE l1
  IN  Todo(checknext(parlist(l2), ")"), <<chunk, <<"endbody">>>>)
EndBody == Goal("endbody") /\ Does(pushclosure(close_func(checknext(rest, "end"))))

\* The number of expressions; all but the last are in registers.
ExpList ==
  /\ Goal("explist1")
  /\ Does(IF Tok(ls) = "," THEN Todo(luaX_next(With(rest, luaK_exp2nextreg(ls.fs, ls.e))), <<expr, <<"explist1", goal[2] + 1>>>>)
          ELSE [rest EXCEPT !.n = goal[2]])

\* The arguments of a call of f, with their expression last; VVOID when there
\* are none.
funcargs(l, f) ==
  LET call == <<"call", f>>
      l1 == luaX_next(l)
      void == [luaX_next(l1) EXCEPT !.e = init_exp("VVOID", 0)]
  IN  CASE Tok(l) = "(" -> IF Tok(l1) = ")" THEN Todo(void, <<call>>) ELSE Todo(l1, explist1 \o <<<<"closeargs">>, call>>)
        [] Tok(l) = "{" -> constructor(Todo(l, <<call>>))
        [] Tok(l) = "string" -> Todo(luaX_next(codestring(l, Seminfo(l))), <<call>>)
        [] OTHER -> luaX_syntaxerror(l, "function arguments expected")
CloseArgs == Goal("closeargs") /\ Does(checknext(Set(rest, luaK_setreturns(ls.fs, ls.e, LUA_MULTRET)), ")"))

FuncCall ==
  /\ Goal("call")
  /\ LET f == goal[2]
         open == hasmultret(ls.e.k)
     IN  Does(Let(IF ls.e.k = "VVOID" \/ open THEN ls.fs ELSE luaK_exp2nextreg(ls.fs, ls.e).fs, LAMBDA fs :
              Let(IF open THEN LUA_MULTRET ELSE fs.freereg - (f.info + 1), LAMBDA nparams :
                [rest EXCEPT !.fs = [luaK_codeABC(Require(fs, f.k = "VNONRELOC"), "CALL", f.info, nparams + 1, 2) EXCEPT
                                       !.freereg = f.info + 1],
                             !.e = init_exp("VCALL", pc(fs))])))

prefixexp ==
  /\ Goal("prefixexp")
  /\ Does(CASE Tok(ls) = "("    -> Todo(luaX_next(rest), <<expr, <<")">>>>)
            [] Tok(ls) = "name" -> singlevar(rest)
            [] OTHER            -> luaX_syntaxerror(rest, "unexpected symbol"))
Parenthesis == Goal(")") /\ LET l == checknext(rest, ")") IN Does(With(l, luaK_dischargevars(l.fs, l.e)))

\* The loop of primaryexp.
Suffixed ==
  /\ Goal("suffixes")
  /\ LET tok == Tok(ls)
     IN  Does(CASE tok = "." -> field(ls)
                [] tok = "[" -> Let(With(rest, luaK_exp2anyreg(ls.fs, ls.e)), LAMBDA t :
                                  Todo(luaX_next(t), <<expr, <<"]">>, <<"index", t.e>>, goal>>))
                [] tok \in {":", "(", "string", "{"} ->
                     Let(IF tok = ":" THEN checkname(luaX_next(ls)) ELSE ls, LAMBDA l :
                     Let(IF tok = ":" THEN luaK_self(l.fs, ls.e, l.e) ELSE luaK_exp2nextreg(ls.fs, ls.e), LAMBDA f :
                       funcargs(Set(l, f.fs), f.e)))
                [] OTHER -> rest)

simpleexp ==
  /\ Goal("simpleexp")
  /\ LET tok == Tok(ls)
         one(e) == [luaX_next(rest) EXCEPT !.e = e]
         dots == luaK_codeABC([ls.fs EXCEPT !.is_vararg = @ \ {"NEEDSARG"}], "VARARG", 0, 1, 0)
     IN  Does(CASE tok = "number" -> one([init_exp("VKNUM", 0) EXCEPT !.nval = Seminfo(ls)])
                [] tok = "string" -> luaX_next(codestring(rest, Seminfo(ls)))
                [] tok = "nil"    -> one(init_exp("VNIL", 0))
                [] tok = "true"   -> one(init_exp("VTRUE", 0))
                [] tok = "false"  -> one(init_exp("VFALSE", 0))
                [] tok = "..."    -> IF ls.fs.is_vararg = {} THEN luaX_syntaxerror(rest, "...")
                                     ELSE Set(one(init_exp("VVARARG", pc(ls.fs))), dots)
                [] tok = "{"      -> constructor(rest)
                [] tok = "function" -> body(luaX_next(rest), FALSE)
                [] OTHER          -> Todo(rest, primaryexp))

BinOps == {"or", "and", "<", ">", "<=", ">=", "~=", "==", "..", "+", "-", "*", "/", "%", "^"}
Priority == [o \in BinOps |-> CASE o = "or" -> <<1, 1>> [] o = "and" -> <<2, 2>>
                                [] o \in DOMAIN CompOp -> <<3, 3>> [] o = ".." -> <<5, 4>>
                                [] o \in {"+", "-"} -> <<6, 6>> [] o \in {"*", "/", "%"} -> <<7, 7>> [] o = "^" -> <<10, 9>>]
UNARY_PRIORITY == 8

subexpr ==
  /\ Goal("subexpr")
  /\ LET l == enterlevel(rest)
         loop == <<"binops", goal[2]>>
     IN  Does(IF Tok(l) \in {"not", "-", "#"}
              THEN Todo(luaX_next(l), <<<<"subexpr", UNARY_PRIORITY>>, <<"prefix", Tok(l)>>, loop>>)
              ELSE Todo(l, <<<<"simpleexp">>, loop>>))
Prefix == Goal("prefix") /\ Does(With(rest, luaK_prefix(ls.fs, goal[2], ls.e)))

\* The loop of subexpr, which ends at an operator with a priority up to limit.
Binops ==
  /\ Goal("binops")
  /\ LET op == Tok(ls)
     IN  Does(IF op \notin BinOps \/ Priority[op][1] <= goal[2] THEN leavelevel(rest)
              ELSE Let(luaK_infix(ls.fs, op, ls.e), LAMBDA v :
                     Todo(luaX_next(Set(rest, v.fs)), <<<<"subexpr", Priority[op][2]>>, <<"posfix", op, v.e>>, goal>>)))
Posfix == Goal("posfix") /\ Does(With(rest, luaK_posfix(ls.fs, goal[2], goal[3], ls.e)))

-----------------------------------------------------------------------------
(* Statements *)

block_follow(tok) == tok \in {"else", "elseif", "end", "until", "<eof>"}

Chunk == Goal("chunk") /\ Does(Todo(enterlevel(rest), <<<<"statements">>>>))

\* The loop of chunk, which ends after a return or a break.
Statements ==
  /\ Goal("statements")
  /\ LET islast == Tok(ls) \in {"return", "break"}
     IN  Does(IF block_follow(Tok(ls)) THEN leavelevel(rest) ELSE Todo(rest, <<<<"statement">>, <<"endstatement", islast>>>>))
EndStatement ==
  /\ Goal("endstatement")
  /\ LET l == testnext(rest, ";")
         fs == Require(l.fs, l.fs.maxstack >= l.fs.freereg /\ l.fs.freereg >= l.fs.nactvar)
         l1 == Set(l, [fs EXCEPT !.freereg = fs.nactvar])
     IN  Does(IF goal[2] THEN leavelevel(l1) ELSE Todo(l1, <<<<"statements">>>>))

Statement(toks) == Goal("statement") /\ Tok(ls) \in toks

dostat == Statement({"do"}) /\ Does(Todo(luaX_next(rest), <<block, <<"expect", "end">>>>))

Block == Goal("block") /\ Does(Todo(enterblock(rest, FALSE), <<chunk, <<"leaveblock">>>>))
LeaveBlock ==
  Goal("leaveblock") /\ Does(leaveblock(Set(rest, Require(ls.fs, Last(ls.fs.bl).breaklist = NO_JUMP))))

\* Defective: assignments that were read before use the variable itself.
check_conflict_none(l, lhs, v) == [l |-> l, lhs |-> lhs]

\* A local variable is assigned that earlier targets use as table or as key:
\* they get a copy of its value.
check_conflict(l, lhs, v) ==
  LET extra == l.fs.freereg
      hits(w) == w.k = "VINDEXED" /\ (w.info = v.info \/ w.aux = v.info)
      safe(w) == IF ~hits(w) THEN w
                 ELSE [w EXCEPT !.info = IF @ = v.info THEN extra ELSE @, !.aux = IF @ = v.info THEN extra ELSE @]
      conflict == \E i \in DOMAIN lhs : hits(lhs[i])
  IN  [l |-> IF conflict THEN Set(l, luaK_reserveregs(luaK_codeABC(l.fs, "MOVE", extra, v.info, 0), 1)) ELSE l,
       lhs |-> << >> \o [i \in DOMAIN lhs |-> safe(lhs[i])]]

exprstat ==
  /\ Goal("statement")
  /\ Tok(ls) \notin {"if", "while", "do", "for", "repeat", "function", "local", "return", "break"}
  /\ Does(Todo(rest, primaryexp \o <<<<"exprstat">>>>))
EndExprstat ==
  /\ Goal("exprstat")
  /\ Does(IF ls.e.k = "VCALL" THEN Set(rest, [ls.fs EXCEPT !.code[ls.e.info + 1].c = 1])
          ELSE Todo(rest, <<<<"assignment", <<ls.e>>>>>>))

\* The targets that have been read are lhs.
assignment ==
  /\ Goal("assignment")
  /\ LET lhs == goal[2]
     IN  Does(IF Last(lhs).k \notin {"VLOCAL", "VUPVAL", "VGLOBAL", "VINDEXED"} THEN luaX_syntaxerror(rest, "syntax error")
              ELSE IF Tok(ls) = "," THEN Todo(luaX_next(rest), primaryexp \o <<<<"target", lhs>>>>)
              ELSE Todo(checknext(rest, "="), explist1 \o <<<<"assign", lhs>>>>))
Target ==
  /\ Goal("target")
  /\ LET lhs == goal[2]
         c == IF ls.e.k = "VLOCAL" THEN check_conflict(rest, lhs, ls.e) ELSE [l |-> rest, lhs |-> lhs]
     IN  Does(IF Len(lhs) > LUAI_MAXCCALLS - ls.level THEN luaX_syntaxerror(c.l, "variables in assignment")
              ELSE Todo(c.l, <<<<"assignment", Append(c.lhs, ls.e)>>>>))
Assign ==
  /\ Goal("assign")
  /\ LET lhs == goal[2]
         extra == IF ls.n > Len(lhs) THEN ls.n - Len(lhs) ELSE 0
         default(fs) == init_exp("VNONRELOC", fs.freereg - 1)
         one == luaK_setoneret(ls.fs, ls.e)
         last == IF ls.n = Len(lhs) THEN one
                 ELSE Let([adjust_assign(ls, Len(lhs), ls.n, ls.e).fs EXCEPT !.freereg = @ - extra],
                          LAMBDA fs : [fs |-> fs, e |-> default(fs)])
         store(r, var) == Let(luaK_storevar(r.fs, var, r.e), LAMBDA fs : [fs |-> fs, e |-> default(fs)])
     IN  Does(Set(rest, FoldLeft(store, last, Reverse(lhs)).fs))

\* The jumps taken when the condition is false are the list f of its e.
cond(l) == With(l, luaK_goiftrue(l.fs, IF l.e.k = "VNIL" THEN [l.e EXCEPT !.k = "VFALSE"] ELSE l.e))

breakstat(l) ==
  LET fs == l.fs
      loops == {b \in DOMAIN fs.bl : fs.bl[b].isbreakable}
  IN  IF loops = {} THEN luaX_syntaxerror(l, "no loop to break")
      ELSE Let(CHOOSE b \in loops : \A c \in loops : c <= b, LAMBDA loop :
           Let(luaK_jump(IF \E b \in DOMAIN fs.bl : b > loop /\ fs.bl[b].upval
                         THEN luaK_codeABC(fs, "CLOSE", fs.bl[loop].nactvar, 0, 0) ELSE fs), LAMBDA j :
           Let(luaK_concat(j.fs, fs.bl[loop].breaklist, j.l), LAMBDA r :
             Set(l, [r.fs EXCEPT !.bl[loop].breaklist = r.l]))))
Break == Statement({"break"}) /\ Does(breakstat(luaX_next(rest)))

\* luaK_patchlist(fs, luaK_jump(fs), target)
jumpback(l, target) == Let(luaK_jump(l.fs), LAMBDA j : Set(l, luaK_patchlist(j.fs, j.l, target)))
patchtohere(l, list) == Set(l, luaK_patchtohere(l.fs, list))

whilestat ==
  Statement({"while"}) /\ Does(Todo(luaX_next(Set(rest, luaK_getlabel(ls.fs))), <<expr, <<"while", pc(ls.fs)>>>>))
WhileBody ==
  /\ Goal("while")
  /\ Does(Let(cond(rest), LAMBDA c : Todo(checknext(enterblock(c, TRUE), "do"), <<block, <<"endwhile", goal[2], c.e.f>>>>)))
EndWhile ==
  /\ Goal("endwhile")
  /\ Does(patchtohere(leaveblock(checknext(jumpback(rest, goal[2]), "end")), goal[3]))

repeatstat ==
  /\ Statement({"repeat"})
  /\ LET l == enterblock(enterblock(Set(rest, luaK_getlabel(ls.fs)), TRUE), FALSE)
     IN  Does(Todo(luaX_next(l), <<chunk, <<"expect", "until">>, expr, <<"until", pc(ls.fs)>>>>))
Until ==
  /\ Goal("until")
  /\ Does(Let(cond(rest), LAMBDA c :
       leaveblock(IF ~Last(c.fs.bl).upval THEN Let(leaveblock(c), LAMBDA l : Set(l, luaK_patchlist(l.fs, c.e.f, goal[2])))
                  ELSE jumpback(leaveblock(patchtohere(breakstat(c), c.e.f)), goal[2]))))

exp1 == Goal("exp1") /\ Does(With(rest, luaK_exp2nextreg(ls.fs, ls.e)))

forbody ==
  /\ Goal("forbody")
  /\ LET base == goal[2]
         nvars == goal[3]
         isnum == goal[4]
     IN  Does(Let(checknext(adjustlocalvars(rest, 3), "do"), LAMBDA l1 :
              Let(IF isnum THEN [fs |-> luaK_codeABx(l1.fs, "FORPREP", base, NO_JUMP), l |-> pc(l1.fs)] ELSE luaK_jump(l1.fs),
                  LAMBDA prep :
              Let(adjustlocalvars(enterblock(Set(l1, prep.fs), FALSE), nvars), LAMBDA l2 :
                Todo(Set(l2, luaK_reserveregs(l2.fs, nvars)), <<block, <<"endfor", base, nvars, isnum, prep.l>>>>)))))
EndForbody ==
  /\ Goal("endfor")
  /\ LET base == goal[2]
         prep == goal[5]
     IN  Does(Let(patchtohere(leaveblock(rest), prep), LAMBDA l :
                IF goal[4]
                THEN Set(l, luaK_patchlist(luaK_codeABx(l.fs, "FORLOOP", base, NO_JUMP), pc(l.fs), prep + 1))
                ELSE jumpback(Set(l, luaK_codeABC(l.fs, "TFORLOOP", base, 0, goal[3])), prep + 1)))

fornum(l, varname) ==
  LET l1 == new_localvar(new_localvar(new_localvar(l, <<"(for index)">>, 0), <<"(for limit)">>, 1), <<"(for step)">>, 2)
  IN  Todo(checknext(new_localvar(l1, varname, 3), "="),
           <<expr, <<"exp1">>, <<"expect", ",">>, expr, <<"exp1">>, <<"step", l.fs.freereg>>>>)
Step ==
  /\ Goal("step")
  /\ LET k == addk(ls.fs, <<"number", 1>>)
         one == luaK_reserveregs(luaK_codeABx(k.fs, "LOADK", k.fs.freereg, k.l), 1)
         forbodygoal == <<"forbody", goal[2], 1, TRUE>>
     IN  Does(IF Tok(ls) = "," THEN Todo(luaX_next(rest), <<expr, <<"exp1">>, forbodygoal>>)
              ELSE Todo(Set(rest, one), <<forbodygoal>>))

\* The names of the variables after the first; n have been declared.
RECURSIVE names(_, _)
names(l, n) ==
  IF Tok(l) = "," THEN names(new_localvar(str_checkname(luaX_next(l)), Seminfo(luaX_next(l)), n), n + 1)
  ELSE [l |-> l, n |-> n]

forlist(l, indexname) ==
  LET l1 == new_localvar(new_localvar(new_localvar(l, <<"(for generator)">>, 0), <<"(for state)">>, 1), <<"(for control)">>, 2)
      vs == names(new_localvar(l1, indexname, 3), 4)
  IN  Todo(checknext(vs.l, "in"), explist1 \o <<<<"in", l.fs.freereg, vs.n - 3>>>>)
In ==
  /\ Goal("in")
  /\ Does(Let(adjust_assign(rest, 3, ls.n, ls.e), LAMBDA l :
            Todo(Set(l, luaK_checkstack(l.fs, 3)), <<<<"forbody", goal[2], goal[3], FALSE>>>>)))

forstat ==
  /\ Statement({"for"})
  /\ LET l1 == luaX_next(enterblock(Todo(rest, <<<<"expect", "end">>, <<"leaveloop">>>>), TRUE))
         l2 == str_checkname(l1)
     IN  Does(CASE Tok(l2) = "="           -> fornum(l2, Seminfo(l1))
                [] Tok(l2) \in {",", "in"} -> forlist(l2, Seminfo(l1))
                [] OTHER                   -> luaX_syntaxerror(l2, "= or in expected"))
LeaveLoop == Goal("leaveloop") /\ Does(leaveblock(rest))

\* escape has the jumps to the end, flist those of the last condition.
ifstat == Statement({"if"}) /\ Does(Todo(luaX_next(rest), <<expr, <<"then", NO_JUMP>>>>))
test_then_block ==
  /\ Goal("then")
  /\ Does(Let(cond(rest), LAMBDA c : Todo(checknext(c, "then"), <<block, <<"else", c.e.f, goal[2]>>>>)))
Else ==
  /\ Goal("else")
  /\ LET flist == goal[2]
         escape == goal[3]
     IN  Does(IF Tok(ls) \in {"elseif", "else"}
              THEN Let(luaK_jump(ls.fs), LAMBDA j :
                   Let(luaK_concat(j.fs, escape, j.l), LAMBDA r :
                     Todo(luaX_next(patchtohere(Set(rest, r.fs), flist)),
                          IF Tok(ls) = "else" THEN <<block, <<"endif", r.l>>>> ELSE <<expr, <<"then", r.l>>>>)))
              ELSE Let(luaK_concat(ls.fs, escape, flist), LAMBDA r : Todo(Set(rest, r.fs), <<<<"endif", r.l>>>>)))
EndIf == Goal("endif") /\ Does(checknext(patchtohere(rest, goal[2]), "end"))

localfunc(l) ==
  Let(new_localvar(str_checkname(l), Seminfo(l), 0), LAMBDA l1 :
    body(adjustlocalvars(Set(Todo(l1, <<<<"storefunc", init_exp("VLOCAL", l1.fs.freereg)>>>>), luaK_reserveregs(l1.fs, 1)), 1),
         FALSE))
localstat(l) ==
  Let(names(new_localvar(str_checkname(l), Seminfo(l), 0), 1), LAMBDA vs :
    IF Tok(vs.l) = "=" THEN Todo(luaX_next(vs.l), explist1 \o <<<<"locals", vs.n>>>>)
    ELSE Todo([vs.l EXCEPT !.e = init_exp("VVOID", 0), !.n = 0], <<<<"locals", vs.n>>>>))
Local ==
  /\ Statement({"local"})
  /\ LET l == luaX_next(rest) IN Does(IF Tok(l) = "function" THEN localfunc(luaX_next(l)) ELSE localstat(l))
EndLocal == Goal("locals") /\ Does(adjustlocalvars(adjust_assign(rest, goal[2], ls.n, ls.e), goal[2]))

funcstat == Statement({"function"}) /\ Does(Todo(singlevar(luaX_next(rest)), <<<<"funcname">>>>))
funcname ==
  /\ Goal("funcname")
  /\ Does(Let(IF Tok(ls) \in {".", ":"} THEN field(ls) ELSE ls, LAMBDA l :
            IF Tok(ls) = "." THEN l
            ELSE body([l EXCEPT !.todo = <<<<"storefunc", l.e>>>> \o Tail(@)], Tok(ls) = ":")))
StoreFunc == Goal("storefunc") /\ Does(Set(rest, luaK_storevar(ls.fs, goal[2], ls.e)))

retstat ==
  /\ Statement({"return"})
  /\ LET l == luaX_next(rest)
     IN  Does(IF block_follow(Tok(l)) \/ Tok(l) = ";" THEN Set(l, luaK_ret(l.fs, 0, 0))
              ELSE Todo(l, explist1 \o <<<<"return">>>>))
Return ==
  /\ Goal("return")
  /\ LET e == ls.e
         open == luaK_setreturns(ls.fs, e, LUA_MULTRET)
         tail(fs) == [Require(fs, fs.code[e.info + 1].a = fs.nactvar) EXCEPT !.code[e.info + 1].op = "TAILCALL"]
         ret(fs, first, n) == [fs |-> fs, first |-> first, n |-> n]
         values == CASE hasmultret(e.k) -> ret(IF e.k = "VCALL" /\ ls.n = 1 THEN tail(open) ELSE open, ls.fs.nactvar, LUA_MULTRET)
                     [] ~hasmultret(e.k) /\ ls.n = 1 -> Let(luaK_exp2anyreg(ls.fs, e), LAMBDA r : ret(r.fs, r.e.info, 1))
                     [] OTHER -> Let(luaK_exp2nextreg(ls.fs, e).fs, LAMBDA fs :
                                   ret(Require(fs, ls.n = fs.freereg - fs.nactvar), fs.nactvar, ls.n))
     IN  Does(Let(values, LAMBDA r : Set(rest, luaK_ret(r.fs, r.first, r.n))))

-----------------------------------------------------------------------------

Parsing(toks) ==
  [toks |-> Append(toks, EOS), prev |-> << >>, fs |-> [NewFunc EXCEPT !.is_vararg = {"ISVARARG"}], level |-> 0,
   todo |-> <<chunk, <<"expect", "<eof>">>, <<"main">>>>, e |-> init_exp("VVOID", 0), n |-> 0]

Parsed == [Parsing(<< >>) EXCEPT !.todo = << >>]

\* The end of luaY_parser.
Main ==
  /\ Goal("main")
  /\ LET l == close_func(rest) IN Does(Set(l, Require(l.fs, l.prev = << >> /\ l.fs.upvalues = << >>)))

luaY_parser ==
  \/ Expect \/ Bracket \/ Indexed \/ Item \/ ListField \/ RecField \/ RecValue \/ EndConstructor \/ EndBody
  \/ ExpList \/ CloseArgs \/ FuncCall \/ prefixexp \/ Parenthesis \/ Suffixed \/ simpleexp \/ subexpr \/ Prefix
  \/ Binops \/ Posfix
  \/ Chunk \/ Statements \/ EndStatement \/ dostat \/ Block \/ LeaveBlock \/ exprstat \/ EndExprstat
  \/ assignment \/ Target \/ Assign \/ Break \/ whilestat \/ WhileBody \/ EndWhile \/ repeatstat \/ Until
  \/ exp1 \/ forbody \/ EndForbody \/ Step \/ In \/ forstat \/ LeaveLoop \/ ifstat \/ test_then_block \/ Else
  \/ EndIf \/ Local \/ EndLocal \/ funcstat \/ funcname \/ StoreFunc \/ retstat \/ Return \/ Main
=============================================================================
