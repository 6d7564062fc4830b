------------------------------- MODULE LuaCode -------------------------------
(***************************************************************************)
(* Lua's code generator (lcode.c) and its checker (luaG_checkcode in       *)
(* ldebug.c).  The parser (LuaParser) calls it while it reads a function.  *)
(*                                                                         *)
(* An instruction has its opcode and its operands a, b, c; b stands for Bx *)
(* and sBx as well.  The state fs of a function is a record; here matter   *)
(*   code        the instructions so far; the pc of the first is 0         *)
(*   lasttarget  the pc of the last jump target                            *)
(*   jpc         the list of pending jumps to the next instruction         *)
(*   freereg, nactvar, maxstack   the registers                            *)
(*   k           the constants                                             *)
(*   err         the error that stops the compilation, or "none"           *)
(*   sound       whether every lua_assert on the way has held              *)
(* A list of jumps is linked through the instructions' sBx, as in the code.*)
(* An expression e is described by its kind k, info, aux, its number nval, *)
(* and the lists t and f of the jumps taken when it is true or false.      *)
(* Operators that change both return them as a record [fs, e], and those   *)
(* that make a list of jumps or a constant one [fs, l].                    *)
(***************************************************************************)
EXTENDS Integers, SequencesExt

CONSTANTS MAXINDEXRK,          \* the last constant that fits into an operand
          MAXSTACK,            \* registers of a function
          MAXARG_sBx,          \* the longest jump
          MAXARG_C,
          LFIELDS_PER_FLUSH

\* Let(e, LAMBDA x : f(x)) is f(e), with e written and evaluated once.
Let(x, In(_)) == In(x)

NO_JUMP == -1
NO_REG == 255
LUA_MULTRET == -1
BITRK == 256
ISK(x) == x >= BITRK
INDEXK(x) == x - BITRK
RKASK(x) == x + BITRK

\* luaP_opmodes, by column.
TModes == {"EQ", "LT", "LE", "TEST", "TESTSET", "TFORLOOP"}
Arithmetic == {"ADD", "SUB", "MUL", "DIV", "MOD", "POW"}
BModeR == {"MOVE", "LOADNIL", "GETTABLE", "SELF", "UNM", "NOT", "LEN", "CONCAT", "TEST", "TESTSET"}
BModeK == {"SETTABLE", "EQ", "LT", "LE"} \cup Arithmetic
CModeK == {"GETTABLE", "SETTABLE", "SELF", "EQ", "LT", "LE"} \cup Arithmetic
testTMode(op) == op \in TModes

-----------------------------------------------------------------------------
(* Instructions and lists of jumps *)

pc(fs) == Len(fs.code)
At(fs, i) == fs.code[i + 1]

Require(fs, cond) == [fs EXCEPT !.sound = @ /\ cond]
Fail(fs, msg) == [fs EXCEPT !.err = IF @ = "none" THEN msg ELSE @]

luaK_getlabel(fs) == [fs EXCEPT !.lasttarget = pc(fs)]

getjump(fs, i) == IF At(fs, i).b = NO_JUMP THEN NO_JUMP ELSE i + 1 + At(fs, i).b

RECURSIVE jumps(_, _)
jumps(fs, list) == IF list = NO_JUMP THEN << >> ELSE <<list>> \o jumps(fs, getjump(fs, list))

getjumpcontrol(fs, i) == IF i >= 1 /\ testTMode(At(fs, i - 1).op) THEN i - 1 ELSE i

need_value(fs, list) ==
  \E node \in Range(jumps(fs, list)) : At(fs, getjumpcontrol(fs, node)).op # "TESTSET"

fixjump(fs, i, dest) ==
  IF dest - (i + 1) \notin -MAXARG_sBx .. MAXARG_sBx THEN Fail(Require(fs, dest # NO_JUMP), "control structure too long")
  ELSE [Require(fs, dest # NO_JUMP) EXCEPT !.code[i + 1].b = dest - (i + 1)]

\* Whether a value goes with the jump, and the test made to put it into reg.
istestset(fs, node) == At(fs, getjumpcontrol(fs, node)).op = "TESTSET"
patchtestreg(fs, node, reg) ==
  LET at == getjumpcontrol(fs, node)
  IN  IF At(fs, at).op # "TESTSET" THEN fs
      ELSE IF reg # NO_REG /\ reg # At(fs, at).b THEN [fs EXCEPT !.code[at + 1].a = reg]
      ELSE [fs EXCEPT !.code[at + 1] = [op |-> "TEST", a |-> @.b, b |-> 0, c |-> @.c]]

RECURSIVE removevalues(_, _)
removevalues(fs, list) ==
  IF list = NO_JUMP THEN fs ELSE removevalues(patchtestreg(fs, list, NO_REG), getjump(fs, list))

RECURSIVE patchlistaux(_, _, _, _, _)
patchlistaux(fs, list, vtarget, reg, dtarget) ==
  IF list = NO_JUMP THEN fs
  ELSE patchlistaux(fixjump(patchtestreg(fs, list, reg), list, IF istestset(fs, list) THEN vtarget ELSE dtarget),
                    getjump(fs, list), vtarget, reg, dtarget)

dischargejpc(fs) == [patchlistaux(fs, fs.jpc, pc(fs), NO_REG, pc(fs)) EXCEPT !.jpc = NO_JUMP]

\* The new instruction has the pc that pc(fs) was before.
luaK_code(fs, i) == [dischargejpc(fs) EXCEPT !.code = Append(@, i)]

luaK_codeABC(fs, op, a, b, c) == luaK_code(fs, [op |-> op, a |-> a, b |-> b, c |-> c])
luaK_codeABx(fs, op, a, bx) == luaK_codeABC(fs, op, a, bx, 0)

\* The joined list is l.
luaK_concat(fs, l1, l2) ==
  IF l2 = NO_JUMP THEN [fs |-> fs, l |-> l1]
  ELSE IF l1 = NO_JUMP THEN [fs |-> fs, l |-> l2]
  ELSE [fs |-> fixjump(fs, Last(jumps(fs, l1)), l2), l |-> l1]

luaK_jump(fs) == luaK_concat(luaK_codeABx([fs EXCEPT !.jpc = NO_JUMP], "JMP", 0, NO_JUMP), pc(fs), fs.jpc)

luaK_patchtohere(fs, list) ==
  Let(luaK_concat(luaK_getlabel(fs), fs.jpc, list), LAMBDA r : [r.fs EXCEPT !.jpc = r.l])

luaK_patchlist(fs, list, target) ==
  IF target = pc(fs) THEN luaK_patchtohere(fs, list)
  ELSE patchlistaux(Require(fs, target < pc(fs)), list, target, NO_REG, target)

luaK_ret(fs, first, nret) == luaK_codeABC(fs, "RETURN", first, nret + 1, 0)

condjump(fs, op, a, b, c) == luaK_jump(luaK_codeABC(fs, op, a, b, c))

luaK_nil(fs, from, n) ==
  LET prev == At(fs, pc(fs) - 1)
      straight == pc(fs) > fs.lasttarget
  IN  IF straight /\ pc(fs) = 0 /\ from >= fs.nactvar THEN fs
      ELSE IF straight /\ pc(fs) > 0 /\ prev.op = "LOADNIL" /\ prev.a <= from /\ from <= prev.b + 1
      THEN [fs EXCEPT !.code[pc(fs)].b = IF from + n - 1 > @ THEN from + n - 1 ELSE @]
      ELSE luaK_codeABC(fs, "LOADNIL", from, from + n - 1, 0)

-----------------------------------------------------------------------------
(* Registers and constants *)

luaK_checkstack(fs, n) ==
  LET newstack == fs.freereg + n
  IN  IF newstack <= fs.maxstack THEN fs
      ELSE IF newstack >= MAXSTACK THEN Fail(fs, "function or expression too complex")
      ELSE [fs EXCEPT !.maxstack = newstack]

luaK_reserveregs(fs, n) == [luaK_checkstack(fs, n) EXCEPT !.freereg = @ + n]

freereg(fs, reg) ==
  IF ISK(reg) \/ reg < fs.nactvar THEN fs
  ELSE Require([fs EXCEPT !.freereg = @ - 1], reg = fs.freereg - 1)

freeexp(fs, e) == IF e.k = "VNONRELOC" THEN freereg(fs, e.info) ELSE fs

\* addk: the index of the constant in k is l.
addk(fs, v) ==
  IF \E i \in DOMAIN fs.k : fs.k[i] = v
  THEN [fs |-> fs, l |-> (CHOOSE i \in DOMAIN fs.k : fs.k[i] = v) - 1]
  ELSE [fs |-> [fs EXCEPT !.k = Append(@, v)], l |-> Len(fs.k)]

-----------------------------------------------------------------------------
(* Expressions *)

init_exp(k, i) == [k |-> k, info |-> i, aux |-> 0, nval |-> 0, t |-> NO_JUMP, f |-> NO_JUMP]
hasjumps(e) == e.t # e.f
isnumeral(e) == e.k = "VKNUM" /\ e.t = NO_JUMP /\ e.f = NO_JUMP
hasmultret(k) == k \in {"VCALL", "VVARARG"}

luaK_setreturns(fs, e, nresults) ==
  CASE e.k = "VCALL"   -> [fs EXCEPT !.code[e.info + 1].c = nresults + 1]
    [] e.k = "VVARARG" -> luaK_reserveregs([fs EXCEPT !.code[e.info + 1].b = nresults + 1,
                                                      !.code[e.info + 1].a = fs.freereg], 1)
    [] OTHER           -> fs

luaK_setoneret(fs, e) ==
  CASE e.k = "VCALL"   -> [fs |-> fs, e |-> [e EXCEPT !.k = "VNONRELOC", !.info = At(fs, e.info).a]]
    [] e.k = "VVARARG" -> [fs |-> [fs EXCEPT !.code[e.info + 1].b = 2], e |-> [e EXCEPT !.k = "VRELOCABLE"]]
    [] OTHER           -> [fs |-> fs, e |-> e]

GetOp == "VUPVAL" :> "GETUPVAL" @@ "VGLOBAL" :> "GETGLOBAL" @@ "VINDEXED" :> "GETTABLE"

luaK_dischargevars(fs, e) ==
  CASE e.k = "VLOCAL" -> [fs |-> fs, e |-> [e EXCEPT !.k = "VNONRELOC"]]
    [] e.k \in DOMAIN GetOp ->
         [fs |-> luaK_codeABC(IF e.k = "VINDEXED" THEN freereg(freereg(fs, e.aux), e.info) ELSE fs,
                              GetOp[e.k], 0, e.info, IF e.k = "VINDEXED" THEN e.aux ELSE 0),
          e |-> [e EXCEPT !.k = "VRELOCABLE", !.info = pc(fs)]]
    [] OTHER -> luaK_setoneret(fs, e)

code_label(fs, a, b, jump) == luaK_codeABC(luaK_getlabel(fs), "LOADBOOL", a, b, jump)

\* The code that loads e, which has been discharged, into reg.
load(fs, e, reg) ==
  CASE e.k = "VNIL"               -> luaK_nil(fs, reg, 1)
    [] e.k \in {"VFALSE", "VTRUE"} -> luaK_codeABC(fs, "LOADBOOL", reg, IF e.k = "VTRUE" THEN 1 ELSE 0, 0)
    [] e.k \in {"VK", "VKNUM"}     -> Let(IF e.k = "VK" THEN [fs |-> fs, l |-> e.info] ELSE addk(fs, <<"number", e.nval>>),
                                          LAMBDA k : luaK_codeABx(k.fs, "LOADK", reg, k.l))
    [] e.k = "VRELOCABLE"         -> [fs EXCEPT !.code[e.info + 1].a = reg]
    [] e.k = "VNONRELOC"          -> IF reg # e.info THEN luaK_codeABC(fs, "MOVE", reg, e.info, 0) ELSE fs

discharge2reg(fs, e, reg) ==
  Let(luaK_dischargevars(fs, e), LAMBDA d :
    IF d.e.k \in {"VVOID", "VJMP"} THEN d
    ELSE [fs |-> load(d.fs, d.e, reg), e |-> [d.e EXCEPT !.info = reg, !.k = "VNONRELOC"]])

discharge2anyreg(fs, e) ==
  IF e.k = "VNONRELOC" THEN [fs |-> fs, e |-> e] ELSE discharge2reg(luaK_reserveregs(fs, 1), e, fs.freereg)

\* The end of exp2reg: the jumps of the lists t and f arrive with a value in
\* reg, or get one there.
final(fs, t, f, reg, isjmp) ==
  Let(need_value(fs, t) \/ need_value(fs, f), LAMBDA need :
  Let(IF need /\ ~isjmp THEN luaK_jump(fs) ELSE [fs |-> fs, l |-> NO_JUMP], LAMBDA fj :
  Let(luaK_getlabel(IF need THEN luaK_patchtohere(code_label(code_label(fj.fs, reg, 0, 1), reg, 1, 0), fj.l) ELSE fs), LAMBDA end :
    patchlistaux(patchlistaux(end, f, pc(end), reg, IF need THEN pc(fj.fs) ELSE NO_JUMP),
                 t, pc(end), reg, IF need THEN pc(fj.fs) + 1 ELSE NO_JUMP))))

exp2reg(fs, e, reg) ==
  Let(discharge2reg(fs, e, reg), LAMBDA d :
  Let(IF d.e.k = "VJMP" THEN luaK_concat(d.fs, d.e.t, d.e.info) ELSE [fs |-> d.fs, l |-> d.e.t], LAMBDA t :
    [fs |-> IF t.l # d.e.f THEN final(t.fs, t.l, d.e.f, reg, d.e.k = "VJMP") ELSE t.fs, e |-> init_exp("VNONRELOC", reg)]))

luaK_exp2nextreg(fs, e) ==
  Let(luaK_dischargevars(fs, e), LAMBDA d :
  Let(luaK_reserveregs(freeexp(d.fs, d.e), 1), LAMBDA g : exp2reg(g, d.e, g.freereg - 1)))

\* The register is the info of the expression.
luaK_exp2anyreg(fs, e) ==
  Let(luaK_dischargevars(fs, e), LAMBDA d :
    IF d.e.k = "VNONRELOC" /\ ~hasjumps(d.e) THEN d
    ELSE IF d.e.k = "VNONRELOC" /\ d.e.info >= d.fs.nactvar THEN exp2reg(d.fs, d.e, d.e.info)
    ELSE luaK_exp2nextreg(d.fs, d.e))

luaK_exp2val(fs, e) == IF hasjumps(e) THEN luaK_exp2anyreg(fs, e) ELSE luaK_dischargevars(fs, e)

\* The operand, a register or a constant, is rk.
luaK_exp2RK(fs, e) ==
  LET const(v) == CASE v.k = "VNIL"   -> <<"nil">>
                    [] v.k = "VTRUE"  -> <<"boolean", TRUE>>
                    [] v.k = "VFALSE" -> <<"boolean", FALSE>>
                    [] v.k = "VKNUM"  -> <<"number", v.nval>>
  IN  Let(luaK_exp2val(fs, e), LAMBDA v :
        IF v.e.k \in {"VNIL", "VTRUE", "VFALSE", "VKNUM"} /\ Len(v.fs.k) <= MAXINDEXRK
        THEN Let(addk(v.fs, const(v.e)), LAMBDA k :
               [fs |-> k.fs, e |-> [v.e EXCEPT !.k = "VK", !.info = k.l], rk |-> RKASK(k.l)])
        ELSE IF v.e.k = "VK" /\ v.e.info <= MAXINDEXRK
        THEN [fs |-> v.fs, e |-> v.e, rk |-> RKASK(v.e.info)]
        ELSE Let(luaK_exp2anyreg(v.fs, v.e), LAMBDA r : [fs |-> r.fs, e |-> r.e, rk |-> r.e.info]))

luaK_storevar(fs, var, ex) ==
  CASE var.k = "VLOCAL" -> exp2reg(freeexp(fs, ex), ex, var.info).fs
    [] var.k \in {"VUPVAL", "VGLOBAL"} ->
         Let(luaK_exp2anyreg(fs, ex), LAMBDA r :
           freeexp(luaK_codeABx(r.fs, IF var.k = "VUPVAL" THEN "SETUPVAL" ELSE "SETGLOBAL", r.e.info, var.info), r.e))
    [] var.k = "VINDEXED" ->
         Let(luaK_exp2RK(fs, ex), LAMBDA r : freeexp(luaK_codeABC(r.fs, "SETTABLE", var.info, var.aux, r.rk), r.e))

luaK_self(fs, e, key) ==
  Let(luaK_exp2anyreg(fs, e), LAMBDA t :
  Let(freeexp(t.fs, t.e), LAMBDA g :
  Let(luaK_exp2RK(luaK_reserveregs(g, 2), key), LAMBDA r :
    [fs |-> freeexp(luaK_codeABC(r.fs, "SELF", g.freereg, t.e.info, r.rk), r.e),
     e |-> [t.e EXCEPT !.info = g.freereg, !.k = "VNONRELOC"]])))

luaK_indexed(fs, t, k) ==
  Let(luaK_exp2RK(fs, k), LAMBDA r : [fs |-> r.fs, e |-> [t EXCEPT !.aux = r.rk, !.k = "VINDEXED"]])

-----------------------------------------------------------------------------
(* Operators *)

invertjump(fs, e) ==
  Let(getjumpcontrol(fs, e.info), LAMBDA at :
    [Require(fs, At(fs, at).op \in TModes \ {"TESTSET", "TEST"}) EXCEPT !.code[at + 1].a = 1 - @])

\* The jump, taken when e is cond, is l.
jumponcond(fs, e, cond) ==
  IF e.k = "VRELOCABLE" /\ At(fs, e.info).op = "NOT"
  THEN condjump([fs EXCEPT !.code = Front(@)], "TEST", At(fs, e.info).b, 0, 1 - cond)
  ELSE Let(discharge2anyreg(fs, e), LAMBDA d : condjump(freeexp(d.fs, d.e), "TESTSET", NO_REG, d.e.info, cond))

luaK_goiftrue(fs, e) ==
  Let(luaK_dischargevars(fs, e), LAMBDA d :
  Let(CASE d.e.k \in {"VK", "VKNUM", "VTRUE"} -> [fs |-> d.fs, l |-> NO_JUMP]
        [] d.e.k = "VFALSE"                   -> luaK_jump(d.fs)
        [] d.e.k = "VJMP"                     -> [fs |-> invertjump(d.fs, d.e), l |-> d.e.info]
        [] OTHER                              -> jumponcond(d.fs, d.e, 0), LAMBDA j :
  Let(luaK_concat(j.fs, d.e.f, j.l), LAMBDA f :
    [fs |-> luaK_patchtohere(f.fs, d.e.t), e |-> [d.e EXCEPT !.f = f.l, !.t = NO_JUMP]])))

luaK_goiffalse(fs, e) ==
  Let(luaK_dischargevars(fs, e), LAMBDA d :
  Let(CASE d.e.k \in {"VNIL", "VFALSE"} -> [fs |-> d.fs, l |-> NO_JUMP]
        [] d.e.k = "VTRUE"              -> luaK_jump(d.fs)
        [] d.e.k = "VJMP"               -> [fs |-> d.fs, l |-> d.e.info]
        [] OTHER                        -> jumponcond(d.fs, d.e, 1), LAMBDA j :
  Let(luaK_concat(j.fs, d.e.t, j.l), LAMBDA t :
    [fs |-> luaK_patchtohere(t.fs, d.e.f), e |-> [d.e EXCEPT !.t = t.l, !.f = NO_JUMP]])))

codenot(fs, e) ==
  Let(luaK_dischargevars(fs, e), LAMBDA d :
  Let(CASE d.e.k \in {"VNIL", "VFALSE"}       -> [fs |-> d.fs, e |-> [d.e EXCEPT !.k = "VTRUE"]]
        [] d.e.k \in {"VK", "VKNUM", "VTRUE"} -> [fs |-> d.fs, e |-> [d.e EXCEPT !.k = "VFALSE"]]
        [] d.e.k = "VJMP"                     -> [fs |-> invertjump(d.fs, d.e), e |-> d.e]
        [] d.e.k \in {"VRELOCABLE", "VNONRELOC"} ->
             Let(discharge2anyreg(d.fs, d.e), LAMBDA r :
               [fs |-> luaK_codeABC(freeexp(r.fs, r.e), "NOT", 0, r.e.info, 0),
                e |-> [r.e EXCEPT !.k = "VRELOCABLE", !.info = pc(r.fs)]]), LAMBDA r :
    [fs |-> removevalues(removevalues(r.fs, r.e.t), r.e.f), e |-> [r.e EXCEPT !.t = r.e.f, !.f = r.e.t]]))

\* The arithmetic of luaconf.h on integers; DIV is used where it is exact.
numop(op, a, b) ==
  CASE op = "ADD" -> a + b
    [] op = "SUB" -> a - b
    [] op = "MUL" -> a * b
    [] op = "DIV" -> a \div b
    [] op = "MOD" -> a % b
    [] op = "POW" -> a ^ b
    [] op = "UNM" -> -a

canfold(op, e1, e2) == isnumeral(e1) /\ isnumeral(e2) /\ op # "LEN" /\ ~(op \in {"DIV", "MOD"} /\ e2.nval = 0)

Folded(fs, op, e1, e2) == [fs |-> fs, e |-> [e1 EXCEPT !.nval = numop(op, e1.nval, e2.nval)]]
SecondRK(fs, op, e2) == IF op \in {"UNM", "LEN"} THEN [fs |-> fs, e |-> e2, rk |-> 0] ELSE luaK_exp2RK(fs, e2)

\* Defective: the operands are freed in the order of the text.
codearith_free(fs, op, e1, e2) ==
  IF canfold(op, e1, e2) THEN Folded(fs, op, e1, e2)
  ELSE Let(SecondRK(fs, op, e2), LAMBDA o2 :
       Let(luaK_exp2RK(o2.fs, e1), LAMBDA o1 :
         [fs |-> luaK_codeABC(freeexp(freeexp(o1.fs, o1.e), o2.e), op, 0, o1.rk, o2.rk),
          e |-> [o1.e EXCEPT !.k = "VRELOCABLE", !.info = pc(o1.fs)]]))

codearith(fs, op, e1, e2) ==
  IF canfold(op, e1, e2) THEN Folded(fs, op, e1, e2)
  ELSE Let(SecondRK(fs, op, e2), LAMBDA o2 :
       Let(luaK_exp2RK(o2.fs, e1), LAMBDA o1 :
         [fs |-> luaK_codeABC(IF o1.rk > o2.rk THEN freeexp(freeexp(o1.fs, o1.e), o2.e) ELSE freeexp(freeexp(o1.fs, o2.e), o1.e),
                              op, 0, o1.rk, o2.rk),
          e |-> [o1.e EXCEPT !.k = "VRELOCABLE", !.info = pc(o1.fs)]]))

codecomp(fs, op, cond, e1, e2) ==
  LET swap == cond = 0 /\ op # "EQ"
  IN  Let(luaK_exp2RK(fs, e1), LAMBDA o1 :
      Let(luaK_exp2RK(o1.fs, e2), LAMBDA o2 :
      Let(condjump(freeexp(freeexp(o2.fs, o2.e), o1.e), op, IF swap THEN 1 ELSE cond,
                   IF swap THEN o2.rk ELSE o1.rk, IF swap THEN o1.rk ELSE o2.rk), LAMBDA j :
        [fs |-> j.fs, e |-> [o1.e EXCEPT !.k = "VJMP", !.info = j.l]])))

luaK_prefix(fs, op, e) ==
  IF op = "not" THEN codenot(fs, e)
  ELSE Let(IF op = "-" /\ isnumeral(e) THEN [fs |-> fs, e |-> e] ELSE luaK_exp2anyreg(fs, e), LAMBDA r :
         codearith(r.fs, IF op = "-" THEN "UNM" ELSE "LEN", r.e, init_exp("VKNUM", 0)))

\* The opcodes of the operators; > and >= are < and <= with cond = 0.
ArithOp == [o \in {"+", "-", "*", "/", "%", "^"} |->
              CASE o = "+" -> "ADD" [] o = "-" -> "SUB" [] o = "*" -> "MUL"
                [] o = "/" -> "DIV" [] o = "%" -> "MOD" [] o = "^" -> "POW"]
CompOp == [o \in {"==", "~=", "<", "<=", ">", ">="} |->
             CASE o \in {"==", "~="} -> "EQ" [] o \in {"<", ">"} -> "LT" [] OTHER -> "LE"]
CompCond(o) == IF o \in {"~=", ">", ">="} THEN 0 ELSE 1

luaK_infix(fs, op, v) ==
  CASE op = "and" -> luaK_goiftrue(fs, v)
    [] op = "or"  -> luaK_goiffalse(fs, v)
    [] op = ".."  -> luaK_exp2nextreg(fs, v)
    [] OTHER      -> IF op \in DOMAIN ArithOp /\ isnumeral(v) THEN [fs |-> fs, e |-> v]
                     ELSE Let(luaK_exp2RK(fs, v), LAMBDA r : [fs |-> r.fs, e |-> r.e])

\* a .. (b .. c) becomes one instruction over consecutive registers.
codeconcat(fs, e1, e2) ==
  Let(luaK_exp2val(fs, e2), LAMBDA v :
  Let(At(v.fs, v.e.info), LAMBDA ie :
    IF v.e.k = "VRELOCABLE" /\ ie.op = "CONCAT"
    THEN [fs |-> [freeexp(Require(v.fs, e1.info = ie.b - 1), e1) EXCEPT !.code[v.e.info + 1].b = e1.info],
          e |-> [e1 EXCEPT !.k = "VRELOCABLE", !.info = v.e.info]]
    ELSE Let(luaK_exp2nextreg(v.fs, v.e), LAMBDA r : codearith(r.fs, "CONCAT", e1, r.e))))

luaK_posfix(fs, op, e1, e2) ==
  CASE op = "and" -> Let(luaK_dischargevars(Require(fs, e1.t = NO_JUMP), e2), LAMBDA d :
                     Let(luaK_concat(d.fs, d.e.f, e1.f), LAMBDA f : [fs |-> f.fs, e |-> [d.e EXCEPT !.f = f.l]]))
    [] op = "or"  -> Let(luaK_dischargevars(Require(fs, e1.f = NO_JUMP), e2), LAMBDA d :
                     Let(luaK_concat(d.fs, d.e.t, e1.t), LAMBDA t : [fs |-> t.fs, e |-> [d.e EXCEPT !.t = t.l]]))
    [] op = ".."  -> codeconcat(fs, e1, e2)
    [] op \in DOMAIN ArithOp -> codearith(fs, ArithOp[op], e1, e2)
    [] op \in DOMAIN CompOp  -> codecomp(fs, CompOp[op], CompCond(op), e1, e2)

luaK_setlist(fs, base, nelems, tostore) ==
  LET c == (nelems - 1) \div LFIELDS_PER_FLUSH + 1
      fs1 == luaK_codeABC(fs, "SETLIST", base, IF tostore = LUA_MULTRET THEN 0 ELSE tostore, IF c <= MAXARG_C THEN c ELSE 0)
  IN  [Require(IF c <= MAXARG_C THEN fs1 ELSE luaK_code(fs1, [op |-> "count", a |-> c, b |-> 0, c |-> 0]), tostore # 0) EXCEPT
         !.freereg = base + 1]

-----------------------------------------------------------------------------
(***************************************************************************)
(* The checker, for a finished function pt: code, k, p, nups, numparams,   *)
(* maxstack and the flags is_vararg.  symbexec runs here over the whole    *)
(* code (reg = NO_REG), which makes it a check of each instruction.  The   *)
(* word after a SETLIST with c = 0 has the opcode "count".                 *)
(***************************************************************************)
precheck(pt) ==
  /\ pt.maxstack <= MAXSTACK
  /\ pt.numparams + (IF "HASARG" \in pt.is_vararg THEN 1 ELSE 0) <= pt.maxstack
  /\ "NEEDSARG" \in pt.is_vararg => "HASARG" \in pt.is_vararg
  /\ pt.code # << >>
  /\ Last(pt.code).op = "RETURN"

luaG_checkopenop(i) == i.op \in {"CALL", "TAILCALL", "RETURN", "SETLIST"} /\ i.b = 0

checkreg(pt, r) == r < pt.maxstack
checkRK(pt, r) == IF ISK(r) THEN INDEXK(r) < Len(pt.k) ELSE checkreg(pt, r)
checkdest(pt, dest) == 0 <= dest /\ dest < Len(pt.code) /\ At(pt, dest).op # "count"

checkArgMode(pt, i) ==
  /\ checkreg(pt, i.a)
  /\ i.op \in BModeR => checkreg(pt, i.b)
  /\ i.op \in BModeK => checkRK(pt, i.b)
  /\ i.op \in CModeK => checkRK(pt, i.c)
  /\ i.op = "CONCAT" => checkreg(pt, i.c)
  /\ i.op \in {"LOADK", "GETGLOBAL", "SETGLOBAL"} => i.b < Len(pt.k)

symbexec(pt, at) ==
  LET i == At(pt, at)
      op == i.op
      next == At(pt, at + 1)
  IN  /\ checkArgMode(pt, i)
      /\ op \in {"JMP", "FORLOOP", "FORPREP"} => checkdest(pt, at + 1 + i.b)
      /\ testTMode(op) => at + 2 < Len(pt.code) /\ next.op = "JMP"
      /\ op = "LOADBOOL" /\ i.c = 1 => at + 2 < Len(pt.code) /\ ~(next.op = "SETLIST" /\ next.c = 0)
      /\ op \in {"GETUPVAL", "SETUPVAL"} => i.b < pt.nups
      /\ op \in {"GETGLOBAL", "SETGLOBAL"} => pt.k[i.b + 1][1] = "string"
      /\ op = "SELF" => checkreg(pt, i.a + 1)
      /\ op = "CONCAT" => i.b < i.c
      /\ op = "TFORLOOP" => i.c >= 1 /\ checkreg(pt, i.a + 2 + i.c)
      /\ op \in {"FORLOOP", "FORPREP"} => checkreg(pt, i.a + 3)
      /\ op \in {"CALL", "TAILCALL"} =>
           /\ i.b # 0 => checkreg(pt, i.a + i.b - 1)
           /\ i.c = 0 => luaG_checkopenop(next)
           /\ i.c > 1 => checkreg(pt, i.a + i.c - 2)
      /\ op = "RETURN" /\ i.b > 1 => checkreg(pt, i.a + i.b - 2)
      /\ op = "SETLIST" => /\ checkreg(pt, i.a + i.b)
                           /\ i.c = 0 => at + 1 < Len(pt.code) - 1
      /\ op = "CLOSURE" =>
           /\ i.b < Len(pt.p)
           /\ at + pt.p[i.b + 1].nups < Len(pt.code)
           /\ \A j \in 1 .. pt.p[i.b + 1].nups : At(pt, at + j).op \in {"GETUPVAL", "MOVE"}
      /\ op = "VARARG" =>
           /\ "ISVARARG" \in pt.is_vararg /\ "NEEDSARG" \notin pt.is_vararg
           /\ i.b = 0 => luaG_checkopenop(next)
           /\ checkreg(pt, i.a + i.b - 2)

luaG_checkcode(pt) ==
  /\ precheck(pt)
  /\ \A at \in 0 .. Len(pt.code) - 1 : At(pt, at).op # "count" => symbexec(pt, at)
=============================================================================
