-------------------------------- MODULE LuaGC --------------------------------
(***************************************************************************)
(* The incremental collector of the embedded Lua (lgc.c), with the         *)
(* allocation of its objects in lstring.c, lfunc.c and lstate.c.           *)
(*                                                                         *)
(* The collector's state is one record s, which the operators named after  *)
(* the C functions map to its successor:                                   *)
(*   h        every object that was ever allocated, or FREED;              *)
(*   white    the current white, one of "w0" and "w1";                     *)
(*   state    gcstate;                                                     *)
(*   rootgc   the list of all objects but strings and open upvalues, new   *)
(*            userdata being inserted after the main thread;               *)
(*   sweepgc  the object whose next field g->sweepgc points to, or NULL    *)
(*            for g->rootgc;                                               *)
(*   strt, sweepstr  the buckets of the string table, and sweepstrgc;      *)
(*   gray, again, weak, tmu  the lists gray, grayagain, weak and tmudata,  *)
(*            the last one from its first element;                         *)
(*   mt       the metatable of the strings, for g->mt.                     *)
(* A table has one entry.  What the collector looks up in a metatable is   *)
(* its field tm: "k" and "v" stand for the letters of __mode, "gc" for a   *)
(* finalizer.  Sizes, costs and thresholds are left out.                   *)
(***************************************************************************)
EXTENDS Naturals, Sequences, SequencesExt, FiniteSets

CONSTANTS NULL, FREED, NIL, INT, DEADKEY, SWEEPMAX, MINSTRTABSIZE, Hash(_)

\* The main thread and the table of globals, which is also the registry.
mainthread == 1
globals == 2

otherwhite(s) == IF s.white = "w0" THEN "w1" ELSE "w0"
iscollectable(v) == v \notin {NIL, INT, DEADKEY}
iswhite(s, o) == s.h[o].c \in {"w0", "w1"}
isblack(s, o) == s.h[o].c = "black"
isgray(s, o) == s.h[o].c = "gray"
isdead(s, o) == s.h[o].c = otherwhite(s)
paint(s, o, c) == [s EXCEPT !.h[o].c = c]
makewhite(s, o) == paint(s, o, s.white)
\* Only whites are ever changed: the callers test isdead first.
changewhite(s, o) == makewhite(s, o)
has(s, mt, tm) == mt # NIL /\ tm \in s.h[mt].tm

\* The value of an upvalue lives in a stack while it is open.
value(s, uv) == IF s.h[uv].open THEN s.h[s.h[uv].thread].stack[s.h[uv].v] ELSE s.h[uv].v

RECURSIVE markvalue(_, _)
reallymarkobject(s, o) ==
  LET x == s.h[o]
      enqueue == [paint(s, o, "gray") EXCEPT !.gray = <<o>> \o @]
  IN  CASE x.tt = "string" -> paint(s, o, "gray")
        [] x.tt = "udata"  -> markvalue(markvalue(paint(s, o, "black"), x.mt), x.env)
        [] x.tt = "upval"  -> LET t == markvalue(paint(s, o, "gray"), value(s, o))
                              IN  IF x.open THEN t ELSE paint(t, o, "black")
        [] OTHER           -> enqueue

\* markvalue and markobject.
markvalue(s, v) == IF iscollectable(v) /\ iswhite(s, v) THEN reallymarkobject(s, v) ELSE s

markall(s, vs) == FoldLeft(markvalue, s, vs)

removeentry(s, t) == IF iscollectable(s.h[t].key) THEN [s EXCEPT !.h[t].key = DEADKEY] ELSE s

\* Returns the state only: whether the table is weak is asked again by the caller.
isweak(s, t) == has(s, s.h[t].mt, "k") \/ has(s, s.h[t].mt, "v")
traversetable(s, t) ==
  LET x  == s.h[t]
      s1 == markvalue(s, x.mt)
      weakkey == has(s, x.mt, "k")
      weakvalue == has(s, x.mt, "v")
      s2 == IF weakkey \/ weakvalue THEN [s1 EXCEPT !.weak = <<t>> \o @] ELSE s1
  IN  IF weakkey /\ weakvalue THEN s2
      ELSE IF x.val = NIL THEN removeentry(s2, t)
      ELSE markall(s2, (IF weakkey THEN << >> ELSE <<x.key>>) \o (IF weakvalue THEN << >> ELSE <<x.val>>))

traverseproto(s, p) == markvalue(s, s.h[p].k)

traverseclosure(s, f) == markall(s, <<s.h[f].env, s.h[f].p, s.h[f].up>>)

traversestack(s, th) == markall(s, <<globals>> \o s.h[th].stack)

propagatemark(s) ==
  LET o == Head(s.gray)
      s1 == [paint(s, o, "black") EXCEPT !.gray = Tail(@)]
      tt == s.h[o].tt
  IN  CASE tt = "table"    -> LET s2 == traversetable(s1, o)
                              IN  IF isweak(s, o) THEN paint(s2, o, "gray") ELSE s2
        [] tt = "function" -> traverseclosure(s1, o)
        [] tt = "thread"   -> traversestack([paint(s1, o, "gray") EXCEPT !.again = <<o>> \o @], o)
        [] tt = "proto"    -> traverseproto(s1, o)

RECURSIVE propagateall(_)
propagateall(s) == IF s.gray = << >> THEN s ELSE propagateall(propagatemark(s))

\* The open upvalues, in the order of g->uvhead: the newest first.
uvhead(s) == SetToSortSeq({o \in DOMAIN s.h : s.h[o] # FREED /\ s.h[o].tt = "upval" /\ s.h[o].open}, >)

\* Defective: open upvalues of dead threads are not marked again.
remarkupvals_none(s) == s

\* An open upvalue may outlive its thread, which nothing else marks then.
remarkupvals(s) ==
  FoldLeft(LAMBDA t, uv : IF isgray(t, uv) THEN markvalue(t, value(t, uv)) ELSE t, s, uvhead(s))

markmt(s) == markvalue(s, s.mt)

markroot(s) ==
  markmt(markall([s EXCEPT !.gray = << >>, !.again = << >>, !.weak = << >>, !.state = "propagate"],
                 <<mainthread, globals>>))

\* The userdata of rootgc come after the main thread.
udatas(s) == SelectSeq(s.rootgc, LAMBDA o : s.h[o].tt = "udata")

\* Defective: dead userdata are put before those that wait already.
separateudata_front(s, all) ==
  LET picked == {u \in Range(udatas(s)) : (iswhite(s, u) \/ all) /\ ~s.h[u].fin}
      called(u) == u \in picked /\ has(s, s.h[u].mt, "gc")
      s1 == FoldSet(LAMBDA u, t : [t EXCEPT !.h[u].fin = TRUE], s, picked)
  IN  [s1 EXCEPT !.rootgc = SelectSeq(@, LAMBDA o : ~called(o)),
                 !.tmu = Reverse(SelectSeq(udatas(s), called)) \o @]

\* luaC_separateudata: dead userdata with finalizers move to tmudata.
separateudata(s, all) ==
  LET picked == {u \in Range(udatas(s)) : (iswhite(s, u) \/ all) /\ ~s.h[u].fin}
      called(u) == u \in picked /\ has(s, s.h[u].mt, "gc")
      s1 == FoldSet(LAMBDA u, t : [t EXCEPT !.h[u].fin = TRUE], s, picked)
  IN  [s1 EXCEPT !.rootgc = SelectSeq(@, LAMBDA o : ~called(o)),
                 !.tmu = @ \o SelectSeq(udatas(s), called)]

marktmu(s) == FoldLeft(LAMBDA t, u : reallymarkobject(makewhite(t, u), u), s, s.tmu)

\* Strings are never cleared, and the second part of a pair that is not.
iscleared(s, v, iskey) ==
  /\ iscollectable(v)
  /\ s.h[v].tt # "string"
  /\ iswhite(s, v) \/ (s.h[v].tt = "udata" /\ ~iskey /\ s.h[v].fin)
stringmark(s, v) == IF iscollectable(v) /\ s.h[v].tt = "string" THEN paint(s, v, "gray") ELSE s

ClearEntry(s, t) ==
  LET x == s.h[t]
      s1 == stringmark(s, x.key)
  IN  IF x.val = NIL THEN s
      ELSE IF iscleared(s, x.key, TRUE) THEN removeentry([s1 EXCEPT !.h[t].val = NIL], t)
      ELSE IF iscleared(s1, x.val, FALSE) THEN removeentry([s1 EXCEPT !.h[t].val = NIL], t)
      ELSE stringmark(s1, x.val)
cleartable(s) == FoldLeft(ClearEntry, s, s.weak)

\* Defective: the white of the next cycle stays that of the last.
atomic_noflip(s, L) ==
  LET s1 == propagateall(remarkupvals(s))
      s2 == propagateall(markmt(markvalue([s1 EXCEPT !.gray = s1.weak, !.weak = << >>], L)))
      s3 == propagateall([s2 EXCEPT !.gray = s2.again, !.again = << >>])
      s4 == propagateall(marktmu(separateudata(s3, FALSE)))
  IN  [cleartable(s4) EXCEPT !.sweepstr = 1, !.sweepgc = NULL, !.state = "sweepstring"]

\* The end of the mark phase, in one step; L is the running thread.
atomic(s, L) ==
  LET s1 == propagateall(remarkupvals(s))
      s2 == propagateall(markmt(markvalue([s1 EXCEPT !.gray = s1.weak, !.weak = << >>], L)))
      s3 == propagateall([s2 EXCEPT !.gray = s2.again, !.again = << >>])
      s4 == propagateall(marktmu(separateudata(s3, FALSE)))
  IN  [cleartable(s4) EXCEPT !.white = otherwhite(s), !.sweepstr = 1, !.sweepgc = NULL,
                             !.state = "sweepstring"]

-----------------------------------------------------------------------------
(***************************************************************************)
(* Barriers, and upvalues from open to closed (lfunc.c).                   *)
(***************************************************************************)
luaC_barrierf(s, o, v) ==
  IF s.state = "propagate" THEN reallymarkobject(s, v) ELSE makewhite(s, o)

luaC_barrierback(s, t) == [paint(s, t, "gray") EXCEPT !.again = <<t>> \o @]

luaC_barrier(s, o, v) ==
  IF iscollectable(v) /\ iswhite(s, v) /\ isblack(s, o) THEN luaC_barrierf(s, o, v) ELSE s

luaC_barriert(s, t, v) ==
  IF iscollectable(v) /\ iswhite(s, v) /\ isblack(s, t) THEN luaC_barrierback(s, t) ELSE s

\* A new object x becomes o, the next one.
luaC_link(s, x) == [s EXCEPT !.h = Append(@, x), !.rootgc = <<Len(s.h) + 1>> \o @]

luaC_linkupval(s, uv) ==
  LET s1 == [s EXCEPT !.rootgc = <<uv>> \o @]
  IN  IF ~isgray(s, uv) THEN s1
      ELSE IF s.state = "propagate" THEN luaC_barrier(paint(s1, uv, "black"), uv, value(s, uv))
      ELSE makewhite(s1, uv)

Level(s, uv) == s.h[uv].v

\* The upvalue of a stack slot, which may be dead, or a new one.
luaF_findupval(s, th, level) ==
  LET found == {uv \in Range(s.h[th].openupval) : Level(s, uv) = level}
      new == [tt |-> "upval", c |-> s.white, open |-> TRUE, thread |-> th, v |-> level]
      keep(above) == SelectSeq(s.h[th].openupval, LAMBDA uv : (Level(s, uv) > level) = above)
  IN  IF found # {} THEN LET uv == CHOOSE uv \in found : TRUE
                         IN  IF isdead(s, uv) THEN changewhite(s, uv) ELSE s
      ELSE [s EXCEPT !.h = Append([@ EXCEPT ![th].openupval = keep(TRUE) \o <<Len(s.h) + 1>> \o keep(FALSE)], new)]
upvalat(s, th, level) == CHOOSE uv \in Range(s.h[th].openupval) : Level(s, uv) = level

luaM_free(s, o) == [s EXCEPT !.h[o] = FREED]

RECURSIVE luaF_close(_, _, _)
luaF_close(s, th, level) ==
  LET list == s.h[th].openupval
      uv == Head(list)
      s1 == [s EXCEPT !.h[th].openupval = Tail(@)]
      closed == [s1 EXCEPT !.h[uv].open = FALSE, !.h[uv].v = value(s, uv)]
  IN  IF list = << >> THEN s
      ELSE IF Level(s, uv) < level THEN s
      ELSE luaF_close(IF isdead(s, uv) THEN luaM_free(s1, uv) ELSE luaC_linkupval(closed, uv), th, level)

-----------------------------------------------------------------------------
(***************************************************************************)
(* Sweeping.                                                               *)
(***************************************************************************)
freeobj(s, o) == IF s.h[o].tt = "thread" THEN luaM_free(luaF_close(s, o, 1), o) ELSE luaM_free(s, o)

\* dead is the white that is collected, or NULL when everything is but the main thread.
mustfree(s, o, dead) == o # mainthread /\ (dead = NULL \/ s.h[o].c = dead)

\* A whole list that is not rootgc: a bucket, or the open upvalues of a thread.
SweepAll(s, list, dead) ==
  FoldLeft(LAMBDA t, o : IF mustfree(t, o, dead) THEN luaM_free(t, o) ELSE makewhite(t, o), s, list)
Swept(s, list, dead) == SelectSeq(list, LAMBDA o : ~mustfree(s, o, dead))

sweepopen(s, th, dead) ==
  LET list == s.h[th].openupval
  IN  SweepAll([s EXCEPT !.h[th].openupval = Swept(s, list, dead)], list, dead)

\* The rest of rootgc from sweepgc on.
sweeprest(s) ==
  IF s.sweepgc = NULL THEN s.rootgc
  ELSE LET i == SelectInSeq(s.rootgc, LAMBDA o : o = s.sweepgc)
       IN  SubSeq(s.rootgc, i + 1, Len(s.rootgc))

RECURSIVE sweeplist(_, _, _)
sweeplist(s, dead, count) ==
  LET rest == sweeprest(s)
      o == Head(rest)
      s1 == IF s.h[o].tt = "thread" THEN sweepopen(s, o, dead) ELSE s
      s2 == [s1 EXCEPT !.rootgc = SelectSeq(@, LAMBDA p : p # o)]
  IN  IF rest = << >> \/ count = 0 THEN s
      ELSE IF mustfree(s, o, dead) THEN sweeplist(freeobj(s2, o), dead, count - 1)
      ELSE sweeplist([makewhite(s1, o) EXCEPT !.sweepgc = o], dead, count - 1)

nuse(s) == FoldLeft(LAMBDA n, b : n + Len(b), 0, s.strt)

\* Rehashing walks the buckets in order and puts each string first.
luaS_resize(s, size) ==
  LET all == FlattenSeq(s.strt)
      bucket(i) == Reverse(SelectSeq(all, LAMBDA o : Hash(s.h[o].text) % size = i - 1))
  IN  IF s.state = "sweepstring" THEN s
      ELSE [s EXCEPT !.strt = << >> \o [i \in 1 .. size |-> bucket(i)]]

checkSizes(s) ==
  LET size == Len(s.strt)
  IN  IF nuse(s) < size \div 4 /\ size > MINSTRTABSIZE * 2 THEN luaS_resize(s, size \div 2) ELSE s

\* Defective: a string that is about to be swept is not found.
luaS_newlstr_again(s, text) ==
  LET b == (Hash(text) % Len(s.strt)) + 1
      s1 == [s EXCEPT !.h = Append(@, [tt |-> "string", c |-> s.white, text |-> text]),
                      !.strt[b] = <<Len(s.h) + 1>> \o @]
  IN  IF \E o \in Range(s.strt[b]) : s.h[o].text = text /\ ~isdead(s, o) THEN s ELSE s1

\* luaS_newlstr: the string is shared with an equal one, which may be dead.
luaS_newlstr(s, text) ==
  LET b == (Hash(text) % Len(s.strt)) + 1
      found == {o \in Range(s.strt[b]) : s.h[o].text = text}
      new == [tt |-> "string", c |-> s.white, text |-> text]
      s1 == [s EXCEPT !.h = Append(@, new), !.strt[b] = <<Len(s.h) + 1>> \o @]
  IN  IF found # {} THEN LET o == CHOOSE o \in found : TRUE
                         IN  IF isdead(s, o) THEN changewhite(s, o) ELSE s
      ELSE IF nuse(s1) > Len(s1.strt) THEN luaS_resize(s1, 2 * Len(s1.strt)) ELSE s1
stringat(s, text) == CHOOSE o \in Range(FlattenSeq(s.strt)) : s.h[o].text = text

\* Defective: a new userdatum is not linked.
AfterMain_lost(list, u) == list

\* A userdata is inserted after the main thread.
AfterMain(list, u) ==
  LET i == SelectInSeq(list, LAMBDA o : o = mainthread) IN InsertAt(list, i + 1, u)
luaS_newudata(s, e) ==
  [s EXCEPT !.h = Append(@, [tt |-> "udata", c |-> s.white, fin |-> FALSE, mt |-> NIL, env |-> e]),
            !.rootgc = AfterMain(@, Len(s.h) + 1)]

\* GCTM up to the call of the finalizer, which is the caller's.
GCTM(s) ==
  LET u == Head(s.tmu)
  IN  makewhite([s EXCEPT !.tmu = Tail(@), !.rootgc = AfterMain(@, u)], u)

singlestep(s, L) ==
  CASE s.state = "pause"     -> markroot(s)
    [] s.state = "propagate" -> IF s.gray # << >> THEN propagatemark(s) ELSE atomic(s, L)
    [] s.state = "sweepstring" ->
         LET b == s.strt[s.sweepstr]
             s1 == SweepAll([s EXCEPT !.strt[s.sweepstr] = Swept(s, b, otherwhite(s)), !.sweepstr = @ + 1], b, otherwhite(s))
         IN  IF s1.sweepstr > Len(s.strt) THEN [s1 EXCEPT !.state = "sweep"] ELSE s1
    [] s.state = "sweep" ->
         LET s1 == sweeplist(s, otherwhite(s), SWEEPMAX)
         IN  IF sweeprest(s1) = << >> THEN [checkSizes(s1) EXCEPT !.state = "finalize"] ELSE s1
    [] s.state = "finalize" -> IF s.tmu # << >> THEN GCTM(s) ELSE [s EXCEPT !.state = "pause"]

\* luaC_fullgc up to its first loop.
fullgc_begin(s) ==
  IF s.state \in {"pause", "propagate"}
  THEN [s EXCEPT !.sweepstr = 1, !.sweepgc = NULL, !.gray = << >>, !.again = << >>, !.weak = << >>,
                 !.state = "sweepstring"]
  ELSE s

luaC_freeall(s) ==
  LET s1 == sweeplist([s EXCEPT !.sweepgc = NULL], NULL, Len(s.h))
      all == FlattenSeq(s.strt)
  IN  SweepAll([s1 EXCEPT !.strt = << >> \o [i \in DOMAIN @ |-> << >>]], all, NULL)
=============================================================================
