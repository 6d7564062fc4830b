------------------------------ MODULE LuaGCUse ------------------------------
(***************************************************************************)
(* Programs under the collector of LuaGC.  Between two steps of the        *)
(* collector the running program creates objects, stores them in one       *)
(* another and forgets them, as the API and the virtual machine let it.    *)
(* scene is the set of kinds of object that a program uses; it works on    *)
(* the slots of the main thread's stack and on the table of globals.       *)
(* full is the phase of luaC_fullgc, in which only finalizers run;         *)
(* called are the userdata whose finalizers have run in it.                *)
(***************************************************************************)
EXTENDS LuaGC

CONSTANTS Scenes, Texts, MaxObjects, MaxStack, MaxOps

VARIABLES s, scene, full, called, ops

vars == <<s, scene, full, called, ops>>

\* What lua_newstate and the beginning of a program leave: the objects objs,
\* created in this order, upvalues being open, the stack stk and the value g of a global variable.
Ids(objs, Test(_)) == SelectSeq([i \in DOMAIN objs |-> i + 2], LAMBDA o : Test(objs[o - 2].tt))
Boot(objs, stk, g) ==
  LET thread == [tt |-> "thread", c |-> "w0", stack |-> stk, openupval |-> << >>]
      table == [tt |-> "table", c |-> "w0", mt |-> NIL, key |-> INT, val |-> g, tm |-> {}]
  IN  [h |-> <<thread, table>> \o objs, white |-> "w0", state |-> "pause",
       rootgc |-> Reverse(Ids(objs, LAMBDA tt : tt \notin {"udata", "upval"})) \o <<globals, mainthread>>
                  \o Reverse(Ids(objs, LAMBDA tt : tt = "udata")),
       sweepgc |-> NULL, strt |-> << >> \o [i \in 1 .. MINSTRTABSIZE |-> << >>], sweepstr |-> 1,
       gray |-> << >>, again |-> << >>, weak |-> << >>, tmu |-> << >>, mt |-> NIL]

Init ==
  /\ \E sc \in Scenes : s = sc.boot /\ scene = sc.uses
  /\ full = "no"
  /\ called = {}
  /\ ops = 0

Closed == full = "closed"
stack == s.h[mainthread].stack
operands == Range(stack) \cup {globals}
OfType(tt) == {o \in operands \ {NIL, INT, DEADKEY} : s.h[o].tt = tt}

\* The program runs unless a full collection does.
Run(t) == s' = t /\ UNCHANGED <<scene, full, called>>
push(t, v) == [t EXCEPT !.h[mainthread].stack = Append(@, v)]
room == Len(stack) < MaxStack
fresh == Len(s.h) < MaxObjects
new == Len(s.h) + 1

-----------------------------------------------------------------------------
\* lua_createtable.
NewTable ==
  /\ room /\ fresh /\ "table" \in scene
  /\ Run(push(luaC_link(s, [tt |-> "table", c |-> s.white, mt |-> NIL, key |-> NIL, val |-> NIL, tm |-> {}]), new))

NewUserdata == room /\ fresh /\ "udata" \in scene /\ Run(push(luaS_newudata(s, globals), new))

PushString ==
  /\ room /\ fresh /\ "string" \in scene
  /\ \E text \in Texts : LET t == luaS_newlstr(s, text) IN Run(push(t, stringat(t, text)))

NewThread ==
  /\ room /\ fresh /\ "thread" \in scene
  /\ Run(push(luaC_link(s, [tt |-> "thread", c |-> s.white, stack |-> << >>, openupval |-> << >>]), new))

\* lua_pushcclosure with one upvalue, from the stack.
PushCClosure ==
  /\ fresh /\ "cclosure" \in scene /\ stack # << >>
  /\ LET t == luaC_link(s, [tt |-> "function", c |-> s.white, env |-> globals, p |-> NIL, up |-> Last(stack)])
     IN  Run([t EXCEPT !.h[mainthread].stack = Append(Front(@), new)])

\* OP_CLOSURE in a thread th, the closure being returned to the main thread:
\* its upvalue is a slot of th.
NewLClosure ==
  /\ room /\ fresh /\ "lclosure" \in scene /\ Len(s.h) + 1 < MaxObjects
  /\ \E th \in OfType("thread") \cup {mainthread} : \E level \in DOMAIN s.h[th].stack :
       LET t == luaC_link(s, [tt |-> "function", c |-> s.white, env |-> globals, p |-> NIL, up |-> NIL])
           u == luaF_findupval(t, th, level)
       IN  Run(push([u EXCEPT !.h[new].up = upvalat(u, th, level)], new))

\* f_parser: a prototype with one constant, and a closure with a closed upvalue.
Load ==
  /\ Len(s.h) + 2 < MaxObjects /\ "proto" \in scene /\ stack # << >>
  /\ LET p == luaC_link(s, [tt |-> "proto", c |-> s.white, k |-> Last(stack)])
         f == luaC_link(p, [tt |-> "function", c |-> s.white, env |-> globals, p |-> new, up |-> new + 2])
         t == luaC_link(f, [tt |-> "upval", c |-> s.white, open |-> FALSE, thread |-> NULL, v |-> NIL])
     IN  Run([t EXCEPT !.h[mainthread].stack = Append(Front(@), new + 1)])

\* A slot goes out of scope, with the upvalues that are open on it.
Pop ==
  /\ stack # << >>
  /\ Run([luaF_close(s, mainthread, Len(stack)) EXCEPT !.h[mainthread].stack = Front(@)])

\* What an object of the stack refers to is pushed: lua_rawget, lua_next,
\* lua_getmetatable, lua_getfenv, GETUPVAL.
Reads(o) ==
  LET x == s.h[o]
  IN  CASE x.tt = "table" -> {x.val} \cup (IF x.val = NIL THEN {} ELSE {x.key}) \cup {x.mt}
        [] x.tt = "udata" -> {x.mt, x.env}
        [] x.tt = "string" -> {s.mt}
        [] x.tt = "function" -> {x.env, IF iscollectable(x.up) /\ s.h[x.up].tt = "upval" THEN value(s, x.up) ELSE x.up}
        [] OTHER -> {}
Read ==
  /\ room
  /\ \E o \in operands \ {NIL, INT} : \E v \in Reads(o) \ {NIL} : Run(push(s, v))

\* lua_rawset: a new key is stored by newkey, which has a barrier of its own.
RawSet(t, k, v) ==
  LET x == s.h[t]
      s1 == IF x.key = k THEN s ELSE luaC_barriert([s EXCEPT !.h[t].key = k], t, k)
  IN  luaC_barriert([s1 EXCEPT !.h[t].val = v], t, v)
SetTable ==
  \E t \in OfType("table"), k \in {INT} \cup (IF "weak" \in scene THEN Range(stack) \ {NIL} ELSE {}),
     v \in Range(stack) \cup {NIL} :
    /\ s.h[t].val # NIL => s.h[t].key = k
    /\ Run(RawSet(t, k, v))

\* lua_setmetatable; the one of the strings is changed without a barrier.
SetMetatable ==
  /\ "meta" \in scene
  /\ \/ \E t \in OfType("table"), mt \in OfType("table") : Run(luaC_barriert([s EXCEPT !.h[t].mt = mt], t, mt))
     \/ \E u \in OfType("udata"), mt \in OfType("table") : Run(luaC_barrier([s EXCEPT !.h[u].mt = mt], u, mt))
     \/ "string" \in scene /\ \E mt \in OfType("table") : Run([s EXCEPT !.mt = mt])

\* lua_setfenv.
SetEnv ==
  /\ "env" \in scene
  /\ \E o \in OfType("function") \cup OfType("udata"), t \in OfType("table") :
       Run(luaC_barrier([s EXCEPT !.h[o].env = t], o, t))

\* OP_SETUPVAL and lua_setupvalue.
SetUpvalue ==
  \E f \in OfType("function"), v \in Range(stack) :
    LET up == s.h[f].up
    IN  IF iscollectable(up) /\ s.h[up].tt = "upval"
        THEN LET x == s.h[up]
             IN  Run(luaC_barrier(IF x.open THEN [s EXCEPT !.h[x.thread].stack[x.v] = v]
                                  ELSE [s EXCEPT !.h[up].v = v], up, v))
        ELSE Run(luaC_barrier([s EXCEPT !.h[f].up = v], f, v))

\* lua_xmove to a coroutine: stacks have no barrier.
XMove ==
  \E th \in OfType("thread") : \E v \in Range(stack) :
    /\ Len(s.h[th].stack) < 1
    /\ Run([s EXCEPT !.h[th].stack = Append(@, v)])

Program ==
  /\ full = "no" /\ ops < MaxOps /\ ops' = ops + 1
  /\ \/ NewTable \/ NewUserdata \/ PushString \/ NewThread \/ PushCClosure \/ NewLClosure \/ Load
     \/ Pop \/ Read \/ SetTable \/ SetMetatable \/ SetEnv \/ SetUpvalue \/ XMove

-----------------------------------------------------------------------------
\* A step of the collector, which luaC_step repeats as its budget allows.  A
\* finalizer may store the userdata where the program finds it again, when the
\* global variable is free.
Finalizes == s.state = "finalize" /\ s.tmu # << >> /\ has(s, s.h[Head(s.tmu)].mt, "gc")
Resurrect(t, u) == luaC_barriert([t EXCEPT !.h[globals].key = INT, !.h[globals].val = u], globals, u)
Step ==
  /\ full # "closed"
  /\ full = "sweep" => s.state # "finalize"
  /\ LET t == singlestep(s, mainthread)
     IN  \/ s' = t
         \/ Finalizes /\ s.h[globals].val = NIL /\ s' = Resurrect(t, Head(s.tmu))
  /\ full' = IF full = "mark" /\ s'.state = "pause" THEN "no" ELSE full
  /\ called' = IF full # "mark" \/ full' = "no" THEN {}
               ELSE IF Finalizes THEN called \cup {Head(s.tmu)} ELSE called
  /\ UNCHANGED <<scene, ops>>

\* luaC_fullgc: its first loop ends in GCSfinalize, where a new cycle begins.
FullGC ==
  /\ full = "no" /\ ops < MaxOps /\ ops' = ops + 1
  /\ s' = fullgc_begin(s) /\ full' = "sweep" /\ UNCHANGED <<scene, called>>
\* Defective: a full collection does not mark.
Restart_idle ==
  /\ full = "sweep" /\ s.state = "finalize"
  /\ full' = "mark" /\ UNCHANGED <<s, scene, called, ops>>

Restart ==
  /\ full = "sweep" /\ s.state = "finalize"
  /\ s' = markroot(s) /\ full' = "mark" /\ UNCHANGED <<scene, called, ops>>

\* lua_close: the finalizers of all userdata run, one after another, and then
\* everything is freed.
RECURSIVE callGCTM(_)
callGCTM(t) == IF t.tmu = << >> THEN t ELSE callGCTM(GCTM(t))
lua_close(t) ==
  LET t1 == separateudata([luaF_close(t, mainthread, 1) EXCEPT !.h[mainthread].stack = << >>], TRUE)
  IN  luaC_freeall(callGCTM(t1))
Close == full = "no" /\ s' = lua_close(s) /\ full' = "closed" /\ UNCHANGED <<scene, called, ops>>

Done == Closed /\ UNCHANGED vars

Next == Program \/ Step \/ FullGC \/ Restart \/ Close \/ Done

\* The program allocates, so luaC_checkGC calls the collector again and again.
\* All steps but the program's leave ops alone, and those are enabled until the
\* state is closed.
Spec == Init /\ [][Next]_vars /\ ([]<>Closed \/ []<><<ops' = ops>>_vars)

-----------------------------------------------------------------------------
Alive == {o \in DOMAIN s.h : s.h[o] # FREED}

\* The objects that an object refers to, and those that it keeps alive.
Refs(o) ==
  LET x == s.h[o]
  IN  {v \in CASE x.tt = "table" -> {x.mt} \cup (IF x.val = NIL THEN {} ELSE {x.key, x.val})
              [] x.tt = "udata" -> {x.mt, x.env}
              [] x.tt = "upval" -> {value(s, o)}
              [] x.tt = "function" -> {x.env, x.p, x.up}
              [] x.tt = "thread" -> Range(x.stack) \cup {globals}
              [] x.tt = "proto" -> {x.k}
              [] x.tt = "string" -> {} : iscollectable(v)}
Keeps(o) ==
  IF s.h[o].tt = "table" /\ isweak(s, o)
  THEN {s.h[o].mt} \cup {v \in Refs(o) : (v \in Alive /\ s.h[v].tt = "string") \/ (v = s.h[o].val /\ ~has(s, s.h[o].mt, "v"))
                                           \/ (v = s.h[o].key /\ ~has(s, s.h[o].mt, "k"))}
  ELSE Refs(o)

RECURSIVE Closure(_, _)
Closure(S, r) == LET T == S \cup UNION {r[o] : o \in S \cap DOMAIN r} IN IF T = S THEN S ELSE Closure(T, r)
Reach(S) == Closure(S, [o \in Alive |-> Refs(o)])
StrongReach(S) == Closure(S, [o \in Alive |-> Keeps(o)])
Roots == {mainthread, globals} \cup ({s.mt} \ {NIL})

Colours == {"w0", "w1", "gray", "black"}

\* The collector's lists hold each object once, and only objects that exist:
\* rootgc all but strings, open upvalues and userdata that wait for their
\* finalizers, the string table the strings, tmudata userdata.
TypeOK ==
  LET open == {o \in Alive : s.h[o].tt = "upval" /\ s.h[o].open}
      strings == {o \in Alive : s.h[o].tt = "string"}
      lists == s.rootgc \o s.tmu \o FlattenSeq(s.strt)
  IN  /\ \A o \in Alive : s.h[o].c \in Colours
      /\ IsInjective(lists) /\ Range(lists) = Alive \ open
      /\ Range(FlattenSeq(s.strt)) = strings
      /\ open = UNION {Range(s.h[o].openupval) : o \in {th \in Alive : s.h[th].tt = "thread"}}
      /\ s.state \in {"pause", "propagate", "sweepstring", "sweep", "finalize"}

\* Nothing that the program can still get hold of is freed: not through a
\* closure, an upvalue, a weak table or the string table, nor what a pending
\* finalizer can reach, whatever the program did while the collector ran.
NoDangling == ~Closed => Reach(Roots \cup Range(s.tmu)) \subseteq Alive

\* The invariant that the barriers restore while the collector marks: a black
\* object keeps no white one alive (luaC_barrierf: "must keep invariant?").
BlackToWhite ==
  s.state = "propagate" => \A o \in Alive : isblack(s, o) /\ o \notin Range(s.tmu) => \A v \in Keeps(o) : ~iswhite(s, v)

\* Equal strings are one object: luaS_newlstr finds the one there is, in
\* whatever bucket the last resize has put it.
Interned ==
  \A o, p \in Alive : s.h[o].tt = "string" /\ s.h[p].tt = "string" /\ s.h[o].text = s.h[p].text => o = p

\* doc/manual.html:2071, "the finalizers for userdata are called in reverse order of their
\* creation, among those collected in that cycle", and never twice.
FinalizesInOrder ==
  [][\A i \in DOMAIN s'.tmu : i > Len(s.tmu) =>
       /\ ~s.h[s'.tmu[i]].fin
       /\ i > Len(s.tmu) + 1 => s'.tmu[i - 1] > s'.tmu[i]]_vars

\* After a full collection nothing is left but what the program can reach, and
\* what the finalizers that have run in it were given.
CollectsGarbage ==
  [][full = "mark" /\ full' = "no" => Alive = StrongReach(Roots \cup called)]_vars

\* lua_close frees all but the main thread, which close_state asserts and
\* frees itself.
CloseFreesAll == Closed => Alive = {mainthread} /\ s.rootgc = <<mainthread>>

Clean == Closed \/ full # "no" \/ Alive = StrongReach(Roots)

\* What has become garbage is freed sooner or later, without full collections,
\* when the program allocates no more of it.
Reclaims == <>[]Clean
=============================================================================
