------------------------------ MODULE MCLuaHeap ------------------------------
(***************************************************************************)
(* Lua's tables and its garbage collector, on small instances.  A          *)
(* behaviour exercises one of them; the variables of the other keep the    *)
(* value they have at first.                                               *)
(***************************************************************************)
EXTENDS Naturals

CONSTANTS NIL, NULL,
          MAXBITS, MAX_INT, NumHash, Keys, Events, NEWINDEX, MaxSize,
          FREED, INT, DEADKEY, SWEEPMAX, MINSTRTABSIZE, Hash(_), Scenes, Texts, MaxObjects, MaxStack, MaxOps

VARIABLES part, t, want, walk, own, s, scene, full, called, ops

T == INSTANCE LuaTableUse
G == INSTANCE MCLuaGC

\* The values of the constants.  Keys are numbers, the name of a metamethod and
\* another object; the hash values make them collide.
newindex == <<"s", 1, 1>>
MCKeys == {<<"n", i, 0>> : i \in {1, 2, 3}} \cup {newindex, <<"p", 5, 2>>}
MCHash == [n \in 0 .. 8 |-> (n * n) + 1]
MCEvents == {newindex}

Given == INSTANCE MCLuaGC WITH Scenes <- {}, Hash <- LAMBDA text : 0
StringHash(text) == Given!MCHash(text)
HeapScenes == Given!MCScenes

table == <<t, want, walk, own>>
heap == <<s, scene, full, called, ops>>
allvars == <<part, table, heap>>

AllInit ==
  /\ part \in {"table", "heap"}
  /\ T!Init /\ G!Init
  /\ part = "table" => scene = (CHOOSE sc \in Scenes : TRUE).uses /\ s = (CHOOSE sc \in Scenes : TRUE).boot
  /\ part = "heap" => own = FALSE /\ t = T!luaH_new(0, 0)

AllNext ==
  /\ UNCHANGED part
  /\ \/ part = "table" /\ T!Next /\ UNCHANGED heap
     \/ part = "heap" /\ G!Next /\ UNCHANGED table

\* The fairness of LuaGCUse: the collector is called again and again.
AllSpec ==
  AllInit /\ [][AllNext]_allvars /\ ([]<>(part = "table" \/ G!Closed) \/ []<><<ops' = ops>>_heap)

-----------------------------------------------------------------------------
(* Properties *)

\* Type invariant.  Tables: sizes are powers of two, and a node that is not in its
\* main position is in the chain of it (ltable.c, newkey).  Heap: the collector's
\* lists hold each object once, and only objects that exist, and while it marks no
\* black object keeps a white one alive, which the barriers restore (lgc.c:662).
AllTypeOK == IF part = "table" THEN T!TypeOK ELSE G!TypeOK /\ G!BlackToWhite

\* Whatever was added to a table, moved between its parts, removed and collected
\* on the way, every key has the value assigned to it last (ltable.c:399), luaH_getn
\* finds a boundary, also among holes and when doubling the index would overflow
\* (ltable.c:536), and a metamethod that is cached as absent is absent (lobject.h:340,
\* "1<<p means tagmethod(p) is not present") in a metatable of another object.
AnswersRight == part = "table" => T!GetsWhatWasSet /\ T!IsBoundary /\ T!CachedAbsence

\* A traversal in which fields are changed and removed, and the collector clears
\* removed keys, the one it stands on included, meets every field that remains,
\* once, and no key is refused as invalid (ltable.c:137).
TraversalComplete == part = "table" => T!TraversalComplete

\* Nothing that the program can still get hold of is freed: not through a
\* closure, an upvalue, a weak table or the string table, nor what a pending
\* finalizer can reach, whatever the program did while the collector ran (lgc.c).
\* And lua_close frees all but the main thread (lstate.c:109 asserts it).
FreesInTime == part = "heap" => G!NoDangling /\ G!CloseFreesAll

\* Equal strings are one object: luaS_newlstr finds the one there is, in
\* whatever bucket the last resize has put it (lstring.c:75).
Interned == part = "heap" => G!Interned

\* "the finalizers for userdata are called in reverse order of their creation, among
\* those collected in that cycle" (doc/manual.html:2071; lgc.c:128),
\* and never twice.
FinalizesInOrder == G!FinalizesInOrder

\* After a full collection nothing is left but what the program can reach, and
\* what the finalizers that have run in it were given (lgc.c:636).
CollectsGarbage == G!CollectsGarbage

\* What has become garbage is freed sooner or later, without full collections,
\* when the program allocates no more of it (lgc.c:610).
Reclaims == <>[](part = "table" \/ G!Clean)
=============================================================================
