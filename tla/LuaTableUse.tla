------------------------------ MODULE LuaTableUse ------------------------------
(***************************************************************************)
(* A Lua table in use: assignments that add, change and remove fields, the *)
(* collector that clears the keys of removed fields, a traversal in        *)
(* between, and the table as a metatable, its own included (lvm.c, ltm.c,  *)
(* lgc.c).  want is the map the table stands for.                          *)
(***************************************************************************)
EXTENDS LuaTable

CONSTANTS Keys,
          NEWINDEX,     \* "__newindex"
          MaxSize       \* bound on the array part asked for

VARIABLES t, want, walk,
          own           \* whether the table is its own metatable

vars == <<t, want, walk, own>>

\* A traversal: the key it is at, those it met and those it has yet to meet.
NoWalk == [state |-> "idle", at |-> NilKey, seen |-> {}, left |-> {}]

Init ==
  /\ \E narray, nhash \in {0, 2} : t = luaH_new(narray, nhash)
  /\ want = [k \in Keys |-> NIL]
  /\ walk = NoWalk
  /\ own \in BOOLEAN

Walking == walk.state = "walking"

luaT_gettm(tab, e) == IF luaH_get(tab, e) = NIL THEN [tab EXCEPT !.flags = @ \cup {e}] ELSE tab

fasttm(tab, e) == IF e \in tab.flags THEN tab ELSE luaT_gettm(tab, e)

\* luaV_settable on the table: the slot is made, then __newindex is looked for in
\* the metatable when the slot has no value.
luaV_settable(k, v) ==
  LET slot == set(t, k, luaH_get(t, k))
      seen == IF own /\ luaH_get(t, k) = NIL THEN fasttm(slot, NEWINDEX) ELSE slot
      tm   == own /\ luaH_get(t, k) = NIL /\ NEWINDEX \notin seen.flags
  IN  IF tm THEN seen ELSE Assign(seen, k, v)

\* An assignment; during a traversal only to a field that exists (manual, next).
SetField(k, v) ==
  /\ Walking => want[k] # NIL
  /\ t' = luaV_settable(k, v)
  /\ want' = [want EXCEPT ![k] = luaH_get(t', k)]
  /\ walk' = [walk EXCEPT !.left = IF v = NIL THEN @ \ {k} ELSE @]
  /\ UNCHANGED own

\* traversetable (lgc.c) clears the entries without a value.
removeentry ==
  /\ t' = [t EXCEPT !.node = [i \in DOMAIN @ |->
             IF @[i].val = NIL /\ @[i].key[1] \in {"s", "p"}
             THEN [@[i] EXCEPT !.key = Dead(@)] ELSE @[i]]]
  /\ UNCHANGED <<want, walk, own>>

\* OP_SETLIST reserves room in the array part.
ResizeArray(n) ==
  /\ ~Walking
  /\ n > sizearray(t)
  /\ t' = luaH_resizearray(t, n)
  /\ UNCHANGED <<want, walk, own>>

\* An object that has the table for a metatable looks for a metamethod.
Lookup(e) ==
  /\ ~Walking
  /\ t' = fasttm(t, e)
  /\ UNCHANGED <<want, walk, own>>

Begin ==
  /\ ~Walking
  /\ walk' = [NoWalk EXCEPT !.state = "walking", !.left = {k \in Keys : want[k] # NIL}]
  /\ UNCHANGED <<t, want, own>>

Step ==
  /\ Walking
  /\ LET k == luaH_next(t, walk.at)
     IN  walk' = CASE k = NULL -> [walk EXCEPT !.state = "invalid key"]
                   [] k \in walk.seen -> [walk EXCEPT !.state = "seen twice"]
                   [] k = NilKey -> IF walk.left = {} THEN NoWalk ELSE [walk EXCEPT !.state = "missed"]
                   [] OTHER -> [walk EXCEPT !.at = k, !.seen = @ \cup {k}, !.left = @ \ {k}]
  /\ UNCHANGED <<t, want, own>>

Next ==
  \/ \E k \in Keys : SetField(k, k) \/ SetField(k, NIL)
  \/ \E n \in 1 .. MaxSize : ResizeArray(n)
  \/ \E e \in Events : Lookup(e)
  \/ removeentry \/ Begin \/ Step

Spec == Init /\ [][Next]_vars

-----------------------------------------------------------------------------
(* Properties *)

Live(n) == t.node[n].val # NIL

\* Type invariant: sizes are powers of two; a node that is not in its main position
\* is in the chain of it, where the node in that place belongs (ltable.c, newkey).
TypeOK ==
  /\ \E i \in 0 .. MAXBITS + 1 : sizenode(t) = 2^i
  /\ t.lastfree \in 0 .. sizenode(t)
  /\ \A n \in DOMAIN t.node : Live(n) => n \in Range(Chain(t, mainposition(t, t.node[n].key)))

\* Whatever was added, moved between the parts, removed and collected on the way,
\* every key has the value assigned to it last.
GetsWhatWasSet == \A k \in Keys : luaH_get(t, k) = want[k]

Present(i) == luaH_get(t, Num(i)) # NIL

\* luaH_getn finds a boundary, also in a table with holes, in either part, and
\* when doubling the index would overflow (ltable.c:536).
IsBoundary ==
  LET n == luaH_getn(t) IN n >= 0 /\ (n > 0 => Present(n)) /\ ~Present(n + 1)

\* A traversal in which fields are changed and removed, and the collector clears
\* removed keys, the one it stands on included, meets every field that remains,
\* once, and no key is refused as invalid (ltable.c:137).
TraversalComplete == walk.state \notin {"invalid key", "seen twice", "missed"}

\* A metamethod that is cached as absent is absent (lobject.h:340, "1<<p means
\* tagmethod(p) is not present"), in the metatable of another object.  A table
\* that is its own metatable may have a wrong cache: luaV_settable looks for
\* __newindex between making the slot of that key and assigning to it.
CachedAbsence == ~own => \A e \in t.flags : luaH_get(t, e) = NIL
=============================================================================
