------------------------------- MODULE LuaTable -------------------------------
(***************************************************************************)
(* The tables of Lua (src/liblua/src/ltable.c).  A table is an array part  *)
(* and a hash part, a vector of nodes that are chained from the main       *)
(* position of their keys.  Nodes are numbered from 0; a null pointer is   *)
(* NULL.  A key is <<type, value, identity>>: "n" a number, "s" a string   *)
(* and "p" any other object, both with their hash for value; "dead" is a   *)
(* key whose object the collector may have freed.  set and setnum are      *)
(* luaH_set and luaH_setnum with the assignment to the slot they return.   *)
(***************************************************************************)
EXTENDS Integers, Sequences, FiniteSets, FiniteSetsExt, SequencesExt

CONSTANTS NIL, NULL,
          MAXBITS,      \* the array part has at most 2^MAXBITS elements
          MAX_INT,
          Events,       \* the keys that name metamethods with a cached absence
          NumHash       \* the words of a number added up

NilKey == <<"nil", 0, 0>>
Num(n) == <<"n", n, 0>>
Dead(key) == <<"dead", key[2], key[3]>>

Node(key, val, next) == [key |-> key, val |-> val, next |-> next]
dummynode == (0 :> Node(NilKey, NIL, NULL))

sizenode(t) == Cardinality(DOMAIN t.node)
sizearray(t) == Len(t.array)

ceillog2(x) == CHOOSE lg \in 0 .. MAXBITS + 1 : 2^lg >= x /\ (lg > 0 => 2^(lg - 1) < x)

\* (sizenode - 1) | 1, where sizenode is a power of two.
hashmod(t, h) == h % (IF sizenode(t) = 1 THEN 1 ELSE sizenode(t) - 1)

hashnum(t, n) == IF n = 0 THEN 0 ELSE hashmod(t, NumHash[n])

mainposition(t, key) ==
  CASE key[1] = "n" -> hashnum(t, key[2])
    [] key[1] = "s" -> key[2] % sizenode(t)
    [] OTHER -> hashmod(t, key[2])

arrayindex(key) == IF key[1] = "n" THEN key[2] ELSE -1

\* The nodes of the chain that begins at node n.
RECURSIVE Chain(_, _)
Chain(t, n) == IF n = NULL THEN << >> ELSE <<n>> \o Chain(t, t.node[n].next)

\* The first node of a key's chain that has one of these keys, or NULL.
Find(t, key, keys) ==
  LET c == SelectSeq(Chain(t, mainposition(t, key)), LAMBDA n : t.node[n].key \in keys)
  IN  IF c = << >> THEN NULL ELSE Head(c)

luaH_get(t, key) ==
  LET n == Find(t, key, {key})
  IN  IF key = NilKey THEN NIL
      ELSE IF arrayindex(key) \in DOMAIN t.array THEN t.array[arrayindex(key)]
      ELSE IF n = NULL THEN NIL ELSE t.node[n].val

-----------------------------------------------------------------------------
(* Traversal *)

\* Where a key is in a traversal, -1 before the first and NULL for an invalid key.
\* Defective: does not recognise a key that died since.
findindex_alive(t, key) ==
  LET n == Find(t, key, {key})
  IN  IF key = NilKey THEN -1
      ELSE IF arrayindex(key) \in DOMAIN t.array THEN arrayindex(key) - 1
      ELSE IF n = NULL THEN NULL ELSE n + sizearray(t)

findindex(t, key) ==
  LET n == Find(t, key, {key, Dead(key)})
  IN  IF key = NilKey THEN -1
      ELSE IF arrayindex(key) \in DOMAIN t.array THEN arrayindex(key) - 1
      ELSE IF n = NULL THEN NULL ELSE n + sizearray(t)

\* The next key with a value, NilKey after the last, NULL for an invalid key.
luaH_next(t, key) ==
  LET i    == findindex(t, key)
      keys == [j \in 0 .. sizearray(t) + sizenode(t) - 1 |->
                 IF j < sizearray(t) THEN Num(j + 1) ELSE t.node[j - sizearray(t)].key]
      some == {j \in DOMAIN keys : j > i /\ (IF j < sizearray(t) THEN t.array[j + 1] # NIL
                                             ELSE t.node[j - sizearray(t)].val # NIL)}
  IN  IF i = NULL THEN NULL ELSE IF some = {} THEN NilKey ELSE keys[Min(some)]

-----------------------------------------------------------------------------
(* Rehash *)

numusearray(t) == {Num(i) : i \in {j \in DOMAIN t.array : t.array[j] # NIL}}
numusehash(t) == {t.node[i].key : i \in {j \in DOMAIN t.node : t.node[j].val # NIL}}

\* How many of the keys are integers in (2^(i-1), 2^i].
countint(keys, i) ==
  Cardinality({k \in keys : arrayindex(k) \in 1 .. 2^MAXBITS /\ ceillog2(arrayindex(k)) = i})

\* The size of the array part, and how many of the keys go there.
computesizes(nums) ==
  LET a[i \in 0 .. MAXBITS] == nums[i] + (IF i = 0 THEN 0 ELSE a[i - 1])
      good == {i \in 0 .. MAXBITS : nums[i] > 0 /\ a[i] > 2^i \div 2}
  IN  IF good = {} THEN [n |-> 0, na |-> 0] ELSE [n |-> 2^Max(good), na |-> a[Max(good)]]

setarrayvector(t, size) ==
  [t EXCEPT !.array = [i \in 1 .. size |-> IF i <= Len(@) THEN @[i] ELSE NIL]]

\* The sizes stay below 2^MAXBITS: no table overflow.
setnodevector(t, size) ==
  LET n == 2^ceillog2(size)
  IN  IF size = 0 THEN [t EXCEPT !.node = dummynode, !.dummy = TRUE, !.lastfree = 0]
      ELSE [t EXCEPT !.node = [i \in 0 .. n - 1 |-> Node(NilKey, NIL, NULL)],
                     !.dummy = FALSE, !.lastfree = n]

RECURSIVE set(_, _, _), setnum(_, _, _), newkey(_, _, _)

resize(t, nasize, nhsize) ==
  LET old    == sizearray(t)
      grown  == setnodevector(setarrayvector(t, IF nasize > old THEN nasize ELSE old), nhsize)
      cut    == setarrayvector(grown, nasize)
      slice  == SelectSeq([i \in 1 .. old |-> i], LAMBDA i : i > nasize /\ t.array[i] # NIL)
      nodes  == SelectSeq([i \in 1 .. sizenode(t) |-> sizenode(t) - i], LAMBDA i : t.node[i].val # NIL)
      moved  == FoldLeft(LAMBDA u, i : setnum(u, i, t.array[i]), cut, slice)
  IN  FoldLeft(LAMBDA u, i : set(u, t.node[i].key, t.node[i].val), moved, nodes)

luaH_resizearray(t, nasize) == resize(t, nasize, IF t.dummy THEN 0 ELSE sizenode(t))

rehash(t, ek) ==
  LET keys == numusearray(t) \cup numusehash(t) \cup {ek}
      size == computesizes([i \in 0 .. MAXBITS |-> countint(keys, i)])
  IN  resize(t, size.n, Cardinality(keys) - size.na)

\* A new table is known to have none of the metamethods.
luaH_new(narray, nhash) ==
  setnodevector(setarrayvector([array |-> << >>, node |-> dummynode, dummy |-> TRUE,
                                lastfree |-> 0, flags |-> Events], narray), nhash)

-----------------------------------------------------------------------------
(* Insertion *)

\* Defective: takes a place without a value, which may be part of a chain.
getfreepos_used(t) ==
  LET free == {i \in 0 .. t.lastfree - 1 : t.node[i].val = NIL}
  IN  IF free = {} THEN NULL ELSE Max(free)

getfreepos(t) ==
  LET free == {i \in 0 .. t.lastfree - 1 : t.node[i].key = NilKey}
  IN  IF free = {} THEN NULL ELSE Max(free)

\* A colliding node out of its main position moves to the free place n.
Displace(t, key, val, mp, n) ==
  LET prev == CHOOSE p \in Range(Chain(t, mainposition(t, t.node[mp].key))) : t.node[p].next = mp
  IN  [t EXCEPT !.node = [@ EXCEPT ![prev].next = n, ![n] = t.node[mp], ![mp] = Node(key, val, NULL)]]

newkey(t, key, val) ==
  LET mp == mainposition(t, key)
      n  == getfreepos(t)
      u  == [t EXCEPT !.lastfree = n]
  IN  IF t.node[mp].val = NIL /\ ~t.dummy
      THEN [t EXCEPT !.node[mp].key = key, !.node[mp].val = val]
      ELSE IF n = NULL THEN set(rehash(t, key), key, val)
      ELSE IF mainposition(t, t.node[mp].key) # mp THEN Displace(u, key, val, mp, n)
      ELSE [u EXCEPT !.node = [@ EXCEPT ![n] = Node(key, val, t.node[mp].next), ![mp].next = n]]

\* Assigns to the slot of the key, which may be there without a value.
Assign(t, key, val) ==
  LET n == Find(t, key, {key})
  IN  IF arrayindex(key) \in DOMAIN t.array THEN [t EXCEPT !.array[arrayindex(key)] = val]
      ELSE IF n # NULL THEN [t EXCEPT !.node[n].val = val]
      ELSE newkey(t, key, val)

\* luaH_set forgets which metamethods are known to be absent.
set(t, key, val) == Assign([t EXCEPT !.flags = {}], key, val)
setnum(t, n, val) == Assign(t, Num(n), val)

-----------------------------------------------------------------------------
(* Length *)

\* Binary search between an index that is there and one that is not.
RECURSIVE Bisect(_, _, _)
Bisect(t, i, j) ==
  LET m == (i + j) \div 2
  IN  IF j - i <= 1 THEN i
      ELSE IF luaH_get(t, Num(m)) = NIL THEN Bisect(t, i, m) ELSE Bisect(t, m, j)

RECURSIVE unbound_search(_, _, _)
unbound_search(t, i, j) ==
  IF luaH_get(t, Num(j)) = NIL THEN Bisect(t, i, j)
  ELSE IF 2 * j > MAX_INT
  THEN Min({k \in 1 .. sizearray(t) + sizenode(t) + 1 : luaH_get(t, Num(k)) = NIL}) - 1
  ELSE unbound_search(t, j, 2 * j)

luaH_getn(t) ==
  LET j == sizearray(t)
  IN  IF j > 0 /\ t.array[j] = NIL THEN Bisect(t, 0, j)
      ELSE IF t.dummy THEN j ELSE unbound_search(t, j, j + 1)
=============================================================================
