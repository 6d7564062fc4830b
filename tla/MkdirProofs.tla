------------------------------ MODULE MkdirProofs ------------------------------
(***************************************************************************)
(* What pathcomp_mkdir promises, for any number of processes, any          *)
(* pathnames and any file system to begin with.                            *)
(*                                                                         *)
(* The argument: a call has passed only directories, except that the last  *)
(* one it has passed may be a file.  It gets behind that file only if what *)
(* comes next exists or can be made; both need a directory to be in, and a *)
(* file is none.                                                           *)
(***************************************************************************)
EXTENDS Mkdir, Indices, SequenceTheorems

-----------------------------------------------------------------------------
(* What the loop of pathcomp_mkdir finds in a pathname: it stops once at   *)
(* each leading directory, and the directory that the one at a stop is in  *)
(* is the one at the stop before.                                          *)

Name == Seq(Atom)

\* The positions up to m that begin a component or belong to one.
Firsts(path, m) == {i \in 1..m : path[i] # "/" \/ i = 1 \/ path[i - 1] # "/"}

-----------------------------------------------------------------------------
(* The elements of a set of positions, in order *)

\* Every number up to the size of the set names one element.
LEMMA NthType ==
  ASSUME NEW n \in Nat, NEW K \in SUBSET (1..n), NEW i \in 1..Cardinality(K)
  PROVE  NthOf(K, i) \in K /\ Rank(K, NthOf(K, i)) = i
<1>1. \E k \in K : Cardinality({j \in K : j <= k}) = i
  BY RankOnto, SMTT(20) DEF Rank
<1>. QED
  BY <1>1, Zenon DEF NthOf, Rank

\* An element is named by its rank.
LEMMA NthIs ==
  ASSUME NEW n \in Nat, NEW K \in SUBSET (1..n), NEW k \in K
  PROVE  /\ Cardinality(K) \in Nat
         /\ Rank(K, k) \in 1..Cardinality(K)
         /\ NthOf(K, Rank(K, k)) = k
<1>1. k \in Nat /\ k - 1 \in Nat /\ k - 1 < k
  OBVIOUS
<1>2. Rank(K, k) \in 0..Cardinality(K) /\ Cardinality(K) \in Nat
  BY <1>1, RankType, Zenon
<1>3. Rank(K, k - 1) \in 0..Cardinality(K)
  BY <1>1, RankType, Zenon
<1>4. Rank(K, k - 1) < Rank(K, k)
  BY <1>1, RankLess, Zenon
<1>5. Rank(K, k) \in 1..Cardinality(K)
  BY <1>2, <1>3, <1>4
<1>. DEFINE m == NthOf(K, Rank(K, k))
<1>6. m \in K /\ Rank(K, m) = Rank(K, k)
  BY <1>5, NthType
<1>7. m \in Nat
  <2>1. \A j \in K : j \in Nat
    OBVIOUS
  <2>. QED
    BY <1>6, <2>1, Zenon
<1>8. ~(m < k)
  <2>1. m < k => Rank(K, m) < Rank(K, k)
    BY <1>7, RankLess, Zenon
  <2>. QED
    BY <1>2, <1>6, <2>1
<1>9. ~(k < m)
  <2>1. k < m => Rank(K, k) < Rank(K, m)
    BY <1>1, <1>6, RankLess, Zenon
  <2>. QED
    BY <1>2, <1>6, <2>1
<1>. QED
  BY <1>1, <1>2, <1>5, <1>7, <1>8, <1>9

\* The elements up to m have the same ranks among themselves.
LEMMA NthPrefix ==
  ASSUME NEW n \in Nat, NEW K \in SUBSET (1..n), NEW m \in Nat,
         NEW i \in 1..Cardinality({j \in K : j <= m})
  PROVE  NthOf({j \in K : j <= m}, i) = NthOf(K, i)
<1>. DEFINE A == {j \in K : j <= m}
            a == NthOf(A, i)
<1>1. A \in SUBSET (1..n)
  BY Zenon
<1>2. a \in A /\ Rank(A, a) = i
  BY <1>1, NthType
<1>3. \A j \in K : j <= a => j <= m
  <2>2. \A j \in K : j \in Nat
    OBVIOUS
  <2>1. a \in Nat /\ a <= m
    BY <1>2, <2>2, Zenon
  <2>. QED
    BY <2>1, <2>2
<1>4. {j \in A : j <= a} = {j \in K : j <= a}
  BY <1>3, Zenon
<1>5. Rank(K, a) = i
  BY <1>2, <1>4 DEF Rank
<1>6. a \in K
  BY <1>2
<1>7. NthOf(K, Rank(K, a)) = a
  BY <1>6, NthIs, Zenon
<1>. QED
  BY <1>5, <1>7

-----------------------------------------------------------------------------
(* Normal pathnames *)

\* A normal pathname has one element for every position kept.
LEMMA NormalType ==
  ASSUME NEW path \in Name
  PROVE  /\ Kept(path) \in SUBSET (1..Len(path))
         /\ Cardinality(Kept(path)) \in Nat
         /\ Normal(path) \in Name
         /\ Len(Normal(path)) = Cardinality(Kept(path))
         /\ \A i \in 1..Cardinality(Kept(path)) : Normal(path)[i] = path[NthOf(Kept(path), i)]
<1>. DEFINE K == Kept(path)
            N == Cardinality(K)
<1>1. Len(path) \in Nat /\ DOMAIN path = 1..Len(path)
  BY DEF Name
<1>2. K \in SUBSET (1..Len(path))
  BY <1>1 DEF Kept
<1>3. N \in Nat
  BY <1>1, <1>2, RankType, Zenon
<1>4. \A i \in 1..N : NthOf(K, i) \in 1..Len(path)
  BY <1>1, <1>2, NthType, Zenon
<1>5. \A i \in 1..N : path[NthOf(K, i)] \in Atom
  BY <1>4 DEF Name
<1>6. Normal(path) \in [1..N -> Atom]
  BY <1>5 DEF Normal
<1>7. Normal(path) \in Name /\ Len(Normal(path)) = N
  BY <1>3, <1>6 DEF Name
<1>. QED
  BY <1>2, <1>3, <1>7 DEF Normal

\* Pathnames that have the same positions kept, and agree there, are one.
LEMMA NormalEqual ==
  ASSUME NEW a \in Name, NEW b \in Name, Kept(a) = Kept(b),
         \A i \in Kept(a) : a[i] = b[i]
  PROVE  Normal(a) = Normal(b)
<1>1. Len(a) \in Nat /\ Kept(a) \in SUBSET (1..Len(a))
  BY NormalType DEF Name
<1>2. \A i \in 1..Cardinality(Kept(a)) : NthOf(Kept(a), i) \in Kept(a)
  BY <1>1, NthType, Zenon
<1>3. \A i \in 1..Cardinality(Kept(a)) : a[NthOf(Kept(a), i)] = b[NthOf(Kept(a), i)]
  BY <1>2
<1>. QED
  BY <1>3 DEF Normal

\* The part of a pathname before a slash.
LEMMA PartType ==
  ASSUME NEW path \in Name, NEW m \in 0..Len(path)
  PROVE  /\ SubSeq(path, 1, m) \in Name
         /\ Len(SubSeq(path, 1, m)) = m
         /\ DOMAIN SubSeq(path, 1, m) = 1..m
         /\ \A i \in 1..m : SubSeq(path, 1, m)[i] = path[i]
<1>1. Len(path) \in Nat /\ m \in Nat
  BY DEF Name
<1>2. \A i \in 1..m : path[i] \in Atom
  BY <1>1 DEF Name
<1>3. SubSeq(path, 1, m) = [i \in 1..m |-> path[i]]
  BY <1>1, <1>2 DEF Name
<1>4. SubSeq(path, 1, m) \in [1..m -> Atom]
  BY <1>2, <1>3, Zenon
<1>5. SubSeq(path, 1, m) \in Name /\ Len(SubSeq(path, 1, m)) = m
  BY <1>1, <1>4 DEF Name
<1>. QED
  BY <1>3, <1>5

\* Up to the end of a component, only slashes that follow a slash are left out.
LEMMA KeptPart ==
  ASSUME NEW path \in Name, NEW m \in 1..Len(path), path[m] # "/"
  PROVE  Kept(SubSeq(path, 1, m)) = Firsts(path, m)
<1>. DEFINE s == SubSeq(path, 1, m)
<1>1. Len(path) \in Nat /\ m \in Nat /\ m \in 0..Len(path) /\ m \in 1..m
  BY DEF Name
<1>2. DOMAIN s = 1..m /\ Len(s) = m /\ \A i \in 1..m : s[i] = path[i]
  BY <1>1, PartType
<1>3. \A i \in 1..m : i # 1 => i - 1 \in 1..m
  BY <1>1
<1>4. \A i \in 1..m : m \in i..m
  BY <1>1
<1>5. \A i \in 1..m : \E j \in i..m : s[j] # "/"
  BY <1>1, <1>2, <1>4
<1>. QED
  BY <1>2, <1>3, <1>5 DEF Kept, Firsts

-----------------------------------------------------------------------------
(* The directories at the stops *)

\* The loop stops at a slash behind a component.
LEMMA StopIs ==
  ASSUME NEW path \in Name, NEW k \in Stops(path, 0)
  PROVE  /\ Len(path) \in Nat /\ k \in 2..Len(path) /\ k - 1 \in 1..Len(path)
         /\ path[k] = "/" /\ path[k - 1] # "/"
         /\ SubSeq(path, 1, k - 1) \in Name
         /\ Kept(SubSeq(path, 1, k - 1)) = Firsts(path, k - 1)
         /\ Firsts(path, k - 1) \in SUBSET (1..Len(path))
         /\ k - 1 \in Firsts(path, k - 1)
<1>1. Len(path) \in Nat /\ k \in 2..Len(path) /\ path[k] = "/" /\ path[k - 1] # "/"
  BY DEF Name, Stops
<1>2. k - 1 \in 1..Len(path) /\ k - 1 \in 0..Len(path)
  BY <1>1
<1>3. SubSeq(path, 1, k - 1) \in Name
  BY <1>2, PartType
<1>4. Kept(SubSeq(path, 1, k - 1)) = Firsts(path, k - 1)
  BY <1>1, <1>2, KeptPart
<1>5. Firsts(path, k - 1) \in SUBSET (1..Len(path))
  BY <1>1 DEF Firsts
<1>6. k - 1 \in Firsts(path, k - 1)
  BY <1>1 DEF Firsts
<1>. QED
  BY <1>1, <1>2, <1>3, <1>4, <1>5, <1>6

\* The normal pathname of the directory at a stop.
LEMMA CutIs ==
  ASSUME NEW path \in Name, NEW k \in Stops(path, 0)
  PROVE  LET F == Firsts(path, k - 1)
         IN  /\ Cut(path, k) \in Name
             /\ Cardinality(F) \in Nat
             /\ DOMAIN Cut(path, k) = 1..Cardinality(F)
             /\ Len(Cut(path, k)) = Cardinality(F)
             /\ \A i \in 1..Cardinality(F) : NthOf(F, i) \in F /\ Cut(path, k)[i] = path[NthOf(F, i)]
             /\ \A m \in F : /\ Rank(F, m) \in 1..Cardinality(F)
                             /\ Cut(path, k)[Rank(F, m)] = path[m]
<1>. DEFINE F == Firsts(path, k - 1)
            s == SubSeq(path, 1, k - 1)
<1>1. Len(path) \in Nat /\ s \in Name /\ Kept(s) = F /\ F \in SUBSET (1..Len(path))
  BY StopIs
<1>2. \A i \in 1..(k - 1) : s[i] = path[i]
  <2>1. k - 1 \in 0..Len(path)
    BY StopIs
  <2>. QED
    BY <2>1, PartType
<1>3. \A i \in 1..Cardinality(F) : NthOf(F, i) \in F
  BY <1>1, NthType, Zenon
<1>4. \A m \in F : s[m] = path[m]
  BY <1>2, Zenon DEF Firsts
<1>5. /\ Cut(path, k) \in Name
      /\ Cardinality(F) \in Nat
      /\ Len(Cut(path, k)) = Cardinality(F)
      /\ \A i \in 1..Cardinality(F) : Cut(path, k)[i] = s[NthOf(F, i)]
  BY <1>1, NormalType, Zenon DEF Cut
<1>6. \A i \in 1..Cardinality(F) : Cut(path, k)[i] = path[NthOf(F, i)]
  BY <1>3, <1>4, <1>5, Zenon
<1>7. \A m \in F : Rank(F, m) \in 1..Cardinality(F) /\ NthOf(F, Rank(F, m)) = m
  BY <1>1, NthIs, Zenon
<1>8. DOMAIN Cut(path, k) = 1..Cardinality(F)
  BY <1>5 DEF Name
<1>. QED
  BY <1>3, <1>5, <1>6, <1>7, <1>8

\* It is neither the working directory nor the root directory: it ends in a
\* component.
LEMMA CutIsNamed ==
  ASSUME NEW path \in Name, NEW k \in Stops(path, 0)
  PROVE  Cut(path, k) \in Name \ {<< >>, <<"/">>}
<1>. DEFINE F == Firsts(path, k - 1)
            q == Cut(path, k)
<1>1. Len(path) \in Nat /\ F \in SUBSET (1..Len(path)) /\ k - 1 \in F /\ path[k - 1] # "/"
  BY StopIs
<1>2. q \in Name /\ DOMAIN q = 1..Cardinality(F) /\ Cardinality(F) \in Nat
  BY CutIs
<1>3. Rank(F, k - 1) \in 1..Cardinality(F) /\ q[Rank(F, k - 1)] # "/"
  BY <1>1, CutIs
<1>4. q # << >>
  <2>1. DOMAIN << >> = {}
    OBVIOUS
  <2>. QED
    BY <1>2, <1>3, <2>1
<1>5. q # <<"/">>
  <2>1. DOMAIN <<"/">> = 1..1 /\ <<"/">>[1] = "/"
    OBVIOUS
  <2>2. \A i \in 1..1 : i = 1
    OBVIOUS
  <2>. QED
    BY <1>2, <1>3, <2>1, <2>2
<1>. QED
  BY <1>2, <1>4, <1>5

\* After the stop at a slash, the loop has passed the stops up to it.
LEMMA StopsAfter ==
  ASSUME NEW path \in Name, NEW at \in 0..Len(path), at > 0 => path[at] = "/"
  PROVE  Stops(path, at) = {k \in Stops(path, 0) : k > at}
<1>1. Len(path) \in Nat /\ at \in Nat
  BY DEF Name
<1>2. ASSUME NEW k
      PROVE  k \in Stops(path, at) <=> k \in Stops(path, 0) /\ k > at
  <2>1. CASE k \in Stops(path, at)
    <3>1. k \in (at + 2)..Len(path) /\ path[k] = "/" /\ path[k - 1] # "/"
      BY <2>1 DEF Stops
    <3>2. k \in (0 + 2)..Len(path) /\ k > at
      BY <1>1, <3>1
    <3>. QED
      BY <2>1, <3>1, <3>2 DEF Stops
  <2>2. CASE k \in Stops(path, 0) /\ k > at
    <3>1. k \in (0 + 2)..Len(path) /\ path[k] = "/" /\ path[k - 1] # "/"
      BY <2>2 DEF Stops
    <3>2. k # at + 1
      <4>1. CASE at = 0
        BY <3>1, <4>1
      <4>2. CASE at > 0
        <5>1. SUFFICES ASSUME k = at + 1 PROVE FALSE
          OBVIOUS
        <5>2. k - 1 = at
          BY <1>1, <5>1
        <5>. QED
          BY <3>1, <4>2, <5>2
      <4>. QED
        BY <1>1, <4>1, <4>2
    <3>3. k \in (at + 2)..Len(path)
      BY <1>1, <2>2, <3>1, <3>2
    <3>. QED
      BY <2>2, <3>1, <3>3 DEF Stops
  <2>. QED
    BY <2>1, <2>2
<1>. QED
  BY <1>2

\* The slash that the loop goes to is the first of the stops ahead.
LEMMA SeekIs ==
  ASSUME NEW path \in Name, NEW at \in Nat, Stops(path, at) # {}
  PROVE  Seek(path, at) \in Stops(path, at) /\ \A j \in Stops(path, at) : Seek(path, at) <= j
<1>1. Stops(path, at) \in SUBSET Nat
  BY DEF Stops, Name
<1>2. \E k \in Stops(path, at) : \A j \in Stops(path, at) : k <= j
  BY <1>1, LeastNumber
<1>. QED
  BY <1>2 DEF Seek

\* A slash with a component somewhere before it stands for the stop behind the last
\* such component.
LEMMA LastStop ==
  ASSUME NEW path \in Name, NEW k \in 2..Len(path), path[k] = "/",
         {j \in 1..(k - 1) : path[j] # "/"} # {}
  PROVE  \E m \in Stops(path, 0) :
           /\ m <= k /\ \A j \in Stops(path, 0) : j <= k => j <= m
           /\ Cut(path, k) = Cut(path, m)
<1>. DEFINE s == SubSeq(path, 1, k - 1)
            W == {j \in 1..(k - 1) : path[j] # "/"}
<1>0. Len(path) \in Nat /\ k - 1 \in Nat /\ k - 1 \in 0..Len(path) /\ k - 1 \in 1..Len(path)
  BY DEF Name
<1>1. /\ s \in Name /\ DOMAIN s = 1..(k - 1) /\ Len(s) = k - 1
      /\ \A i \in 1..(k - 1) : s[i] = path[i]
  BY <1>0, PartType
<1>2. W # {}
  OBVIOUS
<1>3. PICK m \in W : \A j \in W : j <= m
  <2>1. W \in SUBSET (1..(k - 1))
    OBVIOUS
  <2>. QED
    BY <1>0, <1>2, <2>1, GreatestIndex, Zenon
<1>4. m \in 1..Len(path) /\ m < k /\ path[m] # "/"
  BY <1>0
<1>5. \A j \in 1..(k - 1) : j > m => path[j] = "/"
  <2>1. \A j \in 1..(k - 1) : j > m => ~(j <= m)
    BY <1>4
  <2>. QED
    BY <1>3, <2>1
<1>6. path[m + 1] = "/"
  <2>1. m + 1 = k \/ (m + 1 \in 1..(k - 1) /\ m + 1 > m)
    BY <1>4
  <2>. QED
    BY <1>5, <2>1
<1>7. m + 1 \in Stops(path, 0)
  <2>1. m + 1 \in (0 + 2)..Len(path) /\ (m + 1) - 1 = m
    BY <1>0, <1>4
  <2>. QED
    BY <1>4, <1>6, <2>1 DEF Stops
<1>8. Kept(s) = Firsts(path, m)
  <2>1. ASSUME NEW i \in 1..(k - 1)
        PROVE  i \in Kept(s) <=> i \in Firsts(path, m)
    <3>1. CASE i <= m
      <4>1. i \in 1..m /\ m \in i..(k - 1) /\ m \in 1..(k - 1)
        BY <1>4, <3>1
      <4>2. \E j \in i..Len(s) : s[j] # "/"
        BY <1>1, <1>4, <4>1
      <4>3. i # 1 => i - 1 \in 1..(k - 1)
        BY <1>0
      <4>. QED
        BY <1>1, <4>1, <4>2, <4>3 DEF Kept, Firsts
    <3>2. CASE i > m
      <4>1. i \notin 1..m /\ i # 1
        BY <1>4, <3>2
      <4>2. \A j \in i..(k - 1) : j \in 1..(k - 1) /\ j > m
        BY <1>4, <3>2
      <4>3. \A j \in i..Len(s) : s[j] = "/"
        BY <1>1, <1>5, <4>2
      <4>4. s[i] = "/"
        BY <1>1, <1>5, <3>2
      <4>. QED
        BY <4>1, <4>3, <4>4 DEF Kept, Firsts
    <3>. QED
      BY <1>4, <3>1, <3>2
  <2>2. Kept(s) \in SUBSET (1..(k - 1))
    BY <1>1 DEF Kept
  <2>3. Firsts(path, m) \in SUBSET (1..(k - 1))
    BY <1>4 DEF Firsts
  <2>. QED
    BY <2>1, <2>2, <2>3, SMTT(20)
<1>9. Normal(s) = Normal(SubSeq(path, 1, m))
  <2>1. m \in 0..Len(path)
    BY <1>4
  <2>2. /\ SubSeq(path, 1, m) \in Name
        /\ \A i \in 1..m : SubSeq(path, 1, m)[i] = path[i]
    BY <2>1, PartType
  <2>3. Kept(SubSeq(path, 1, m)) = Firsts(path, m)
    BY <1>4, KeptPart
  <2>4. \A i \in Firsts(path, m) : i \in 1..m /\ i \in 1..(k - 1)
    BY <1>4 DEF Firsts
  <2>5. \A i \in Kept(s) : s[i] = SubSeq(path, 1, m)[i]
    BY <1>1, <1>8, <2>2, <2>4
  <2>. QED
    BY <1>1, <1>8, <2>2, <2>3, <2>5, NormalEqual, Zenon
<1>10. Cut(path, m + 1) = Normal(SubSeq(path, 1, m))
  <2>1. (m + 1) - 1 = m
    BY <1>4
  <2>. QED
    BY <2>1 DEF Cut
<1>11. \A j \in Stops(path, 0) : j <= k => j <= m + 1
  <2>1. ASSUME NEW j \in Stops(path, 0), j <= k PROVE j <= m + 1
    <3>1. j \in Nat /\ j - 1 \in 1..(k - 1) /\ path[j - 1] # "/"
      BY <1>0, <2>1, StopIs
    <3>2. j - 1 <= m
      BY <1>3, <3>1
    <3>. QED
      BY <3>1, <3>2, <1>4
  <2>. QED
    BY <2>1
<1>12. m + 1 <= k
  BY <1>0, <1>4
<1>. QED
  BY <1>7, <1>9, <1>10, <1>11, <1>12 DEF Cut

\* The leading directories are those at the stops: slashes in a row, and slashes
\* at the beginning, lead to no others.
LEMMA LeadingIs ==
  ASSUME NEW path \in Name
  PROVE  Leading(path) = {Cut(path, k) : k \in Stops(path, 0)}
<1>1. Len(path) \in Nat
  BY DEF Name
<1>2. ASSUME NEW k \in 2..Len(path), path[k] = "/", Cut(path, k) # <<"/">>
      PROVE  \E m \in Stops(path, 0) : Cut(path, k) = Cut(path, m)
  <2>. DEFINE s == SubSeq(path, 1, k - 1)
              W == {j \in 1..(k - 1) : path[j] # "/"}
  <2>0. k - 1 \in Nat /\ k - 1 \in 0..Len(path) /\ k - 1 \in 1..Len(path)
    BY <1>1
  <2>1. /\ s \in Name /\ DOMAIN s = 1..(k - 1) /\ Len(s) = k - 1
        /\ \A i \in 1..(k - 1) : s[i] = path[i]
    BY <2>0, PartType
  <2>2. W # {}
    <3>1. SUFFICES ASSUME W = {} PROVE FALSE
      OBVIOUS
    <3>2. \A i \in 1..(k - 1) : s[i] = "/"
      BY <2>1, <3>1
    <3>3. \A i \in 1..(k - 1) : i # 1 => i - 1 \in 1..(k - 1)
      BY <2>0
    <3>4. 1 \in 1..(k - 1)
      BY <2>0
    <3>5. Kept(s) = {1}
      BY <2>1, <3>2, <3>3, <3>4 DEF Kept
    <3>6. Cardinality({1}) = 1
      BY FS_Singleton, Zenon
    <3>7. NthOf({1}, 1) = 1
      <4>1. Cardinality({1}) \in Nat /\ {1} \in SUBSET (1..1) /\ 1 \in 1..Cardinality({1})
        BY <3>6
      <4>2. NthOf({1}, 1) \in {1}
        BY <4>1, NthType
      <4>. QED
        BY <4>2
    <3>8. Normal(s) = [i \in 1..1 |-> s[NthOf({1}, i)]]
      BY <3>5, <3>6, Zenon DEF Normal
    <3>9. \A i \in 1..1 : i = 1
      OBVIOUS
    <3>10. Normal(s) = [i \in 1..1 |-> "/"]
      BY <3>2, <3>4, <3>7, <3>8, <3>9, Zenon
    <3>11. <<"/">> = [i \in 1..1 |-> "/"]
      BY <3>9
    <3>. QED
      BY <1>2, <3>10, <3>11 DEF Cut
  <2>. QED
    BY <1>2, <2>2, LastStop
<1>3. \A k \in Stops(path, 0) : k \in 2..Len(path) /\ path[k] = "/" /\ Cut(path, k) # <<"/">>
  BY StopIs, CutIsNamed
<1>. QED
  BY <1>2, <1>3 DEF Leading

\* The directory that the first stop is in is the working directory or the root
\* directory.
LEMMA ParentOfFirst ==
  ASSUME NEW path \in Name, NEW k \in Stops(path, 0), \A j \in Stops(path, 0) : ~(j < k)
  PROVE  Parent(Cut(path, k)) \in {<< >>, <<"/">>}
<1>. DEFINE F == Firsts(path, k - 1)
            q == Cut(path, k)
            slashes == {i \in DOMAIN q : q[i] = "/"}
<1>1. Len(path) \in Nat /\ F \in SUBSET (1..Len(path)) /\ k \in 2..Len(path)
  BY StopIs
<1>2. \A m \in F : path[m] = "/" => m = 1
  <2>1. SUFFICES ASSUME NEW m \in F, path[m] = "/", m # 1 PROVE FALSE
    OBVIOUS
  <2>2. m \in 1..(k - 1) /\ path[m - 1] # "/"
    BY <2>1 DEF Firsts
  <2>3. m \in (0 + 2)..Len(path) /\ m < k
    BY <1>1, <2>1, <2>2
  <2>4. m \in Stops(path, 0)
    BY <2>1, <2>2, <2>3 DEF Stops
  <2>. QED
    BY <2>3, <2>4
<1>3. \A i \in slashes : NthOf(F, i) = 1 /\ Rank(F, NthOf(F, i)) = i
  <2>1. DOMAIN q = 1..Cardinality(F)
    BY CutIs
  <2>2. \A i \in 1..Cardinality(F) : NthOf(F, i) \in F /\ q[i] = path[NthOf(F, i)]
    BY CutIs
  <2>3. \A i \in 1..Cardinality(F) : Rank(F, NthOf(F, i)) = i
    BY <1>1, NthType, Zenon
  <2>. QED
    BY <1>2, <2>1, <2>2, <2>3
<1>4. Rank(F, 1) = 1
  <2>1. 1 \in F
    BY <1>1 DEF Firsts
  <2>2. \A j \in F : j <= 1 <=> j = 1
    BY <1>1
  <2>3. {j \in F : j <= 1} = {1}
    BY <2>1, <2>2
  <2>. QED
    BY <2>3, FS_Singleton DEF Rank
<1>5. slashes = {} \/ slashes = {1}
  BY <1>3, <1>4
<1>. QED
  BY <1>5 DEF Parent

\* The directory that a later stop is in is the one at the stop before.
LEMMA ParentOfNext ==
  ASSUME NEW path \in Name, NEW k \in Stops(path, 0), NEW s \in Stops(path, 0),
         s < k, \A j \in Stops(path, 0) : j < k => j <= s
  PROVE  Parent(Cut(path, k)) = Cut(path, s)
<1>. DEFINE F == Firsts(path, k - 1)
            G == Firsts(path, s - 1)
            q == Cut(path, k)
            r == Rank(F, s)
            slashes == {i \in DOMAIN q : q[i] = "/"}
<1>1. Len(path) \in Nat /\ F \in SUBSET (1..Len(path)) /\ k \in 2..Len(path)
  BY StopIs
<1>2. s \in 2..Len(path) /\ s - 1 \in 1..Len(path) /\ path[s] = "/" /\ path[s - 1] # "/"
  BY StopIs
<1>3. s \in F
  BY <1>1, <1>2 DEF Firsts
<1>4. /\ q \in Name /\ Cardinality(F) \in Nat
      /\ DOMAIN q = 1..Cardinality(F) /\ Len(q) = Cardinality(F)
      /\ \A i \in 1..Cardinality(F) : NthOf(F, i) \in F /\ q[i] = path[NthOf(F, i)]
  BY CutIs
<1>5. r \in 1..Cardinality(F) /\ q[r] = "/"
  BY <1>2, <1>3, CutIs
<1>6. r \in slashes
  BY <1>4, <1>5
<1>7. \A m \in F : path[m] = "/" => m <= s
  <2>1. SUFFICES ASSUME NEW m \in F, path[m] = "/", m # 1 PROVE m <= s
    BY <1>1, <1>2
  <2>2. m \in 1..(k - 1) /\ path[m - 1] # "/"
    BY <2>1 DEF Firsts
  <2>3. m \in (0 + 2)..Len(path) /\ m < k
    BY <1>1, <2>1, <2>2
  <2>4. m \in Stops(path, 0)
    BY <2>1, <2>2, <2>3 DEF Stops
  <2>. QED
    BY <2>3, <2>4
<1>8. \A i \in slashes : i <= r
  <2>1. SUFFICES ASSUME NEW i \in slashes PROVE i <= r
    OBVIOUS
  <2>2. i \in 1..Cardinality(F) /\ NthOf(F, i) \in F /\ NthOf(F, i) <= s
    BY <1>4, <1>7, <2>1
  <2>3. Rank(F, NthOf(F, i)) = i
    BY <1>1, <2>2, NthType, Zenon
  <2>4. NthOf(F, i) \in Nat /\ s \in Nat
    <3>1. \A j \in F : j \in Nat
      BY <1>1
    <3>. QED
      BY <1>3, <2>2, <3>1
  <2>5. NthOf(F, i) < s => Rank(F, NthOf(F, i)) < r
    BY <1>1, <1>3, <2>4, RankLess, Zenon
  <2>6. NthOf(F, i) = s \/ NthOf(F, i) < s
    BY <2>2, <2>4
  <2>. QED
    BY <1>4, <1>5, <2>2, <2>3, <2>5, <2>6
<1>9. G = {j \in F : j <= s - 1}
  <2>1. \A i \in 1..(s - 1) : i \in 1..(k - 1) /\ i <= s - 1
    BY <1>1, <1>2
  <2>2. \A i \in 1..(k - 1) : i <= s - 1 => i \in 1..(s - 1)
    BY <1>1, <1>2
  <2>. QED
    BY <2>1, <2>2 DEF Firsts
<1>10. Cardinality(G) = r - 1
  <2>1. s - 1 \in Nat /\ (s - 1) + 1 = s
    BY <1>2
  <2>2. Rank(F, (s - 1) + 1)
          = IF (s - 1) + 1 \in F THEN Rank(F, s - 1) + 1 ELSE Rank(F, s - 1)
    BY <1>1, <2>1, RankStep, Zenon
  <2>3. Rank(F, s - 1) \in 0..Cardinality(F)
    BY <1>1, <2>1, RankType, Zenon
  <2>4. r = Rank(F, s - 1) + 1
    BY <1>3, <2>1, <2>2
  <2>5. Cardinality(G) = Rank(F, s - 1)
    BY <1>9 DEF Rank
  <2>. QED
    BY <1>4, <2>3, <2>4, <2>5
<1>11. r > 1
  <2>1. /\ Cardinality(G) \in Nat
        /\ \A m \in G : Rank(G, m) \in 1..Cardinality(G)
    BY CutIs
  <2>2. s - 1 \in G
    BY StopIs
  <2>. QED
    BY <1>5, <1>10, <2>1, <2>2
<1>12. Parent(q) = SubSeq(q, 1, r - 1)
  <2>1. slashes # {} /\ slashes # {1}
    BY <1>6, <1>11
  <2>2. \A i \in slashes : i \in Nat
    BY <1>4
  <2>3. \A i \in slashes : (\A j \in slashes : j <= i) => i = r
    BY <1>6, <1>8, <2>2
  <2>4. (CHOOSE i \in slashes : \A j \in slashes : j <= i) = r
    BY <1>6, <1>8, <2>3
  <2>. QED
    BY <2>1, <2>4, Zenon DEF Parent
<1>13. SubSeq(q, 1, r - 1) = [i \in 1..(r - 1) |-> q[i]]
  BY <1>4, <1>5 DEF Name
<1>14. Cut(path, s) = [i \in 1..(r - 1) |-> path[NthOf(G, i)]]
  <2>1. /\ DOMAIN Cut(path, s) = 1..Cardinality(G)
        /\ Cut(path, s) \in Name
        /\ \A i \in 1..Cardinality(G) : Cut(path, s)[i] = path[NthOf(G, i)]
    BY CutIs
  <2>2. Cut(path, s) = [i \in DOMAIN Cut(path, s) |-> Cut(path, s)[i]]
    BY <2>1 DEF Name
  <2>. QED
    BY <1>10, <2>1, <2>2
<1>15. \A i \in 1..(r - 1) : NthOf(G, i) = NthOf(F, i)
  <2>1. s - 1 \in Nat
    BY <1>2
  <2>2. \A i \in 1..Cardinality({j \in F : j <= s - 1}) :
           NthOf({j \in F : j <= s - 1}, i) = NthOf(F, i)
    BY <1>1, <2>1, NthPrefix, Zenon
  <2>. QED
    BY <1>9, <1>10, <2>2
<1>16. \A i \in 1..(r - 1) : q[i] = path[NthOf(G, i)]
  <2>1. \A i \in 1..(r - 1) : i \in 1..Cardinality(F)
    BY <1>4, <1>5
  <2>. QED
    BY <1>4, <1>15, <2>1
<1>. QED
  BY <1>12, <1>13, <1>14, <1>16

-----------------------------------------------------------------------------
(* Pathnames that exist *)

\* When stat(2) finds a pathname, all its leading directories are there: each is
\* in the one before it.
LEMMA ExistingIsReached ==
  ASSUME NEW fs \in FileSystems, Sound(fs), NEW path \in Name, path_exists(fs, path),
         NEW k \in Stops(path, 0)
  PROVE  IsDir(fs, Cut(path, k))
<1>. DEFINE n == Len(path) + 1
            name == Append(path, "/")
<1>1. Len(path) \in Nat /\ n \in Nat /\ k \in 2..Len(path) /\ path[k - 1] # "/"
  BY StopIs
<1>2. /\ name \in Name /\ Len(name) = n /\ name[n] = "/"
      /\ \A i \in 1..Len(path) : name[i] = path[i]
  <2>1. path \in Seq(Atom)
    BY DEF Name
  <2>2. "/" \in Atom
    BY DEF Atom
  <2>3. /\ name \in Seq(Atom) /\ Len(name) = n /\ name[n] = "/"
        /\ \A i \in 1..Len(path) : name[i] = path[i]
    BY <2>1, <2>2, AppendProperties
  <2>. QED
    BY <2>3 DEF Name
<1>3. \A m \in 0..Len(path) : SubSeq(name, 1, m) = SubSeq(path, 1, m)
  <2>1. ASSUME NEW m \in 0..Len(path) PROVE SubSeq(name, 1, m) = SubSeq(path, 1, m)
    <3>1. m \in 0..Len(name) /\ \A i \in 1..m : i \in 1..Len(path)
      BY <1>1, <1>2
    <3>2. /\ SubSeq(path, 1, m) \in Name /\ Len(SubSeq(path, 1, m)) = m
          /\ \A i \in 1..m : SubSeq(path, 1, m)[i] = path[i]
      BY PartType, Zenon
    <3>3. /\ SubSeq(name, 1, m) \in Name /\ Len(SubSeq(name, 1, m)) = m
          /\ \A i \in 1..m : SubSeq(name, 1, m)[i] = name[i]
      BY <1>2, <3>1, PartType, Zenon
    <3>. HIDE DEF name, n
    <3>. QED
      BY <1>2, <3>1, <3>2, <3>3, SeqEqual DEF Name
  <2>. QED
    BY <2>1
<1>4. Cut(name, n) = Normal(path)
  <2>1. SubSeq(path, 1, Len(path)) = path
    BY DEF Name
  <2>2. n - 1 = Len(path) /\ Len(path) \in 0..Len(path)
    BY <1>1
  <2>. HIDE DEF name
  <2>. QED
    BY <1>3, <2>1, <2>2, Zenon DEF Cut
<1>5. \A j \in Stops(path, 0) : j \in Stops(name, 0) /\ Cut(name, j) = Cut(path, j)
  <2>1. ASSUME NEW j \in Stops(path, 0)
        PROVE  j \in Stops(name, 0) /\ Cut(name, j) = Cut(path, j)
    <3>1. j \in 2..Len(path) /\ j - 1 \in 1..Len(path) /\ path[j] = "/" /\ path[j - 1] # "/"
      BY StopIs
    <3>2. j \in 1..Len(path) /\ j \in (0 + 2)..n /\ j - 1 \in 0..Len(path)
      BY <1>1, <3>1
    <3>. HIDE DEF name, n
    <3>3. j \in Stops(name, 0)
      BY <1>2, <3>1, <3>2 DEF Stops
    <3>. QED
      BY <1>3, <3>2, <3>3, Zenon DEF Cut
  <2>. QED
    BY <2>1
<1>6. PICK last \in Stops(name, 0) :
        (\A j \in Stops(name, 0) : j <= n => j <= last) /\ Cut(name, n) = Cut(name, last)
  <2>1. n \in 2..Len(name) /\ k - 1 \in 1..(n - 1) /\ k - 1 \in 1..Len(path)
    BY <1>1, <1>2
  <2>. HIDE DEF name, n
  <2>2. {j \in 1..(n - 1) : name[j] # "/"} # {}
    BY <1>1, <1>2, <2>1
  <2>. QED
    BY <1>2, <2>1, <2>2, LastStop
<1>. HIDE DEF name, n
<1>7. \A j \in Stops(name, 0) : j \in Nat /\ j <= last
  <2>1. \A j \in Stops(name, 0) : j \in 2..n
    BY <1>2, StopIs
  <2>. QED
    BY <1>1, <1>6, <2>1
<1>8. Cut(name, last) \in fs.dirs \cup fs.files
  BY <1>2, <1>4, <1>6, CutIsNamed DEF path_exists, IsDir
<1>. DEFINE Bad == {j \in Stops(name, 0) : j < last /\ ~IsDir(fs, Cut(name, j))}
<1>9. Bad = {}
  <2>1. SUFFICES ASSUME Bad # {} PROVE FALSE
    OBVIOUS
  <2>2. Bad \in SUBSET (1..n)
    BY <1>2, StopIs
  <2>3. PICK b \in Bad : \A j \in Bad : j <= b
    BY <1>1, <2>1, <2>2, GreatestIndex, Zenon
  <2>4. b \in Stops(name, 0) /\ b \in Nat /\ b < last /\ ~IsDir(fs, Cut(name, b))
    BY <1>7
  <2>. DEFINE After == {j \in Stops(name, 0) : j > b}
  <2>5. After \in SUBSET Nat /\ last \in After
    BY <1>6, <1>7, <2>4, Zenon
  <2>6. PICK c \in After : \A j \in After : c <= j
    BY <2>5, LeastNumber, Zenon
  <2>7. c \in Stops(name, 0) /\ c \in Nat /\ b < c /\ c <= last
    BY <1>7, <2>4
  <2>8. \A j \in Stops(name, 0) : j < c => j <= b
    BY <1>7, <2>4, <2>6, <2>7
  <2>9. Parent(Cut(name, c)) = Cut(name, b)
    BY <1>2, <2>4, <2>7, <2>8, ParentOfNext
  <2>10. Cut(name, c) \in fs.dirs \cup fs.files
    <3>1. CASE c = last
      BY <1>8, <3>1
    <3>2. CASE c # last
      <4>1. c < last /\ c \notin Bad
        BY <1>6, <1>7, <2>3, <2>4, <2>7, <3>2
      <4>. QED
        BY <1>2, <2>7, <4>1, CutIsNamed DEF IsDir
    <3>. QED
      BY <3>1, <3>2
  <2>. QED
    BY <2>4, <2>9, <2>10 DEF Sound
<1>10. k \in Stops(name, 0) /\ Cut(name, k) = Cut(path, k)
  BY <1>5
<1>11. CASE k = last
  <2>1. path[Len(path)] = "/"
    <3>1. SUFFICES ASSUME path[Len(path)] # "/" PROVE n \in Stops(name, 0)
      <4>1. ~(n <= last)
        BY <1>1, <1>11 DEF n
      <4>. QED
        BY <1>7, <3>1, <4>1
    <3>2. n \in (0 + 2)..n /\ n - 1 = Len(path) /\ Len(path) \in 1..Len(path)
      BY <1>1 DEF n
    <3>. QED
      BY <1>2, <3>1, <3>2 DEF Stops
  <2>. QED
    BY <1>4, <1>6, <1>10, <1>11, <2>1 DEF path_exists
<1>12. CASE k # last
  <2>1. k < last
    BY <1>6, <1>7, <1>10, <1>12
  <2>. QED
    BY <1>9, <1>10, <2>1
<1>. QED
  BY <1>11, <1>12

-----------------------------------------------------------------------------
(* The calls *)

\* What a call has passed.
Passed(p) ==
  LET path == call[p].path
  IN  \A k \in Stops(path, 0) :
        k <= call[p].at =>
          \/ IsDir(disk, Cut(path, k))
          \/ Cut(path, k) \in disk.files /\ \A j \in Stops(path, 0) : j <= call[p].at => j <= k

\* What the call of one process has done.
CallInv(p) ==
  /\ call[p].state = "running" => call[p].rc = 0
  /\ call[p].state \in {"running", "returned"} /\ ~removed[p] => Passed(p)
  /\ Returned(p, 0) => Stops(call[p].path, call[p].at) = {}
  /\ Returned(p, -1) /\ ~removed[p] =>
       \E d \in Leading(call[p].path) : d \in disk.files \/ Parent(d) \in disk.locked

DirInv == DirTypeOK /\ \A p \in Procs : CallInv(p)

-----------------------------------------------------------------------------
(* The file system *)

\* mkdir(2) makes at most the directory it is asked for, and in a directory.
LEMMA MkdirEffect ==
  ASSUME NEW fs \in FileSystems, Sound(fs), NEW q \in Name
  PROVE  /\ mkdir(fs, q) \in FileSystems /\ Sound(mkdir(fs, q))
         /\ mkdir(fs, q).files = fs.files /\ mkdir(fs, q).locked = fs.locked
         /\ mkdir(fs, q).dirs \in {fs.dirs, fs.dirs \cup {q}}
         /\ \A r : IsDir(fs, r) => IsDir(mkdir(fs, q), r)
         /\ mkdir_errno(fs, q) = "OK" => IsDir(mkdir(fs, q), q)
         /\ ~Fails(fs, q) =>
              /\ IsDir(mkdir(fs, q), q) \/ q \in fs.files
              /\ q \notin {<< >>, <<"/">>} => IsDir(fs, Parent(q))
         /\ Fails(fs, q) => ~IsDir(fs, Parent(q)) \/ Parent(q) \in fs.locked
<1>. DEFINE new == [fs EXCEPT !.dirs = @ \cup {q}]
<1>1. /\ new \in FileSystems
      /\ new.files = fs.files /\ new.locked = fs.locked /\ new.dirs = fs.dirs \cup {q}
  BY DEF FileSystems, Name
<1>2. \A r : IsDir(new, r) <=> IsDir(fs, r) \/ r = q
  BY <1>1 DEF IsDir
<1>3. CASE mkdir_errno(fs, q) = "OK"
  <2>1. ~IsDir(fs, q) /\ q \notin fs.files /\ IsDir(fs, Parent(q))
    BY <1>3 DEF mkdir_errno
  <2>2. mkdir(fs, q) = new
    BY <1>3 DEF mkdir
  <2>3. Sound(new)
    BY <1>1, <1>2, <2>1 DEF Sound
  <2>. QED
    BY <1>1, <1>2, <1>3, <2>1, <2>2, <2>3 DEF Fails
<1>4. CASE mkdir_errno(fs, q) # "OK"
  <2>1. mkdir(fs, q) = fs
    BY <1>4 DEF mkdir
  <2>2. CASE IsDir(fs, q) \/ q \in fs.files
    <3>1. mkdir_errno(fs, q) = "EEXIST"
      BY <2>2 DEF mkdir_errno
    <3>2. q \notin {<< >>, <<"/">>} => IsDir(fs, Parent(q))
      BY <2>2 DEF Sound, IsDir
    <3>. QED
      BY <1>4, <2>1, <2>2, <3>1, <3>2 DEF Fails
  <2>3. CASE ~IsDir(fs, q) /\ q \notin fs.files
    <3>1. ~IsDir(fs, Parent(q)) \/ Parent(q) \in fs.locked
      BY <1>4, <2>3 DEF mkdir_errno
    <3>2. mkdir_errno(fs, q) = "ENOENT, ENOTDIR or EACCES"
      BY <2>3, <3>1 DEF mkdir_errno
    <3>. QED
      BY <1>4, <2>1, <3>1, <3>2, Zenon DEF Fails
  <2>. QED
    BY <2>2, <2>3
<1>. QED
  BY <1>3, <1>4

\* The directories that are asked for have names.
LEMMA AskedType == Asked \in SUBSET (Name \ {<< >>, <<"/">>})
<1>1. \A path \in Paths \ {NoPath} : path \in Name
  BY PathsAssumption DEF Name
<1>2. \A path \in Name : Leading(path) \in SUBSET (Name \ {<< >>, <<"/">>})
  BY LeadingIs, CutIsNamed
<1>. QED
  BY <1>1, <1>2 DEF Asked

-----------------------------------------------------------------------------
(* Type correctness *)

\* The step of a call in the loop: where it stops, and what it asks for.
LEMMA NextStop ==
  ASSUME DirTypeOK, NEW p \in Procs, call[p].state = "running",
         Stops(call[p].path, call[p].at) # {}
  PROVE  LET path == call[p].path
             at == call[p].at
             k == Seek(path, at)
         IN  /\ path \in Name /\ at \in Nat /\ k \in Nat
             /\ k \in Stops(path, 0) /\ at < k /\ k <= Len(path) /\ path[k] = "/"
             /\ \A j \in Stops(path, 0) : j \in Nat /\ (j < k => j <= at)
             /\ Cut(path, k) \in Name \ {<< >>, <<"/">>}
             /\ Cut(path, k) \in Leading(path)
<1>. DEFINE path == call[p].path
            at == call[p].at
            k == Seek(path, at)
<1>1. path \in Name /\ at \in Nat /\ Len(path) \in Nat
  BY PathsAssumption DEF DirTypeOK, Name
<1>2. at \in 0..Len(path) /\ (at > 0 => path[at] = "/")
  BY <1>1 DEF DirTypeOK
<1>3. Stops(path, at) = {j \in Stops(path, 0) : j > at}
  BY <1>1, <1>2, StopsAfter
<1>4. k \in Stops(path, at) /\ \A j \in Stops(path, at) : k <= j
  BY <1>1, SeekIs
<1>5. k \in Stops(path, 0) /\ at < k
  BY <1>3, <1>4
<1>6. \A j \in Stops(path, 0) : j \in 2..Len(path) /\ path[j] = "/"
  BY <1>1, StopIs
<1>7. \A j \in Stops(path, 0) : j \in Nat /\ j <= Len(path)
  BY <1>1, <1>6
<1>8. ASSUME NEW j \in Stops(path, 0), j < k PROVE j <= at
  <2>1. ~(j > at)
    BY <1>3, <1>4, <1>5, <1>7, <1>8
  <2>. QED
    BY <1>1, <1>7, <2>1
<1>9. Cut(path, k) \in Name \ {<< >>, <<"/">>}
  BY <1>1, <1>5, CutIsNamed
<1>10. Cut(path, k) \in Leading(path)
  BY <1>1, <1>5, LeadingIs
<1>. QED
  BY <1>1, <1>5, <1>6, <1>7, <1>8, <1>9, <1>10

\* The first state.
LEMMA DirInitTypeOK == DirInit => DirTypeOK
<1>1. SUFFICES ASSUME DirInit PROVE DirTypeOK
  OBVIOUS
<1>2. disk \in FileSystems /\ Sound(disk)
  BY <1>1, DisksAssumption DEF DirInit
<1>. QED
  BY <1>1, <1>2 DEF DirInit, DirTypeOK, Idle

\* Every action leaves the file system sound and every call at a slash.
LEMMA DirNextTypeOK == DirTypeOK /\ [DirNext]_dirvars => DirTypeOK'
<1>1. SUFFICES ASSUME DirTypeOK, [DirNext]_dirvars PROVE DirTypeOK'
  OBVIOUS
<1>2. ASSUME NEW p \in Procs, NEW path \in Paths, Begin(p, path)
      PROVE  DirTypeOK'
  BY <1>1, <1>2, SMTT(20) DEF DirTypeOK, Begin
<1>3. ASSUME NEW p \in Procs, MakeNext(p)
      PROVE  DirTypeOK'
  <2>. DEFINE k == Seek(call[p].path, call[p].at)
              q == Cut(call[p].path, k)
  <2>1. /\ call[p].path \in Name /\ k \in Nat /\ k <= Len(call[p].path)
        /\ call[p].path[k] = "/" /\ q \in Name
    BY <1>1, <1>3, NextStop DEF MakeNext
  <2>2. disk' = mkdir(disk, q) /\ removed' = removed
    BY <1>3 DEF MakeNext
  <2>3. disk' \in FileSystems /\ Sound(disk)'
    <3>1. mkdir(disk, q) \in FileSystems /\ Sound(mkdir(disk, q))
      BY <1>1, <2>1, MkdirEffect DEF DirTypeOK
    <3>. QED
      BY <2>2, <3>1 DEF Sound, IsDir
  <2>4. \/ call' = [call EXCEPT ![p].state = "returned", ![p].rc = -1]
        \/ call' = [call EXCEPT ![p].at = k]
    BY <1>3 DEF MakeNext
  <2>. QED
    BY <1>1, <1>3, <2>1, <2>2, <2>3, <2>4 DEF DirTypeOK, MakeNext
<1>4. ASSUME NEW p \in Procs, Finish(p)
      PROVE  DirTypeOK'
  BY <1>1, <1>4, Zenon DEF DirTypeOK, Finish, Sound, IsDir
<1>5. ASSUME NEW q \in Asked, Touch(q)
      PROVE  DirTypeOK'
  <2>1. q \in Name
    BY AskedType
  <2>2. /\ disk' \in FileSystems
        /\ disk'.dirs = disk.dirs /\ disk'.files = disk.files \cup {q}
    BY <1>1, <1>5, <2>1, Zenon DEF DirTypeOK, Touch, FileSystems, Name
  <2>3. Sound(disk)'
    BY <1>1, <1>5, <2>2 DEF DirTypeOK, Touch, Sound, IsDir
  <2>. QED
    BY <1>1, <1>5, <2>2, <2>3 DEF DirTypeOK, Touch
<1>6. ASSUME NEW q \in Asked, Rmdir(q)
      PROVE  DirTypeOK'
  <2>1. q \notin {<< >>, <<"/">>}
    BY AskedType
  <2>2. /\ disk' \in FileSystems
        /\ disk'.dirs = disk.dirs \ {q} /\ disk'.files = disk.files
    BY <1>1, <1>6, Zenon DEF DirTypeOK, Rmdir, FileSystems
  <2>3. Sound(disk)'
    BY <1>1, <1>6, <2>1, <2>2 DEF DirTypeOK, Rmdir, Sound, IsDir
  <2>. QED
    BY <1>1, <1>6, <2>2, <2>3 DEF DirTypeOK, Rmdir
<1>7. CASE UNCHANGED dirvars
  BY <1>1, <1>7 DEF DirTypeOK, dirvars, Sound, IsDir
<1>. QED
  BY <1>1, <1>2, <1>3, <1>4, <1>5, <1>6, <1>7 DEF DirNext

-----------------------------------------------------------------------------
(* What a call has passed *)

\* A call that does nothing keeps what it has passed, as long as directories and
\* files only come.
LEMMA OthersKeep ==
  ASSUME NEW p \in Procs, CallInv(p), call'[p] = call[p], removed'[p] = removed[p],
         \A r : IsDir(disk, r) => IsDir(disk, r)',
         disk.files \subseteq disk'.files, disk'.locked = disk.locked
  PROVE  CallInv(p)'
<1>1. Passed(p) => Passed(p)'
  BY DEF Passed
<1>2. Returned(p, 0)' <=> Returned(p, 0)
  BY DEF Returned
<1>3. Returned(p, -1)' <=> Returned(p, -1)
  BY DEF Returned
<1>. QED
  BY <1>1, <1>2, <1>3 DEF CallInv

\* The directory that the next stop is in has been passed, unless it is the
\* working directory or the root directory.
LEMMA ParentPassed ==
  ASSUME DirTypeOK, NEW p \in Procs, call[p].state = "running",
         Stops(call[p].path, call[p].at) # {}, Passed(p)
  PROVE  LET path == call[p].path
             q == Cut(path, Seek(path, call[p].at))
         IN  /\ \/ IsDir(disk, Parent(q))
                \/ Parent(q) \in disk.files /\ Parent(q) \in Leading(path)
             /\ IsDir(disk, Parent(q)) =>
                  \A j \in Stops(path, 0) : j <= call[p].at => IsDir(disk, Cut(path, j))
<1>. DEFINE path == call[p].path
            at == call[p].at
            k == Seek(path, at)
            q == Cut(path, k)
            early == {j \in Stops(path, 0) : j < k}
<1>1. /\ path \in Name /\ at \in Nat /\ k \in Nat
      /\ k \in Stops(path, 0) /\ at < k /\ k <= Len(path)
      /\ \A j \in Stops(path, 0) : j \in Nat /\ (j < k => j <= at)
  BY NextStop, Zenon
<1>2. CASE early = {}
  <2>1. \A j \in Stops(path, 0) : ~(j < k)
    BY <1>2
  <2>2. Parent(q) \in {<< >>, <<"/">>}
    BY <1>1, <2>1, ParentOfFirst
  <2>3. \A j \in Stops(path, 0) : ~(j <= at)
    BY <1>1, <2>1
  <2>. QED
    BY <2>2, <2>3 DEF IsDir
<1>3. CASE early # {}
  <2>1. early \in SUBSET (0..k)
    BY <1>1
  <2>2. PICK s \in early : \A j \in early : j <= s
    BY <1>1, <1>3, <2>1, GreatestNumber, Zenon
  <2>3. s \in Stops(path, 0) /\ s < k /\ s <= at /\ s \in Nat
    BY <1>1, <2>2
  <2>4. \A j \in Stops(path, 0) : j < k => j <= s
    BY <2>2
  <2>5. Parent(q) = Cut(path, s)
    BY <1>1, <2>3, <2>4, ParentOfNext
  <2>6. Cut(path, s) \in Leading(path)
    BY <1>1, <2>3, LeadingIs
  <2>7. IsDir(disk, Cut(path, s)) \/ Cut(path, s) \in disk.files
    BY <2>3 DEF Passed
  <2>8. ASSUME IsDir(disk, Cut(path, s)), NEW j \in Stops(path, 0), j <= at
        PROVE  IsDir(disk, Cut(path, j))
    <3>1. CASE j = s
      BY <2>8, <3>1
    <3>2. CASE j # s
      <4>1. j < k
        BY <1>1, <2>8
      <4>2. ~(s <= j)
        BY <1>1, <2>3, <2>4, <3>2, <4>1
      <4>. QED
        BY <2>3, <2>8, <4>2 DEF Passed
    <3>. QED
      BY <3>1, <3>2
  <2>. QED
    BY <2>5, <2>6, <2>7, <2>8
<1>. QED
  BY <1>2, <1>3

\* An iteration of the loop: the call passes one directory more, or fails because
\* of a file or a lock.
LEMMA MakeNextKeeps ==
  ASSUME DirTypeOK, NEW p \in Procs, CallInv(p), MakeNext(p)
  PROVE  CallInv(p)'
<1>. DEFINE path == call[p].path
            at == call[p].at
            k == Seek(path, at)
            q == Cut(path, k)
<1>1. /\ call[p].state = "running" /\ Stops(path, at) # {}
      /\ disk' = mkdir(disk, q) /\ removed' = removed
      /\ call' = IF Fails(disk, q)
                 THEN [call EXCEPT ![p].state = "returned", ![p].rc = -1]
                 ELSE [call EXCEPT ![p].at = k]
  BY DEF MakeNext
<1>2. /\ path \in Name /\ at \in Nat /\ k \in Nat
      /\ k \in Stops(path, 0) /\ at < k
      /\ \A j \in Stops(path, 0) : j \in Nat /\ (j < k => j <= at)
      /\ q \in Name \ {<< >>, <<"/">>} /\ q \in Leading(path)
  BY <1>1, NextStop
<1>3. /\ disk'.files = disk.files /\ disk'.locked = disk.locked
      /\ \A r : IsDir(disk, r) => IsDir(disk', r)
      /\ ~Fails(disk, q) => (IsDir(disk', q) \/ q \in disk.files) /\ IsDir(disk, Parent(q))
      /\ Fails(disk, q) => ~IsDir(disk, Parent(q)) \/ Parent(q) \in disk.locked
  BY <1>1, <1>2, MkdirEffect DEF DirTypeOK
<1>4. call \in [Procs -> [state : {"idle", "running", "returned", "crashed"},
                          path : Paths \cup {NoPath}, at : Nat, rc : {0, -1}]]
  BY DEF DirTypeOK
<1>5. CASE Fails(disk, q)
  <2>1. /\ call'[p].state = "returned" /\ call'[p].rc = -1
        /\ call'[p].path = path /\ call'[p].at = at
    BY <1>1, <1>4, <1>5
  <2>2. ~removed[p] => Passed(p)
    BY <1>1 DEF CallInv
  <2>3. Passed(p) => Passed(p)'
    BY <1>3, <2>1 DEF Passed, IsDir
  <2>4. ~removed[p] => \E d \in Leading(path) : d \in disk.files \/ Parent(d) \in disk.locked
    <3>1. CASE Parent(q) \in disk.locked
      BY <1>2, <3>1
    <3>2. CASE ~IsDir(disk, Parent(q))
      BY <1>1, <2>2, <3>2, ParentPassed
    <3>. QED
      BY <1>3, <1>5, <3>1, <3>2
  <2>5. ~Returned(p, 0)'
    BY <2>1 DEF Returned
  <2>. QED
    BY <1>1, <1>3, <2>1, <2>2, <2>3, <2>4, <2>5, Zenon DEF CallInv
<1>6. CASE ~Fails(disk, q)
  <2>1. /\ call'[p].state = "running" /\ call'[p].path = path /\ call'[p].at = k
        /\ call'[p].rc = call[p].rc
    BY <1>1, <1>4, <1>6
  <2>2. ASSUME ~removed[p] PROVE Passed(p)'
    <3>1. Passed(p)
      BY <1>1, <2>2 DEF CallInv
    <3>2. \A j \in Stops(path, 0) : j <= at => IsDir(disk, Cut(path, j))
      BY <1>1, <1>3, <1>6, <3>1, ParentPassed
    <3>3. \A j \in Stops(path, 0) : j <= k => j <= at \/ j = k
      BY <1>2
    <3>4. \A j \in Stops(path, 0) : j <= k =>
             \/ IsDir(disk', Cut(path, j))
             \/ Cut(path, j) \in disk'.files /\ j = k
      BY <1>3, <1>6, <3>2, <3>3
    <3>. QED
      BY <2>1, <3>4 DEF Passed, IsDir
  <2>3. ~Returned(p, 0)' /\ ~Returned(p, -1)'
    BY <2>1 DEF Returned
  <2>. QED
    BY <1>1, <2>1, <2>2, <2>3, Zenon DEF CallInv
<1>. QED
  BY <1>5, <1>6

\* The invariant holds at first.
LEMMA DirInitInv == DirInit => DirInv
<1>1. SUFFICES ASSUME DirInit PROVE DirInv
  OBVIOUS
<1>2. \A p \in Procs : call[p].state = "idle"
  BY <1>1 DEF DirInit, Idle
<1>. QED
  BY <1>1, <1>2, DirInitTypeOK DEF DirInv, CallInv, Returned

\* Every step of every process, and of the others, keeps the invariant.
LEMMA DirNextInv == DirInv /\ [DirNext]_dirvars => DirInv'
<1>1. SUFFICES ASSUME DirInv, [DirNext]_dirvars PROVE \A p \in Procs : CallInv(p)'
  BY DirNextTypeOK DEF DirInv
<1>2. DirTypeOK /\ \A p \in Procs : CallInv(p)
  BY <1>1 DEF DirInv
<1>. DEFINE T == [state : {"idle", "running", "returned", "crashed"},
                  path : Paths \cup {NoPath}, at : Nat, rc : {0, -1}]
<1>3. call \in [Procs -> T] /\ removed \in [Procs -> BOOLEAN]
  BY <1>2 DEF DirTypeOK
<1>4. ASSUME NEW p \in Procs, NEW path \in Paths, Begin(p, path)
      PROVE  \A o \in Procs : CallInv(o)'
  <2>1. ASSUME NEW o \in Procs, o # p PROVE CallInv(o)'
    <3>1. call'[o] = call[o] /\ removed'[o] = removed[o] /\ disk' = disk
      BY <1>3, <1>4, <2>1 DEF Begin
    <3>. QED
      BY <1>2, <3>1, OthersKeep DEF IsDir
  <2>2. CASE path = NoPath
    <3>1. call'[p].state = "crashed"
      BY <1>3, <1>4, <2>2 DEF Begin
    <3>. QED
      BY <2>1, <3>1 DEF CallInv, Returned
  <2>3. CASE path # NoPath
    <3>1. /\ call'[p].state = "running" /\ call'[p].path = path
          /\ call'[p].at = 0 /\ call'[p].rc = 0
      BY <1>3, <1>4, <2>3 DEF Begin
    <3>2. \A k \in Stops(path, 0) : ~(k <= 0)
      <4>1. path \in Name
        BY <2>3, PathsAssumption DEF Name
      <4>2. \A k \in Stops(path, 0) : k \in 2..Len(path) /\ Len(path) \in Nat
        BY <4>1, StopIs
      <4>. QED
        BY <4>2
    <3>3. Passed(p)'
      BY <3>1, <3>2 DEF Passed
    <3>. QED
      BY <2>1, <3>1, <3>3 DEF CallInv, Returned
  <2>. QED
    BY <2>2, <2>3
<1>5. ASSUME NEW p \in Procs, MakeNext(p)
      PROVE  \A o \in Procs : CallInv(o)'
  <2>1. CallInv(p)'
    BY <1>2, <1>5, MakeNextKeeps
  <2>2. ASSUME NEW o \in Procs, o # p PROVE CallInv(o)'
    <3>. DEFINE q == Cut(call[p].path, Seek(call[p].path, call[p].at))
    <3>1. call'[o] = call[o] /\ removed'[o] = removed[o] /\ disk' = mkdir(disk, q)
      BY <1>3, <1>5, <2>2 DEF MakeNext
    <3>2. q \in Name
      BY <1>2, <1>5, NextStop, SMTT(20) DEF MakeNext
    <3>3. /\ disk'.files = disk.files /\ disk'.locked = disk.locked
          /\ \A r : IsDir(disk, r) => IsDir(disk', r)
      BY <1>2, <3>1, <3>2, MkdirEffect DEF DirTypeOK
    <3>4. \A r : IsDir(disk, r) => IsDir(disk, r)'
      BY <3>3 DEF IsDir
    <3>. QED
      BY <1>2, <3>1, <3>3, <3>4, OthersKeep
  <2>. QED
    BY <2>1, <2>2
<1>6. ASSUME NEW p \in Procs, Finish(p)
      PROVE  \A o \in Procs : CallInv(o)'
  <2>1. ASSUME NEW o \in Procs, o # p PROVE CallInv(o)'
    <3>1. call'[o] = call[o] /\ removed'[o] = removed[o] /\ disk' = disk
      BY <1>3, <1>6, <2>1 DEF Finish
    <3>. QED
      BY <1>2, <3>1, OthersKeep DEF IsDir
  <2>2. /\ call[p].state = "running" /\ Stops(call[p].path, call[p].at) = {}
        /\ call' = [call EXCEPT ![p].state = "returned"] /\ disk' = disk /\ removed' = removed
    BY <1>6 DEF Finish
  <2>3. /\ call'[p].state = "returned" /\ call'[p].path = call[p].path
        /\ call'[p].at = call[p].at /\ call'[p].rc = call[p].rc
    BY <1>3, <2>2
  <2>4. Passed(p) => Passed(p)'
    BY <2>2, <2>3 DEF Passed, IsDir
  <2>5. call[p].rc = 0
    BY <1>2, <2>2 DEF CallInv
  <2>6. ~Returned(p, -1)'
    BY <2>3, <2>5 DEF Returned
  <2>7. CallInv(p)'
    BY <1>2, <2>2, <2>3, <2>4, <2>6 DEF CallInv
  <2>. QED
    BY <2>1, <2>7
<1>7. ASSUME NEW q \in Asked, Touch(q)
      PROVE  \A o \in Procs : CallInv(o)'
  <2>1. /\ call' = call /\ removed' = removed
        /\ disk'.dirs = disk.dirs /\ disk'.locked = disk.locked
        /\ disk'.files = disk.files \cup {q}
    BY <1>2, <1>7 DEF DirTypeOK, Touch, FileSystems
  <2>2. \A r : IsDir(disk, r) => IsDir(disk, r)'
    BY <2>1 DEF IsDir
  <2>. QED
    BY <1>2, <2>1, <2>2, OthersKeep
<1>8. ASSUME NEW q \in Asked, Rmdir(q)
      PROVE  \A o \in Procs : CallInv(o)'
  <2>1. call' = call /\ \A o \in Procs : removed'[o] = TRUE
    BY <1>8 DEF Rmdir
  <2>. QED
    BY <1>2, <2>1 DEF CallInv, Returned
<1>9. CASE UNCHANGED dirvars
  <2>1. disk' = disk /\ call' = call /\ removed' = removed
    BY <1>9 DEF dirvars
  <2>. QED
    BY <1>2, <2>1, OthersKeep DEF IsDir
<1>. QED
  BY <1>1, <1>4, <1>5, <1>6, <1>7, <1>8, <1>9 DEF DirNext

-----------------------------------------------------------------------------
(* Theorems *)

\* The invariant holds in every state.
LEMMA DirAlways == DirSpec => []DirInv
  BY DirInitInv, DirNextInv, PTL DEF DirSpec

\* A call stands at a slash of its pathname, and everything stays in a directory.
THEOREM DirTypeCorrect == DirSpec => []DirTypeOK
<1>1. DirInv => DirTypeOK
  BY DEF DirInv
<1>. QED
  BY <1>1, DirAlways, PTL

\* pathcomp_mkdir that returned 0 has made or found every leading directory, the
\* last of which may be a file.
THEOREM MkdirMakesAll == DirSpec => []MakesAll
<1>1. ASSUME DirInv PROVE MakesAll
  <2>1. SUFFICES ASSUME NEW p \in Procs, Returned(p, 0), ~removed[p],
                        NEW d \in Leading(call[p].path)
                 PROVE  \/ IsDir(disk, d)
                        \/ d \in disk.files /\ \A e \in Leading(call[p].path) : Parent(e) # d
    BY DEF MakesAll
  <2>. DEFINE path == call[p].path
              at == call[p].at
  <2>2. path \in Name /\ at \in Nat /\ Len(path) \in Nat
    BY <1>1, <2>1, PathsAssumption DEF DirInv, DirTypeOK, Returned, Name
  <2>3. Passed(p) /\ Stops(path, at) = {}
    BY <1>1, <2>1 DEF DirInv, CallInv, Returned
  <2>4. at \in 0..Len(path) /\ (at > 0 => path[at] = "/")
    BY <1>1, <2>2 DEF DirInv, DirTypeOK
  <2>5. \A k \in Stops(path, 0) : k \in Nat /\ k <= at
    <3>1. {k \in Stops(path, 0) : k > at} = {}
      BY <2>2, <2>3, <2>4, StopsAfter
    <3>2. \A k \in Stops(path, 0) : k \in 2..Len(path)
      BY <2>2, StopIs
    <3>3. \A k \in Stops(path, 0) : ~(k > at)
      BY <3>1
    <3>. QED
      BY <2>2, <3>2, <3>3
  <2>6. Leading(path) = {Cut(path, k) : k \in Stops(path, 0)}
    BY <2>2, LeadingIs
  <2>7. PICK k \in Stops(path, 0) : d = Cut(path, k)
    BY <2>1, <2>6
  <2>8. \/ IsDir(disk, d)
        \/ d \in disk.files /\ \A j \in Stops(path, 0) : j <= k
    BY <2>3, <2>5, <2>7 DEF Passed
  <2>9. ASSUME ~IsDir(disk, d), NEW e \in Leading(path) PROVE Parent(e) # d
    <3>1. PICK m \in Stops(path, 0) : e = Cut(path, m)
      BY <2>6
    <3>. DEFINE early == {j \in Stops(path, 0) : j < m}
    <3>2. CASE early = {}
      <4>1. Parent(e) \in {<< >>, <<"/">>}
        BY <2>2, <3>1, <3>2, ParentOfFirst
      <4>. QED
        BY <2>9, <4>1 DEF IsDir
    <3>3. CASE early # {}
      <4>1. early \in SUBSET (0..m) /\ m \in Nat
        BY <2>5
      <4>2. PICK s \in early : \A j \in early : j <= s
        BY <3>3, <4>1, GreatestNumber, Zenon
      <4>3. Parent(e) = Cut(path, s)
        BY <2>2, <3>1, <4>2, ParentOfNext
      <4>4. s \in Stops(path, 0) /\ ~(m <= s)
        BY <2>5, <4>2
      <4>5. IsDir(disk, Cut(path, s))
        BY <2>3, <2>5, <4>4 DEF Passed
      <4>. QED
        BY <2>9, <4>3, <4>5
    <3>. QED
      BY <3>2, <3>3
  <2>. QED
    BY <2>8, <2>9
<1>. QED
  BY <1>1, DirAlways, PTL

\* pathcomp_mkdir fails only because of a file or a lock in its way, or a
\* removal: never because another process was faster.
THEOREM MkdirFailsForCause == DirSpec => []FailsForCause
<1>1. DirInv => FailsForCause
  BY DEF DirInv, CallInv, FailsForCause
<1>. QED
  BY <1>1, DirAlways, PTL

\* pathcomp_mkdir makes only directories before the last slash.
THEOREM MkdirOnlyLeading == DirSpec => OnlyLeading
<1>. DEFINE Step == \A p \in Procs :
                      MakeNext(p) => disk'.dirs \ disk.dirs \subseteq Leading(call[p].path)
<1>1. ASSUME DirInv PROVE Step
  <2>1. SUFFICES ASSUME NEW p \in Procs, MakeNext(p)
                 PROVE  disk'.dirs \ disk.dirs \subseteq Leading(call[p].path)
    OBVIOUS
  <2>. DEFINE q == Cut(call[p].path, Seek(call[p].path, call[p].at))
  <2>2. q \in Name /\ q \in Leading(call[p].path)
    BY <1>1, <2>1, NextStop DEF DirInv, MakeNext
  <2>3. disk' = mkdir(disk, q)
    BY <2>1, SMTT(20) DEF MakeNext
  <2>4. disk'.dirs \in {disk.dirs, disk.dirs \cup {q}}
    BY <1>1, <2>2, <2>3, MkdirEffect DEF DirInv, DirTypeOK
  <2>. QED
    BY <2>2, <2>4
<1>2. DirInv => [Step]_dirvars
  BY <1>1
<1>. QED
  BY <1>2, DirAlways, PTL DEF OnlyLeading
=============================================================================
