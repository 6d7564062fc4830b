--------------------------- MODULE StandaloneProofs ---------------------------
(***************************************************************************)
(* Proofs about the command-line program, for any command lines,           *)
(* configurations and file systems.  The theorem about -e and -m needs all *)
(* layers: what evaluation returns is a pathname, pathcomp_find hands out  *)
(* only one that exists, the leading directories of such a pathname exist, *)
(* and pathcomp_mkdir asks for nothing else.                               *)
(***************************************************************************)
EXTENDS Standalone, MkdirProofs

Result == Name \cup {NULL}

Composers == [name : STRING, attributes : AttLists, done : BOOLEAN, started : BOOLEAN]

-----------------------------------------------------------------------------
(* Evaluation *)

\* Texts one after the other are a text.
LEMMA ConcatType ==
  ASSUME NEW n \in Nat, NEW texts \in [1..n -> Name]
  PROVE  Concat(texts) \in Name
<1>. DEFINE Body(C) == [k \in 0..n |-> IF k = 0 THEN << >> ELSE C[k - 1] \o texts[k]]
            C == CHOOSE C : C = Body(C)
            step == [k \in 1..n |-> [t \in Name |-> t \o texts[k]]]
<1>1. Len(texts) = n
  OBVIOUS
<1>2. Concat(texts) = C[n]
  BY <1>1, Zenon DEF Concat
<1>3. << >> \in Name /\ \A s, t \in Name : s \o t \in Name
  BY DEF Name
<1>4. step \in [1..n -> [Name -> Name]]
  BY <1>3
<1>5. PICK f : Computes(f, n, Name, << >>, step)
  <2>. HIDE DEF step
  <2>. QED
    BY <1>3, <1>4, RecursionExists
<1>6. f = Body(f)
  <2>1. ASSUME NEW k \in 1..n PROVE f[k] = f[k - 1] \o texts[k]
    <3>1. k - 1 \in 0..n
      OBVIOUS
    <3>2. f[k - 1] \in Name /\ f[k] = step[k][f[k - 1]]
      BY <1>5, <3>1, Zenon DEF Computes
    <3>. QED
      BY <3>2
  <2>2. f \in [0..n -> Name] /\ f[0] = << >>
    BY <1>5 DEF Computes
  <2>3. \A k \in 0..n : k # 0 => k \in 1..n
    OBVIOUS
  <2>4. \A k \in 0..n : f[k] = IF k = 0 THEN << >> ELSE f[k - 1] \o texts[k]
    BY <2>1, <2>2, <2>3, Zenon
  <2>. QED
    BY <2>2, <2>4
<1>7. C = Body(C)
  BY <1>6, Zenon
<1>. HIDE DEF C
<1>8. C[0] \in Name
  <2>1. C[0] = << >>
    BY <1>7
  <2>. QED
    BY <1>3, <2>1
<1>9. ASSUME NEW k \in 1..n, C[k - 1] \in Name PROVE C[k] \in Name
  <2>1. C[k] = C[k - 1] \o texts[k] /\ texts[k] \in Name
    BY <1>7
  <2>. QED
    BY <1>3, <1>9, <2>1
<1>10. C[n] \in Name
  BY <1>8, <1>9, RecursionStays
<1>. QED
  BY <1>2, <1>10

\* A name that has an attribute finds one, with its cursor at an alternative.
LEMMA RetrieveIs ==
  ASSUME NEW atts \in AttLists, NEW name, HasAtt(atts, name)
  PROVE  LET i == pathcomp_retrieve_att(atts, name)
         IN  /\ i \in 1..Len(atts) /\ atts[i] \in AttType
             /\ atts[i].current \in 1..Len(atts[i].alternatives)
<1>. DEFINE S == {i \in 1..Len(atts) : atts[i].name = name}
<1>1. /\ atts \in Seq(AttType) /\ Len(atts) \in Nat /\ DOMAIN atts = 1..Len(atts)
      /\ \A i \in 1..Len(atts) : /\ atts[i] \in AttType
                                 /\ atts[i].current \in 1..Len(atts[i].alternatives)
  BY DEF AttLists
<1>2. S \in SUBSET (1..Len(atts)) /\ S # {}
  BY <1>1 DEF HasAtt
<1>3. PICK i \in S : \A j \in S : i <= j
  BY <1>1, <1>2, LeastIndex, Zenon
<1>4. \A j \in 1..(i - 1) : atts[j].name # name
  <2>1. \A j \in 1..(i - 1) : j \in 1..Len(atts) /\ ~(i <= j)
    BY <1>1, <1>3
  <2>. QED
    BY <1>3, <2>1
<1>5. \E k \in DOMAIN atts : atts[k].name = name /\ \A j \in 1..(k - 1) : atts[j].name # name
  BY <1>1, <1>3, <1>4
<1>6. pathcomp_retrieve_att(atts, name) \in DOMAIN atts
  BY <1>5, Zenon DEF pathcomp_retrieve_att
<1>. QED
  BY <1>1, <1>6

\* What an attribute evaluates to, as the deepest nested call and otherwise.
EvalAt(atts, n, deepest, self) ==
  IF ~HasAtt(atts, n) THEN NULL
  ELSE LET att == atts[pathcomp_retrieve_att(atts, n)]
       IN  IF deepest /\ att.current # NoCell
                      /\ att.alternatives[att.current].type = "lua"
           THEN NULL
           ELSE att_eval(att, self)

\* It is a text or NULL, if what it reads is.
LEMMA EvalAtType ==
  ASSUME NEW atts \in AttLists, NEW n, NEW deepest \in BOOLEAN, NEW self,
         deepest \/ self \in [Names -> Result]
  PROVE  EvalAt(atts, n, deepest, self) \in Result
<1>. DEFINE att == atts[pathcomp_retrieve_att(atts, n)]
            val == att.alternatives[att.current]
<1>1. CASE ~HasAtt(atts, n)
  BY <1>1 DEF EvalAt, Result
<1>2. CASE HasAtt(atts, n)
  <2>1. att \in AttType /\ att.current \in 1..Len(att.alternatives)
    BY <1>2, RetrieveIs
  <2>. HIDE DEF att
  <2>2. att.current # NoCell /\ val \in ValueType
    BY <2>1 DEF AttType, NoCell
  <2>. HIDE DEF val
  <2>3. CASE val.type = "string"
    <3>1. val.text \in Name
      BY <2>2, <2>3 DEF ValueType, Name
    <3>2. value_eval(val, self) = val.text
      BY <2>3 DEF value_eval
    <3>. QED
      BY <1>2, <2>2, <2>3, <3>1, <3>2 DEF EvalAt, att_eval, att, val, Result
  <2>4. CASE val.type = "lua"
    <3>1. CASE deepest
      BY <1>2, <2>2, <2>4, <3>1 DEF EvalAt, att, val, Result
    <3>2. CASE ~deepest
      <4>. DEFINE parts == [k \in DOMAIN val.refs |-> self[val.refs[k]]]
      <4>1. val.refs \in Seq(Names)
        BY <2>2, <2>4 DEF ValueType
      <4>2. Len(val.refs) \in Nat /\ parts \in [1..Len(val.refs) -> Result]
        BY <3>2, <4>1
      <4>3. EvalAt(atts, n, deepest, self) = value_eval_lua(val, self)
        BY <1>2, <2>2, <2>4, <3>2 DEF EvalAt, att_eval, value_eval, att, val
      <4>4. CASE \E k \in DOMAIN parts : parts[k] = NULL
        BY <4>3, <4>4 DEF value_eval_lua, Result
      <4>5. CASE ~\E k \in DOMAIN parts : parts[k] = NULL
        <5>1. value_eval_lua(val, self) = Concat(parts)
          BY <4>5, Zenon DEF value_eval_lua
        <5>2. parts \in [1..Len(val.refs) -> Name]
          <6>. HIDE DEF parts
          <6>. QED
            BY <4>2, <4>5 DEF Result
        <5>. HIDE DEF parts
        <5>. QED
          BY <4>2, <4>3, <5>1, <5>2, ConcatType DEF Result
      <4>. QED
        BY <4>4, <4>5
    <3>. QED
      BY <3>1, <3>2
  <2>5. val.type \in {"string", "lua"}
    BY <2>2 DEF ValueType
  <2>. QED
    BY <2>3, <2>4, <2>5
<1>. QED
  BY <1>1, <1>2

\* Evaluation gives every attribute a text or NULL.
LEMMA TextsType ==
  ASSUME NEW atts \in AttLists
  PROVE  Texts(atts) \in [Names -> Result]
<1>. DEFINE S == [Names -> Result]
            first == [n \in Names |-> EvalAt(atts, n, TRUE, << >>)]
            Further(self) == [n \in Names |-> EvalAt(atts, n, FALSE, self)]
            Body(T) == [d \in 0..MaxCalls |-> IF d = 0 THEN first ELSE Further(T[d - 1])]
            T == CHOOSE T : T = Body(T)
            step == [d \in 1..MaxCalls |-> [self \in S |-> Further(self)]]
<1>1. Texts(atts) = T[MaxCalls]
  <2>. DEFINE Code(U) ==
         [d \in 0..MaxCalls |->
            [n \in Names |->
               IF ~HasAtt(atts, n) THEN NULL
               ELSE LET att == atts[pathcomp_retrieve_att(atts, n)]
                    IN  IF d = 0 /\ att.current # NoCell
                                 /\ att.alternatives[att.current].type = "lua"
                        THEN NULL
                        ELSE att_eval(att, IF d = 0 THEN << >> ELSE U[d - 1])]]
  <2>1. Texts(atts) = (CHOOSE U : U = Code(U))[MaxCalls]
    BY Zenon DEF Texts
  <2>2. ASSUME NEW U PROVE Code(U) = Body(U)
    <3>1. ASSUME NEW d \in 0..MaxCalls PROVE Code(U)[d] = Body(U)[d]
      <4>1. CASE d = 0
        BY <4>1 DEF EvalAt
      <4>2. CASE d # 0
        BY <4>2 DEF EvalAt
      <4>. QED
        BY <4>1, <4>2
    <3>. QED
      BY <3>1, Zenon
  <2>. HIDE DEF Code, Body
  <2>. QED
    BY <2>1, <2>2, Zenon DEF T
<1>2. first \in S /\ \A self \in S : Further(self) \in S
  BY EvalAtType, Zenon
<1>3. step \in [1..MaxCalls -> [S -> S]]
  <2>. HIDE DEF Further, S
  <2>. QED
    BY <1>2
<1>4. PICK f : Computes(f, MaxCalls, S, first, step)
  <2>. HIDE DEF step, first, S
  <2>. QED
    BY <1>2, <1>3, MaxCallsAssumption, RecursionExists
<1>. HIDE DEF first, Further, S
<1>5. f = Body(f)
  <2>1. ASSUME NEW d \in 1..MaxCalls PROVE f[d] = Further(f[d - 1])
    <3>1. d - 1 \in 0..MaxCalls
      BY MaxCallsAssumption
    <3>2. f[d - 1] \in S /\ f[d] = step[d][f[d - 1]]
      BY <1>4, <3>1, Zenon DEF Computes
    <3>. QED
      BY <3>2
  <2>2. f \in [0..MaxCalls -> S] /\ f[0] = first
    BY <1>4 DEF Computes
  <2>3. \A d \in 0..MaxCalls : d # 0 => d \in 1..MaxCalls
    BY MaxCallsAssumption
  <2>4. \A d \in 0..MaxCalls : f[d] = IF d = 0 THEN first ELSE Further(f[d - 1])
    BY <2>1, <2>2, <2>3, Zenon
  <2>. QED
    BY <2>2, <2>4
<1>6. T = Body(T)
  BY <1>5, Zenon
<1>. HIDE DEF T
<1>7. T[0] \in S
  BY <1>2, <1>6, MaxCallsAssumption
<1>8. ASSUME NEW d \in 1..MaxCalls, T[d - 1] \in S PROVE T[d] \in S
  <2>1. d \in 0..MaxCalls /\ d # 0
    BY MaxCallsAssumption
  <2>2. T[d] = Further(T[d - 1])
    BY <1>6, <2>1, Zenon
  <2>. QED
    BY <1>2, <1>8, <2>2
<1>9. T[MaxCalls] \in S
  BY <1>7, <1>8, MaxCallsAssumption, RecursionStays
<1>. QED
  BY <1>1, <1>9 DEF S

\* pathcomp_yield returns a pathname or NULL.
LEMMA YieldType ==
  ASSUME NEW comp \in Composers
  PROVE  pathcomp_yield(comp) \in Result
<1>. DEFINE root == pathcomp_eval(comp, "root")
            compose == pathcomp_eval(comp, "compose")
            front == IF root # NULL /\ root # << >> THEN Append(root, "/") ELSE << >>
            back == IF compose # NULL THEN compose ELSE << >>
<1>1. root \in Result /\ compose \in Result
  <2>1. comp.attributes \in AttLists
    BY DEF Composers
  <2>2. Texts(comp.attributes) \in [Names -> Result]
    BY <2>1, TextsType
  <2>. QED
    BY <2>2, NamesAssumption DEF pathcomp_eval
<1>2. pathcomp_yield(comp) = IF front \o back = << >> THEN NULL ELSE front \o back
  BY Zenon DEF pathcomp_yield
<1>. HIDE DEF root, compose
<1>3. "/" \in Atom
  BY DEF Atom
<1>4. << >> \in Name /\ \A t \in Name : Append(t, "/") \in Name
  BY <1>3 DEF Name
<1>5. front \in Name /\ back \in Name
  BY <1>1, <1>4 DEF Result
<1>. HIDE DEF front, back
<1>6. front \o back \in Name
  BY <1>5 DEF Name
<1>. QED
  BY <1>2, <1>6 DEF Result

-----------------------------------------------------------------------------
(* Composers *)

\* A list of attributes, each with its cursor at an alternative.
LEMMA AttListIs ==
  ASSUME NEW n \in Nat, NEW atts \in [1..n -> AttType],
         \A i \in 1..n : atts[i].current \in 1..Len(atts[i].alternatives)
  PROVE  atts \in AttLists
<1>1. atts \in Seq(AttType) /\ Len(atts) = n
  OBVIOUS
<1>. QED
  BY <1>1 DEF AttLists

\* One step of the iteration leaves the cursor of an attribute at an alternative.
LEMMA NextAttType ==
  ASSUME NEW att \in AttType, att.current \in 1..Len(att.alternatives)
  PROVE  LET new == IF att_next_ok(att) THEN att_next(att) ELSE att_rewind(att_next(att))
         IN  new \in AttType /\ new.current \in 1..Len(new.alternatives)
<1>1. /\ Len(att.alternatives) \in Nat /\ att.current \in Nat
      /\ att = [name |-> att.name, alternatives |-> att.alternatives,
                current |-> att.current, origin |-> att.origin]
  BY DEF AttType
<1>. DEFINE c == IF att.current = Len(att.alternatives) THEN 0 ELSE att.current + 1
<1>2. att_next(att) = [name |-> att.name, alternatives |-> att.alternatives,
                       current |-> c, origin |-> att.origin]
  BY <1>1 DEF att_next, NoCell
<1>3. CASE att.current = Len(att.alternatives)
  <2>1. ~att_next_ok(att)
    BY <1>2, <1>3 DEF att_next_ok, NoCell
  <2>2. att_rewind(att_next(att)) = [name |-> att.name, alternatives |-> att.alternatives,
                                     current |-> 1, origin |-> att.origin]
    BY <1>2 DEF att_rewind
  <2>3. 1 \in 1..Len(att.alternatives)
    BY <1>1
  <2>. QED
    BY <2>1, <2>2, <2>3 DEF AttType
<1>4. CASE att.current # Len(att.alternatives)
  <2>1. c \in 1..Len(att.alternatives) /\ c \in Nat /\ c # 0
    BY <1>1, <1>4
  <2>. HIDE DEF c
  <2>2. att_next_ok(att)
    BY <1>2, <2>1 DEF att_next_ok, NoCell
  <2>. QED
    BY <1>2, <2>1, <2>2 DEF AttType
<1>. QED
  BY <1>3, <1>4

\* pathcomp_next, and what pathcomp_find does before it looks, leave a composer.
LEMMA NextType ==
  ASSUME NEW comp \in Composers
  PROVE  pathcomp_next(comp) \in Composers /\ FindMove(comp) \in Composers
<1>. DEFINE atts == comp.attributes
            n == Len(atts)
<1>1. /\ atts \in Seq(AttType) /\ n \in Nat /\ DOMAIN atts = 1..n
      /\ \A i \in 1..n : atts[i] \in AttType /\ atts[i].current \in 1..Len(atts[i].alternatives)
  BY DEF Composers, AttLists
<1>2. ASSUME NEW i \in 1..n
      PROVE  /\ Turn(atts)[i] \in AttType
             /\ Turn(atts)[i].current \in 1..Len(Turn(atts)[i].alternatives)
  <2>. DEFINE new == IF att_next_ok(atts[i]) THEN att_next(atts[i])
                     ELSE att_rewind(att_next(atts[i]))
  <2>1. new \in AttType /\ new.current \in 1..Len(new.alternatives)
    BY <1>1, NextAttType
  <2>2. Turn(atts)[i] = IF ~Reached(atts, i) THEN atts[i] ELSE new
    BY <1>1 DEF Turn
  <2>. HIDE DEF new, atts
  <2>. QED
    BY <1>1, <2>1, <2>2
<1>3. Turn(atts) \in AttLists
  <2>1. DOMAIN Turn(atts) = 1..n /\ Turn(atts) = [i \in 1..n |-> Turn(atts)[i]]
    BY <1>1 DEF Turn
  <2>2. Turn(atts) \in [1..n -> AttType]
    BY <1>2, <2>1
  <2>. HIDE DEF atts, n
  <2>. QED
    BY <1>1, <1>2, <2>2, AttListIs
<1>4. pathcomp_next(comp) \in Composers
  BY <1>3 DEF pathcomp_next, Composers
<1>5. ASSUME NEW c \in Composers PROVE [c EXCEPT !.started = TRUE] \in Composers
  BY Zenon DEF Composers
<1>. QED
  BY <1>4, <1>5 DEF FindMove

\* A replaced or an added value leaves the cursor of an attribute at an alternative.
LEMMA ValueAttType ==
  ASSUME NEW att \in AttType, att.current \in 1..Len(att.alternatives), NEW value \in ValueType
  PROVE  \A new \in {att_replace_value(att, value, NULL), att_add_value(att, value)} :
           new \in AttType /\ new.current \in 1..Len(new.alternatives)
<1>. DEFINE longer == Append(att.alternatives, value)
<1>1. /\ att.name \in STRING /\ att.alternatives \in Seq(ValueType) /\ att.current \in Nat
      /\ Len(att.alternatives) \in Nat /\ att.origin \in STRING \cup {NULL}
  BY DEF AttType
<1>2. <<value>> \in Seq(ValueType) /\ Len(<<value>>) = 1
  OBVIOUS
<1>3. longer \in Seq(ValueType) /\ Len(longer) = Len(att.alternatives) + 1
  BY <1>1
<1>4. att_add_value(att, value) = [att EXCEPT !.alternatives = longer]
  BY DEF att_add_value
<1>. HIDE DEF longer
<1>5. att_add_value(att, value) = [name |-> att.name, alternatives |-> longer,
                                   current |-> att.current, origin |-> att.origin]
  BY <1>4 DEF AttType
<1>6. att.current \in 1..Len(longer)
  BY <1>1, <1>3
<1>7. /\ att_add_value(att, value) \in AttType
      /\ att_add_value(att, value).current \in 1..Len(att_add_value(att, value).alternatives)
  BY <1>1, <1>3, <1>5, <1>6 DEF AttType
<1>8. /\ att_replace_value(att, value, NULL) \in AttType
      /\ att_replace_value(att, value, NULL).current = 1
      /\ att_replace_value(att, value, NULL).alternatives = <<value>>
  BY <1>1, <1>2 DEF att_replace_value, AttType
<1>9. 1 \in 1..Len(<<value>>)
  BY <1>2
<1>. QED
  BY <1>7, <1>8, <1>9, Zenon

\* The attributes that pathcomp_add and pathcomp_set make.
LEMMA AddOrReplaceType ==
  ASSUME NEW class, NEW atts \in AttLists, NEW name \in STRING, NEW value \in ValueType,
         NEW action \in {"ADD", "REPLACE"}
  PROVE  pathcomp_add_or_replace(class, atts, name, value, NULL, action) \in AttLists
<1>. DEFINE new == pathcomp_add_or_replace(class, atts, name, value, NULL, action)
            fresh == [name |-> name, alternatives |-> <<value>>, current |-> 1, origin |-> NULL]
<1>1. /\ atts \in Seq(AttType) /\ Len(atts) \in Nat
      /\ \A i \in 1..Len(atts) : /\ atts[i] \in AttType
                                 /\ atts[i].current \in 1..Len(atts[i].alternatives)
  BY DEF AttLists
<1>2. fresh \in AttType /\ fresh.current \in 1..Len(fresh.alternatives)
  <2>1. <<value>> \in Seq(ValueType) /\ Len(<<value>>) = 1
    OBVIOUS
  <2>. QED
    BY <2>1 DEF AttType
<1>3. CASE ~HasAtt(atts, name)
  <2>1. new = Append(atts, fresh)
    BY <1>3 DEF pathcomp_add_or_replace, att_new
  <2>. HIDE DEF fresh
  <2>2. /\ Append(atts, fresh) \in Seq(AttType) /\ Len(Append(atts, fresh)) = Len(atts) + 1
        /\ \A i \in 1..Len(atts) : Append(atts, fresh)[i] = atts[i]
        /\ Append(atts, fresh)[Len(atts) + 1] = fresh
    BY <1>1, <1>2, AppendProperties
  <2>3. \A i \in 1..(Len(atts) + 1) : i \in 1..Len(atts) \/ i = Len(atts) + 1
    BY <1>1
  <2>4. \A i \in 1..Len(Append(atts, fresh)) :
          Append(atts, fresh)[i].current \in 1..Len(Append(atts, fresh)[i].alternatives)
    BY <1>1, <1>2, <2>2, <2>3
  <2>. QED
    BY <2>1, <2>2, <2>4, Zenon DEF AttLists
<1>4. CASE HasAtt(atts, name)
  <2>. DEFINE i == pathcomp_retrieve_att(atts, name)
  <2>1. i \in 1..Len(atts)
    BY <1>4, RetrieveIs
  <2>. HIDE DEF i
  <2>2. ASSUME NEW att \in AttType, att.current \in 1..Len(att.alternatives)
        PROVE  [atts EXCEPT ![i] = att] \in AttLists
    <3>. DEFINE changed == [atts EXCEPT ![i] = att]
    <3>1. /\ changed \in [1..Len(atts) -> AttType]
          /\ \A j \in 1..Len(atts) : changed[j] = IF j = i THEN att ELSE atts[j]
      BY <1>1, <2>1, <2>2
    <3>. HIDE DEF changed
    <3>2. \A j \in 1..Len(atts) : changed[j].current \in 1..Len(changed[j].alternatives)
      BY <1>1, <2>2, <3>1
    <3>3. changed \in AttLists
      BY <1>1, <3>1, <3>2, AttListIs, Zenon
    <3>. QED
      BY <3>3 DEF changed
  <2>3. \E att \in {att_replace_value(atts[i], value, NULL), att_add_value(atts[i], value)} :
          new = [atts EXCEPT ![i] = att]
    <3>1. CASE action = "REPLACE"
      <4>1. new = [atts EXCEPT ![i] = att_replace_value(atts[i], value, NULL)]
        BY <1>4, <3>1 DEF pathcomp_add_or_replace, i
      <4>. QED
        BY <4>1, Zenon
    <3>2. CASE action = "ADD"
      <4>1. new = [atts EXCEPT ![i] = att_add_value(atts[i], value)]
        BY <1>4, <3>2 DEF pathcomp_add_or_replace, i
      <4>. QED
        BY <4>1, Zenon
    <3>. QED
      BY <3>1, <3>2
  <2>. HIDE DEF new
  <2>4. PICK att \in {att_replace_value(atts[i], value, NULL), att_add_value(atts[i], value)} :
          new = [atts EXCEPT ![i] = att]
    BY <2>3, Zenon
  <2>5. att \in AttType /\ att.current \in 1..Len(att.alternatives)
    <3>1. atts[i] \in AttType /\ atts[i].current \in 1..Len(atts[i].alternatives)
      BY <1>1, <2>1
    <3>. QED
      BY <2>4, <3>1, ValueAttType, Zenon
  <2>6. new \in AttLists
    BY <2>2, <2>4, <2>5, Zenon
  <2>. QED
    BY <2>6, Zenon DEF new
<1>. QED
  BY <1>3, <1>4

\* An operand that kv_new accepts.
KvType == {kv \in OperandType : kv.value \in ValueType}

\* The composer for a class, with the attributes of the command line.
LEMMA ComposedType ==
  ASSUME NEW file \in DOMAIN FromConfig, NEW class \in STRING, IsClass(class),
         NEW kvs \in Seq(KvType)
  PROVE  Composed(file, class, kvs) \in Composers
<1>. DEFINE n == Len(kvs)
            first == pathcomp_new(class, FromConfig[file][class])
            Body(C) == [k \in 0..n |-> IF k = 0 THEN first ELSE kv_add_to_composer(C[k - 1], kvs[k])]
            C == CHOOSE C : C = Body(C)
            step == [k \in 1..n |-> [c \in Composers |-> kv_add_to_composer(c, kvs[k])]]
<1>1. Composed(file, class, kvs) = C[n]
  BY Zenon DEF Composed
<1>2. n \in Nat /\ \A k \in 1..n : kvs[k] \in KvType
  OBVIOUS
<1>3. first \in Composers
  <2>1. FromConfig[file][class] \in AttLists
    BY FromConfigAssumption DEF IsClass
  <2>. QED
    BY <2>1 DEF pathcomp_new, Composers
<1>4. ASSUME NEW c \in Composers, NEW kv \in KvType PROVE kv_add_to_composer(c, kv) \in Composers
  <2>1. c.attributes \in AttLists /\ kv.key \in STRING /\ kv.value \in ValueType
    BY DEF Composers, KvType, OperandType
  <2>2. \A action \in {"ADD", "REPLACE"} :
          pathcomp_add_or_replace(c.name, c.attributes, kv.key, kv.value, NULL, action) \in AttLists
    BY <2>1, AddOrReplaceType, Zenon
  <2>3. ASSUME NEW atts \in AttLists PROVE [c EXCEPT !.attributes = atts] \in Composers
    BY DEF Composers
  <2>4. pathcomp_add(c, kv.key, kv.value) \in Composers
    BY <2>2, <2>3 DEF pathcomp_add
  <2>5. pathcomp_set(c, kv.key, kv.value) \in Composers
    BY <2>2, <2>3 DEF pathcomp_set
  <2>. QED
    BY <2>4, <2>5 DEF kv_add_to_composer
<1>5. step \in [1..n -> [Composers -> Composers]]
  BY <1>2, <1>4
<1>6. PICK f : Computes(f, n, Composers, first, step)
  <2>. HIDE DEF step, first, n
  <2>. QED
    BY <1>2, <1>3, <1>5, RecursionExists
<1>. HIDE DEF first
<1>7. f = Body(f)
  <2>1. ASSUME NEW k \in 1..n PROVE f[k] = kv_add_to_composer(f[k - 1], kvs[k])
    <3>1. k - 1 \in 0..n
      BY <1>2
    <3>2. f[k - 1] \in Composers /\ f[k] = step[k][f[k - 1]]
      BY <1>6, <3>1, Zenon DEF Computes
    <3>. QED
      BY <3>2
  <2>2. f \in [0..n -> Composers] /\ f[0] = first
    BY <1>6 DEF Computes
  <2>3. \A k \in 0..n : k # 0 => k \in 1..n
    BY <1>2
  <2>4. \A k \in 0..n : f[k] = IF k = 0 THEN first ELSE kv_add_to_composer(f[k - 1], kvs[k])
    BY <2>1, <2>2, <2>3, Zenon
  <2>. QED
    BY <2>2, <2>4
<1>8. C = Body(C)
  BY <1>7, Zenon
<1>. HIDE DEF C
<1>9. C[0] \in Composers
  BY <1>2, <1>3, <1>8
<1>10. ASSUME NEW k \in 1..n, C[k - 1] \in Composers PROVE C[k] \in Composers
  <2>1. k \in 0..n /\ k # 0
    BY <1>2
  <2>2. C[k] = kv_add_to_composer(C[k - 1], kvs[k])
    BY <1>8, <2>1, Zenon
  <2>. QED
    BY <1>2, <1>4, <1>10, <2>2
<1>11. C[n] \in Composers
  BY <1>2, <1>9, <1>10, RecursionStays
<1>. QED
  BY <1>1, <1>11

-----------------------------------------------------------------------------
(* The program *)

Stages == {"getopt", "operands", "loop", "find", "path", "mkdir", "print", "next",
           "free", "success", "failure", "aborted"}

\* The stages in which main has a composer.
Active == {"loop", "find", "path", "mkdir", "print", "next", "free"}

\* What has been read of the command line.
ReadInv ==
  /\ args \in Args
  /\ read \in [options : Nat, operands : Nat]
  /\ options \in [class : STRING \cup {NULL}, attributes : Seq(KvType), print_all : BOOLEAN,
                  only_existing : BOOLEAN, config_file : DOMAIN FromConfig,
                  do_mkdir : BOOLEAN, eval_att : STRING \cup {NULL}]
  /\ options.class # NULL => IsClass(options.class)

\* The pathname of this turn is the composer's, and was found if that is asked for.
PathInv ==
  /\ pc \in {"mkdir", "print"} => path # NULL
  /\ pc \in {"path", "mkdir"} /\ path # NULL =>
       /\ path = pathcomp_yield(composer)
       /\ options.only_existing => path_exists(fs, path)

ProgramInv ==
  /\ pc \in Stages
  /\ ReadInv
  /\ pc = "operands" => options.class # NULL
  /\ composer \in IF pc \in Active THEN Composers ELSE {NULL}
  /\ fs \in FileSystems /\ Sound(fs)
  /\ at \in Nat /\ (at > 0 => pc = "mkdir")
  /\ PathInv

\* A call of mkdir(2) by pathcomp_mkdir leaves a file system, and leaves it as it is
\* when the pathname exists.
LEMMA MkdirStep ==
  ASSUME NEW disk0 \in FileSystems, Sound(disk0), NEW name \in Name, NEW from \in Nat,
         Stops(name, from) # {}
  PROVE  LET k == Seek(name, from)
         IN  /\ k \in Nat
             /\ mkdir(disk0, Cut(name, k)) \in FileSystems /\ Sound(mkdir(disk0, Cut(name, k)))
             /\ path_exists(disk0, name) => mkdir(disk0, Cut(name, k)) = disk0
<1>. DEFINE k == Seek(name, from)
<1>1. k \in Stops(name, from)
  BY SeekIs
<1>2. k \in Nat /\ k \in Stops(name, 0)
  BY <1>1 DEF Stops, Name
<1>. HIDE DEF k
<1>3. Cut(name, k) \in Name
  BY <1>2, CutIsNamed
<1>4. mkdir(disk0, Cut(name, k)) \in FileSystems /\ Sound(mkdir(disk0, Cut(name, k)))
  BY <1>3, MkdirEffect
<1>5. ASSUME path_exists(disk0, name) PROVE mkdir(disk0, Cut(name, k)) = disk0
  <2>1. IsDir(disk0, Cut(name, k))
    BY <1>2, <1>5, ExistingIsReached
  <2>2. mkdir_errno(disk0, Cut(name, k)) # "OK"
    BY <2>1 DEF mkdir_errno
  <2>. QED
    BY <2>2 DEF mkdir
<1>. QED
  BY <1>2, <1>4, <1>5 DEF k

\* The program begins with nothing read and no composer.
LEMMA ProgramInit == Init => ProgramInv
<1>1. SUFFICES ASSUME Init PROVE ProgramInv
  OBVIOUS
<1>2. fs \in FileSystems /\ Sound(fs)
  BY <1>1, SystemsAssumption DEF Init
<1>3. pc = "getopt" /\ composer = NULL /\ at = 0 /\ path = NULL
  BY <1>1 DEF Init
<1>4. ReadInv
  <2>1. args \in Args /\ read = [options |-> 0, operands |-> 0] /\ options = NoOptions
    BY <1>1 DEF Init
  <2>2. << >> \in Seq(KvType) /\ ".pathcomprc" \in DOMAIN FromConfig
    BY FromConfigAssumption
  <2>. QED
    BY <2>1, <2>2 DEF ReadInv, NoOptions
<1>. QED
  BY <1>2, <1>3, <1>4 DEF ProgramInv, PathInv, Stages, Active

\* An option keeps the options in their types.
LEMMA SetOptionType ==
  ASSUME ReadInv, NEW o \in OptionType, o.opt = "c" => IsClass(o.arg),
         o.opt = "f" => o.arg \in DOMAIN FromConfig, options' = SetOption(o),
         args' = args, read' \in [options : Nat, operands : Nat]
  PROVE  ReadInv'
<1>1. o.opt \in {"a", "c", "e", "f", "h", "m", "x", "?", ":"} /\ o.arg \in STRING \cup {NULL}
  BY DEF OptionType
<1>2. CASE o.opt = "a"
  <2>1. options' = [options EXCEPT !.print_all = TRUE]
    BY <1>2 DEF SetOption
  <2>. QED
    BY <2>1, Zenon DEF ReadInv
<1>3. CASE o.opt = "c"
  <2>1. options' = [options EXCEPT !.class = o.arg]
    BY <1>3 DEF SetOption
  <2>. QED
    BY <1>1, <1>3, <2>1 DEF ReadInv
<1>4. CASE o.opt = "e"
  <2>1. options' = [options EXCEPT !.only_existing = TRUE]
    BY <1>4 DEF SetOption
  <2>. QED
    BY <2>1, Zenon DEF ReadInv
<1>5. CASE o.opt = "f"
  <2>1. options' = [options EXCEPT !.config_file = o.arg]
    BY <1>5 DEF SetOption
  <2>. QED
    BY <1>5, <2>1 DEF ReadInv
<1>6. CASE o.opt = "m"
  <2>1. options' = [options EXCEPT !.do_mkdir = TRUE]
    BY <1>6 DEF SetOption
  <2>. QED
    BY <2>1, Zenon DEF ReadInv
<1>7. CASE o.opt = "x"
  <2>1. options' = [options EXCEPT !.eval_att = o.arg]
    BY <1>7 DEF SetOption
  <2>. QED
    BY <1>1, <2>1 DEF ReadInv
<1>8. CASE o.opt \in {"h", "?", ":"}
  <2>1. options' = options
    BY <1>8 DEF SetOption
  <2>. QED
    BY <2>1 DEF ReadInv
<1>. QED
  BY <1>1, <1>2, <1>3, <1>4, <1>5, <1>6, <1>7, <1>8

\* Reading the command line keeps the invariant.
LEMMA OptNewKeeps ==
  ASSUME ProgramInv, GetOption \/ EndOptions \/ GetOperand
  PROVE  ProgramInv'
<1>1. /\ ReadInv /\ fs \in FileSystems /\ Sound(fs) /\ at \in Nat /\ (at > 0 => pc = "mkdir")
      /\ pc = "operands" => options.class # NULL
  BY DEF ProgramInv
<1>2. /\ args' = args /\ composer' = composer /\ fs' = fs /\ path' = path /\ at' = at
      /\ pc \in {"getopt", "operands"}
      /\ pc' \in {"getopt", "operands", "success", "failure", "aborted"}
  BY DEF GetOption, EndOptions, GetOperand
<1>3. composer = NULL
  BY <1>2 DEF ProgramInv, Active
<1>4. ReadInv' /\ (pc' = "operands" => options'.class # NULL)
  <2>1. CASE GetOption
    <3>1. /\ pc = "getopt" /\ read.options < Len(args.options)
          /\ read' = [read EXCEPT !.options = @ + 1]
          /\ options' = SetOption(Option) /\ pc' \in {"success", "failure", "getopt"}
      BY <2>1 DEF GetOption
    <3>2. read.options \in Nat /\ read' \in [options : Nat, operands : Nat]
      BY <1>1, <3>1 DEF ReadInv
    <3>3. /\ args.options \in Seq(OptionType)
          /\ \A i \in 1..Len(args.options) :
               /\ args.options[i].opt = "c" => IsClass(args.options[i].arg)
               /\ args.options[i].opt = "f" => args.options[i].arg \in DOMAIN FromConfig
      BY <1>1, ArgsAssumption DEF ReadInv
    <3>4. read.options + 1 \in 1..Len(args.options)
      BY <3>1, <3>2, <3>3
    <3>5. /\ Option \in OptionType /\ (Option.opt = "c" => IsClass(Option.arg))
          /\ Option.opt = "f" => Option.arg \in DOMAIN FromConfig
      BY <3>3, <3>4 DEF Option
    <3>. QED
      BY <1>1, <1>2, <3>1, <3>2, <3>5, SetOptionType
  <2>2. CASE EndOptions
    BY <1>1, <2>2 DEF EndOptions, ReadInv
  <2>3. CASE GetOperand
    <3>. DEFINE kv == args.operands[read.operands + 1]
    <3>1. /\ pc = "operands" /\ read.operands < Len(args.operands)
          /\ read' = [read EXCEPT !.operands = @ + 1] /\ args' = args
          /\ IF kv_new_ok(kv) THEN options' = [options EXCEPT !.attributes = Append(@, kv)]
             ELSE options' = options
      BY <2>3 DEF GetOperand
    <3>2. read.operands \in Nat /\ read' \in [options : Nat, operands : Nat]
      BY <1>1, <3>1 DEF ReadInv
    <3>3. /\ args.operands \in Seq(OperandType)
          /\ \A i \in 1..Len(args.operands) : args.operands[i].eq => args.operands[i].value # NULL
      BY <1>1, ArgsAssumption DEF ReadInv
    <3>4. read.operands + 1 \in 1..Len(args.operands)
      BY <3>1, <3>2, <3>3
    <3>5. kv \in OperandType /\ (kv.eq => kv.value # NULL)
      BY <3>3, <3>4
    <3>6. kv_new_ok(kv) => kv \in KvType
      BY <3>5, Zenon DEF kv_new_ok, KvType, OperandType
    <3>. HIDE DEF kv
    <3>7. CASE kv_new_ok(kv)
      <4>1. Append(options.attributes, kv) \in Seq(KvType)
        BY <1>1, <3>6, <3>7 DEF ReadInv
      <4>2. options' = [options EXCEPT !.attributes = Append(options.attributes, kv)]
        BY <3>1, <3>7
      <4>. QED
        BY <1>1, <3>1, <3>2, <4>1, <4>2, Zenon DEF ReadInv
    <3>8. CASE ~kv_new_ok(kv)
      BY <1>1, <3>1, <3>2, <3>8 DEF ReadInv
    <3>. QED
      BY <3>7, <3>8
  <2>. QED
    BY <2>1, <2>2, <2>3
<1>. QED
  BY <1>1, <1>2, <1>3, <1>4 DEF ProgramInv, PathInv, Stages, Active

\* The steps of main and of pathcomp_find up to a pathname keep the invariant.
LEMMA FindKeeps ==
  ASSUME ProgramInv, NewComposer \/ Loop \/ FindTry \/ Path
  PROVE  ProgramInv'
<1>1. /\ ReadInv /\ fs \in FileSystems /\ Sound(fs) /\ at \in Nat /\ (at > 0 => pc = "mkdir")
      /\ PathInv
  BY DEF ProgramInv
<1>2. args' = args /\ read' = read /\ options' = options /\ fs' = fs /\ at' = at
  BY DEF NewComposer, Loop, FindTry, Path
<1>3. ReadInv'
  BY <1>1, <1>2 DEF ReadInv
<1>4. CASE NewComposer
  <2>1. /\ pc = "operands" /\ pc' = "loop"
        /\ composer' = Composed(options.config_file, options.class, options.attributes)
    BY <1>4 DEF NewComposer
  <2>2. options.class # NULL
    BY <2>1 DEF ProgramInv
  <2>3. /\ options.config_file \in DOMAIN FromConfig /\ options.class \in STRING
        /\ IsClass(options.class) /\ options.attributes \in Seq(KvType)
    BY <1>1, <2>2 DEF ReadInv
  <2>4. composer' \in Composers
    BY <2>1, <2>3, ComposedType, Zenon
  <2>. QED
    BY <1>1, <1>2, <1>3, <2>1, <2>4 DEF ProgramInv, PathInv, Stages, Active
<1>5. CASE Loop
  <2>1. pc = "loop" /\ composer' = composer /\ pc' \in {"free", "find", "path"}
    BY <1>5 DEF Loop
  <2>2. pc' = "path" => ~options.only_existing /\ path' = pathcomp_yield(composer)
    BY <1>5 DEF Loop
  <2>3. composer \in Composers
    BY <2>1 DEF ProgramInv, Active
  <2>4. PathInv'
    BY <1>2, <2>1, <2>2 DEF PathInv
  <2>. QED
    BY <1>1, <1>2, <1>3, <2>1, <2>3, <2>4 DEF ProgramInv, Stages, Active
<1>6. CASE FindTry
  <2>1. pc = "find" /\ composer' = FindMove(composer) /\ pc' \in {"find", "path"}
    BY <1>6 DEF FindTry
  <2>2. pc' = "path" /\ path' # NULL =>
          path' = pathcomp_yield(composer') /\ path_exists(fs, pathcomp_yield(composer'))
    BY <1>6 DEF FindTry
  <2>3. composer \in Composers
    BY <2>1 DEF ProgramInv, Active
  <2>4. composer' \in Composers
    BY <2>1, <2>3, NextType
  <2>5. PathInv'
    BY <1>2, <2>1, <2>2 DEF PathInv
  <2>. QED
    BY <1>1, <1>2, <1>3, <2>1, <2>4, <2>5, SMTT(20) DEF ProgramInv, Stages, Active
<1>7. CASE Path
  <2>1. /\ pc = "path" /\ composer' = composer /\ path' = path
        /\ pc' \in {"next", "mkdir", "print"} /\ (path = NULL => pc' = "next")
    BY <1>7 DEF Path
  <2>2. composer \in Composers
    BY <2>1 DEF ProgramInv, Active
  <2>3. PathInv'
    BY <1>1, <1>2, <2>1 DEF PathInv
  <2>. QED
    BY <1>1, <1>2, <1>3, <2>1, <2>2, <2>3, SMTT(20) DEF ProgramInv, Stages, Active
<1>. QED
  BY <1>4, <1>5, <1>6, <1>7

\* pathcomp_mkdir keeps it, and with -e it leaves the file system as it is.
LEMMA MkdirKeeps ==
  ASSUME ProgramInv, MkdirNext
  PROVE  ProgramInv' /\ (options.only_existing => fs' = fs)
<1>. DEFINE name == pathcomp_yield(composer)
            k == Seek(name, at)
<1>1. /\ ReadInv /\ fs \in FileSystems /\ Sound(fs) /\ at \in Nat /\ PathInv
  BY DEF ProgramInv
<1>2. /\ pc = "mkdir" /\ args' = args /\ read' = read /\ options' = options
      /\ composer' = composer /\ path' = path
      /\ Stops(name, at) # {} /\ fs' = mkdir(fs, Cut(name, k))
      /\ (at' = 0 /\ pc' = "print") \/ (at' = k /\ pc' = pc)
  BY DEF MkdirNext
<1>3. composer \in Composers
  BY <1>2 DEF ProgramInv, Active
<1>4. path = name /\ path # NULL /\ (options.only_existing => path_exists(fs, name))
  BY <1>1, <1>2 DEF PathInv
<1>5. name \in Name
  BY <1>3, <1>4, YieldType DEF Result
<1>6. /\ k \in Nat /\ fs' \in FileSystems /\ Sound(fs')
      /\ path_exists(fs, name) => fs' = fs
  <2>. HIDE DEF name
  <2>. QED
    BY <1>1, <1>2, <1>5, MkdirStep
<1>7. options.only_existing => fs' = fs
  BY <1>4, <1>6
<1>8. ReadInv'
  BY <1>1, <1>2 DEF ReadInv
<1>9. PathInv'
  BY <1>2, <1>4, <1>7 DEF PathInv
<1>10. at' \in Nat /\ (at' > 0 => pc' = "mkdir") /\ pc' \in {"mkdir", "print"}
  <2>. HIDE DEF k
  <2>. QED
    BY <1>2, <1>6
<1>. QED
  BY <1>2, <1>3, <1>6, <1>7, <1>8, <1>9, <1>10 DEF ProgramInv, Stages, Active

\* The rest of a turn and the end of the loop keep it.
LEMMA AdvanceKeeps ==
  ASSUME ProgramInv, MkdirReturn \/ PrintPath \/ Advance \/ FreeAll
  PROVE  ProgramInv'
<1>1. /\ ReadInv /\ fs \in FileSystems /\ Sound(fs) /\ at \in Nat /\ (at > 0 => pc = "mkdir")
      /\ PathInv
  BY DEF ProgramInv
<1>2. /\ args' = args /\ read' = read /\ options' = options /\ fs' = fs /\ path' = path
      /\ pc \in {"mkdir", "print", "next", "free"} /\ pc' \in {"print", "next", "loop", "free", "success"}
      /\ pc = "mkdir" => at' = 0 /\ pc' = "print"
      /\ pc # "mkdir" => at' = at /\ pc' # "print"
  BY DEF MkdirReturn, PrintPath, Advance, FreeAll
<1>3. composer \in Composers
  BY <1>2 DEF ProgramInv, Active
<1>4. composer' \in IF pc' = "success" THEN {NULL} ELSE Composers
  <2>1. CASE MkdirReturn \/ PrintPath
    BY <1>3, <2>1 DEF MkdirReturn, PrintPath
  <2>2. CASE Advance
    BY <1>3, <2>2, NextType DEF Advance
  <2>3. CASE FreeAll
    BY <2>3 DEF FreeAll
  <2>. QED
    BY <2>1, <2>2, <2>3
<1>5. ReadInv'
  BY <1>1, <1>2 DEF ReadInv
<1>6. PathInv'
  BY <1>1, <1>2 DEF PathInv
<1>7. at' = 0
  BY <1>1, <1>2
<1>. QED
  BY <1>1, <1>2, <1>4, <1>5, <1>6, <1>7 DEF ProgramInv, Stages, Active

\* Every step of the program keeps the invariant.
LEMMA ProgramNext == ProgramInv /\ [Next]_vars => ProgramInv'
<1>1. SUFFICES ASSUME ProgramInv, [Next]_vars PROVE ProgramInv'
  OBVIOUS
<1>2. CASE UNCHANGED vars
  BY <1>1, <1>2 DEF vars, ProgramInv, ReadInv, PathInv
<1>3. CASE Next
  BY <1>1, <1>3, OptNewKeeps, FindKeeps, MkdirKeeps, AdvanceKeeps DEF Next
<1>. QED
  BY <1>1, <1>2, <1>3

\* The invariant holds throughout.
LEMMA ProgramAlways == Spec => []ProgramInv
  BY ProgramInit, ProgramNext, PTL DEF Spec

\* The stage of main, its composer, its pathname and the place of pathcomp_mkdir in
\* it fit together.
THEOREM ProgramTypeCorrect == Spec => []TypeOK
<1>1. ASSUME ProgramInv PROVE TypeOK
  <2>1. NULL \notin Composers
    BY NullAssumption DEF Composers
  <2>2. pc \in Stages /\ (composer \in IF pc \in Active THEN Composers ELSE {NULL})
    BY <1>1 DEF ProgramInv
  <2>3. pc \in Active <=> composer # NULL
    BY <2>1, <2>2, Zenon
  <2>4. (pc \in {"mkdir", "print"} => path # NULL) /\ (at > 0 => pc = "mkdir")
    BY <1>1 DEF ProgramInv, PathInv
  <2>. QED
    BY <2>2, <2>3, <2>4 DEF TypeOK, Stages, Active
<1>. QED
  BY <1>1, ProgramAlways, PTL

\* With -e, -m makes no directory: pathcomp_find has seen the pathname, so all its
\* leading directories are there when pathcomp_mkdir asks for them.
THEOREM ExistingMakesNone == Spec => ExistingNeedNoMkdir
<1>1. ASSUME ProgramInv, [Next]_vars PROVE [options.only_existing => fs' = fs]_vars
  <2>1. CASE MkdirNext
    BY <1>1, <2>1, MkdirKeeps
  <2>2. CASE Next /\ ~MkdirNext
    <3>1. fs' = fs
      BY <2>2 DEF Next, GetOption, EndOptions, GetOperand, NewComposer, Loop, FindTry, Path,
                  MkdirReturn, PrintPath, Advance, FreeAll
    <3>. QED
      BY <3>1
  <2>. QED
    BY <1>1, <2>1, <2>2
<1>. QED
  BY <1>1, ProgramAlways, PTL DEF Spec, ExistingNeedNoMkdir
=============================================================================
