----------------------------- MODULE LuaMeaning -----------------------------
(***************************************************************************)
(* What Lua programs mean (sections 2.4 and 2.5 of liblua/doc/manual.html):*)
(* a definition by evaluation of the syntax tree, without registers, jumps *)
(* or a stack, to compare compiled programs with.  Tokens gives the text   *)
(* of a tree, with only the parentheses that the manual's precedences ask  *)
(* for.                                                                    *)
(*                                                                         *)
(* Expressions: <<"nil">>, <<"true">>, <<"false">>, <<"num", n>>,          *)
(*   <<"str", s>>, <<"...">>, <<"var", x>>, <<"index", t, k>>,             *)
(*   <<"call", f, args>>, <<"method", o, name, args>>, <<"paren", e>>,     *)
(*   <<"function", params, vararg, body>> where vararg is "no", "dots"     *)
(*   (the body uses "...") or "arg" (it may use arg), <<"bin", op, a, b>>, *)
(*   <<"un", op, a>>, <<"table", fields>>, each field <<"item", e>> or     *)
(*   <<"pair", k, e>>.                                                     *)
(* Statements: <<"local", names, exps>>, <<"assign", targets, exps>>,      *)
(*   <<"do", body>>, <<"while", c, body>>, <<"repeat", body, c>>,          *)
(*   <<"if", clauses, else>>, <<"fornum", x, exps, body>>,                 *)
(*   <<"forin", names, exps, body>>, <<"localfunction", x, f>>,            *)
(*   <<"function", names, method, f>> (method is << >> or the name after   *)
(*   the colon), <<"eval", call>>, <<"return", exps>>, <<"break">>, and    *)
(*   <<"raw", tokens>>, which is a text without a meaning.                 *)
(*                                                                         *)
(* A value is <<"nil">>, <<"boolean", b>>, <<"number", n>>,                *)
(* <<"string", s>>, <<"table", i>>, <<"function", i>> or                   *)
(* <<"cfunction", name>>.  The state s has the values of the local         *)
(* variables (store), the tables (h, the first being that of the globals), *)
(* the functions (cl), what has been noted (out), whether there has been   *)
(* an error (err) and with which value (msg); env gives the places of the  *)
(* visible variables.                                                      *)
(***************************************************************************)
EXTENDS LuaValues

Truthy(v) == v # Nil /\ v # Bool(FALSE)

\* In lists, a value that is missing is nil.
Adjust(vs, n) == << >> \o [i \in 1 .. n |-> IF i \in DOMAIN vs THEN vs[i] ELSE Nil]
First(vs) == IF vs = << >> THEN Nil ELSE vs[1]

Seen(vs) == << >> \o [i \in DOMAIN vs |-> Shown(vs[i])]

\* The number of elements of a table without holes.
Length(t) == Cardinality({k \in DOMAIN t : k[1] = "number"})

Number(op, a, b) ==
  CASE op = "+" -> a + b
    [] op = "-" -> a - b
    [] op = "*" -> a * b
    [] op = "/" -> a \div b
    [] op = "%" -> a % b
    [] op = "^" -> a ^ b

IsText(v) == v[1] \in {"string", "number"}
Text(v) == IF v[1] = "string" THEN v[2] ELSE <<ToString(v[2])>>
Digits(v) == {n \in 0 .. 9 : v = <<"string", <<ToString(n)>>>>}
IsNumber(v) == v[1] = "number" \/ Digits(v) # {}
ToNumber(v) == IF v[1] = "number" THEN v[2] ELSE CHOOSE n \in Digits(v) : TRUE

\* Strings in the order of the alphabet.
Precedes(x, y) ==
  LET rank(a) == CHOOSE i \in DOMAIN Alphabet : Alphabet[i] = a
      shorter == IsStrictPrefix(x, y)
  IN  shorter \/ \E i \in DOMAIN x \cap DOMAIN y : SubSeq(x, 1, i - 1) = SubSeq(y, 1, i - 1) /\ rank(x[i]) < rank(y[i])

\* Section 2.8: the handler of an event, or nil.
Handler(s, v, event) ==
  IF v[1] = "table" /\ s.h[v[2]].mt # 0 THEN RawGet(s.h[s.h[v[2]].mt].t, <<"string", <<event>>>>) ELSE Nil
BinHandler(s, a, b, event) == IF Handler(s, a, event) # Nil THEN Handler(s, a, event) ELSE Handler(s, b, event)
CompHandler(s, a, b, event) ==
  IF a[1] = "table" /\ b[1] = "table" /\ Handler(s, a, event) = Handler(s, b, event) THEN Handler(s, a, event) ELSE Nil
EventOf == "+" :> "__add" @@ "-" :> "__sub" @@ "*" :> "__mul" @@ "/" :> "__div" @@ "%" :> "__mod" @@ "^" :> "__pow"

RECURSIVE Ev(_, _, _), Index(_, _, _), SetIndex(_, _, _, _), EvAll(_, _, _), Call(_, _, _), Run(_, _, _), While(_, _, _, _), Repeat(_, _, _),
          ForNum(_, _, _, _, _, _, _), ForIn(_, _, _, _, _, _, _), Places(_, _, _), Fields(_, _, _, _, _)

Raise(s, v) == [s EXCEPT !.err = TRUE, !.msg = v]
Error(s, msg) == [s |-> Raise(s, <<"string", <<msg>>>>), vs |-> << >>]
Stopped(s) == [s |-> s, vs |-> << >>]
Ev1(e, env, s) == LET r == Ev(e, env, s) IN [s |-> r.s, v |-> First(r.vs)]

\* A list of expressions: the last one may give any number of values.
EvAll(es, env, s) ==
  LET r == Ev(Head(es), env, s)
      rest == EvAll(Tail(es), env, r.s)
  IN  IF es = << >> THEN [s |-> s, vs |-> << >>]
      ELSE IF Len(es) = 1 THEN r
      ELSE [s |-> rest.s, vs |-> <<First(r.vs)>> \o rest.vs]

New(s, v) == [s |-> [s EXCEPT !.store = Append(@, v)], at |-> Len(s.store) + 1]

\* New variables with these values.
Declare(names, vs, env, s) ==
  LET one(r, i) == LET n == New(r.s, Adjust(vs, Len(names))[i]) IN [s |-> n.s, env |-> (names[i] :> n.at) @@ r.env]
  IN  FoldLeft(one, [s |-> s, env |-> env], [i \in DOMAIN names |-> i])

\* The C functions (note is the host's).
CCall(name, args, s) ==
  LET a == Adjust(args, 3)
      ok(vs) == [s |-> s, vs |-> vs]
      tried == Call(a[1], Tail(args), s)
      caught == [tried.s EXCEPT !.err = FALSE]
  IN  CASE name = "note"  -> [s |-> [s EXCEPT !.out = Append(@, Seen(args))], vs |-> args]
        [] name = "error" -> [s |-> Raise(s, a[1]), vs |-> << >>]
        [] name = "assert" -> IF Truthy(a[1]) THEN ok(args) ELSE [s |-> Raise(s, a[2]), vs |-> << >>]
        [] name = "select" -> IF a[1][1] = "string" THEN ok(<<<<"number", Len(args) - 1>>>>)
                              ELSE ok(SubSeq(args, 1 + a[1][2], Len(args)))
        [] name = "rawget" -> ok(<<RawGet(s.h[a[1][2]].t, a[2])>>)
        [] name = "rawset" -> [s |-> [s EXCEPT !.h[a[1][2]].t = RawSet(@, a[2], a[3])], vs |-> <<a[1]>>]
        [] name = "setmetatable" -> [s |-> [s EXCEPT !.h[a[1][2]].mt = IF a[2] = Nil THEN 0 ELSE a[2][2]], vs |-> <<a[1]>>]
        [] name = "getmetatable" -> ok(<<IF s.h[a[1][2]].mt = 0 THEN Nil ELSE <<"table", s.h[a[1][2]].mt>>>>)
        [] name = "unpack" -> ok(<< >> \o [i \in 1 .. Length(s.h[a[1][2]].t) |-> RawGet(s.h[a[1][2]].t, <<"number", i>>)])
        [] name = "ipairs" -> ok(<<<<"cfunction", "ipairsaux">>, a[1], <<"number", 0>>>>)
        [] name = "ipairsaux" -> LET i == <<"number", a[2][2] + 1>>
                                     v == RawGet(s.h[a[1][2]].t, i)
                                 IN  ok(IF v = Nil THEN << >> ELSE <<i, v>>)
        [] name = "pcall" -> IF tried.s.err THEN [s |-> caught, vs |-> <<Bool(FALSE), tried.s.msg>>]
                             ELSE [s |-> tried.s, vs |-> <<Bool(TRUE)>> \o tried.vs]
        [] name = "xpcall" -> LET t == Call(a[1], << >>, s)
                                  h == Call(a[2], <<t.s.msg>>, [t.s EXCEPT !.err = FALSE])
                              IN  IF t.s.err THEN [s |-> h.s, vs |-> <<Bool(FALSE), First(h.vs)>>]
                                  ELSE [s |-> t.s, vs |-> <<Bool(TRUE)>> \o t.vs]

Call(f, args, s) ==
  LET c == s.cl[f[2]]
      d == Declare(c.params, args, c.env, s)
      extra == SubSeq(args, Len(c.params) + 1, Len(args))
      t == [k \in {<<"number", i>> : i \in {j \in DOMAIN extra : extra[j] # Nil}} \cup {<<"string", <<"n">>>>} |->
              IF k[1] = "string" THEN <<"number", Len(extra)>> ELSE extra[k[2]]]
      a == Declare(<<<<"arg">>>>, <<<<"table", Len(d.s.h) + 1>>>>, d.env, [d.s EXCEPT !.h = Append(@, [t |-> t, mt |-> 0])])
      in == CASE c.vararg = "no"   -> d
             [] c.vararg = "dots" -> [s |-> d.s, env |-> (<<"...">> :> extra) @@ d.env]
             [] c.vararg = "arg"  -> a
      r == Run(c.body, in.env, in.s)
      handler == Handler(s, f, "__call")
  IN  CASE f[1] = "cfunction" -> CCall(f[2], args, s)
        [] f[1] = "function"  -> [s |-> r.s, vs |-> r.vs]
        [] OTHER              -> IF handler = Nil THEN Error(s, "call") ELSE Call(handler, <<f>> \o args, s)

\* One value of a call.
Call1(f, args, s) == LET r == Call(f, args, s) IN IF r.s.err THEN r ELSE [s |-> r.s, vs |-> <<First(r.vs)>>]

Index(t, k, s) ==
  LET v == RawGet(s.h[t[2]].t, k)
      h == Handler(s, t, "__index")
  IN  IF t[1] = "table" /\ (v # Nil \/ h = Nil) THEN [s |-> s, vs |-> <<v>>]
      ELSE IF h = Nil THEN Error(s, "index")
      ELSE IF h[1] = "table" THEN Index(h, k, s)
      ELSE Call1(h, <<t, k>>, s)

SetIndex(t, k, v, s) ==
  LET h == Handler(s, t, "__newindex")
  IN  IF t[1] = "table" /\ (RawGet(s.h[t[2]].t, k) # Nil \/ h = Nil)
      THEN (IF k = Nil THEN Error(s, "nil").s ELSE [s EXCEPT !.h[t[2]].t = RawSet(@, k, v)])
      ELSE IF h = Nil THEN Error(s, "index").s
      ELSE IF h[1] = "table" THEN SetIndex(h, k, v, s)
      ELSE Call(h, <<t, k, v>>, s).s

\* A handler's answer to a comparison.
Answer(h, a, b, s, negate) ==
  LET r == Call1(h, <<a, b>>, s) IN IF r.s.err THEN r ELSE [r EXCEPT !.vs = <<Bool(Truthy(r.vs[1]) # negate)>>]

BinOp(op, a, b, s) ==
  LET ok(v) == [s |-> s, vs |-> <<v>>]
      nums == a[1] = "number" /\ b[1] = "number"
      strs == a[1] = "string" /\ b[1] = "string"
      eq == CompHandler(s, a, b, "__eq")
      lt(x, y) == CompHandler(s, x, y, "__lt")
      le(x, y) == CompHandler(s, x, y, "__le")
      less(x, y) == IF nums THEN ok(Bool(x[2] < y[2])) ELSE IF strs THEN ok(Bool(Precedes(x[2], y[2])))
                    ELSE IF lt(x, y) # Nil THEN Answer(lt(x, y), x, y, s, FALSE) ELSE Error(s, "compare")
      lesseq(x, y) == IF nums THEN ok(Bool(x[2] <= y[2])) ELSE IF strs THEN ok(Bool(~Precedes(y[2], x[2])))
                      ELSE IF le(x, y) # Nil THEN Answer(le(x, y), x, y, s, FALSE)
                      ELSE IF lt(y, x) # Nil THEN Answer(lt(y, x), y, x, s, TRUE) ELSE Error(s, "compare")
      same(negate) == IF a = b \/ eq = Nil THEN ok(Bool((a = b) # negate)) ELSE Answer(eq, a, b, s, negate)
      or(event, msg) == IF BinHandler(s, a, b, event) = Nil THEN Error(s, msg) ELSE Call1(BinHandler(s, a, b, event), <<a, b>>, s)
  IN  CASE op = "==" -> same(FALSE)
        [] op = "~=" -> same(TRUE)
        [] op = "<"  -> less(a, b)
        [] op = ">"  -> less(b, a)
        [] op = "<=" -> lesseq(a, b)
        [] op = ">=" -> lesseq(b, a)
        [] op = ".." -> IF IsText(a) /\ IsText(b) THEN ok(<<"string", Text(a) \o Text(b)>>) ELSE or("__concat", "concat")
        [] OTHER     -> IF ~IsNumber(a) \/ ~IsNumber(b) THEN or(EventOf[op], "arith")
                        ELSE IF op = "/" /\ ToNumber(b) = 0 THEN ok(<<"inf">>)
                        ELSE ok(<<"number", Number(op, ToNumber(a), ToNumber(b))>>)

UnOp(op, v, s) ==
  LET ok(x) == [s |-> s, vs |-> <<x>>]
      or(event, msg) == IF Handler(s, v, event) = Nil THEN Error(s, msg) ELSE Call1(Handler(s, v, event), <<v, v>>, s)
  IN  CASE op = "not" -> ok(Bool(~Truthy(v)))
        [] op = "-"   -> IF IsNumber(v) THEN ok(<<"number", -ToNumber(v)>>) ELSE or("__unm", "arith")
        [] op = "#"   -> CASE v[1] = "table"  -> ok(<<"number", Length(s.h[v[2]].t)>>)
                           [] v[1] = "string" -> ok(<<"number", Len(v[2])>>)
                           [] OTHER           -> Error(s, "length")

\* The fields of a constructor: items are numbered from n.
Fields(fs, t, n, env, s) ==
  LET f == Head(fs)
      one == Ev1(f[2], env, s)
      all == Ev(f[2], env, s)
      put(st, i) == SetIndex(t, <<"number", n + i - 1>>, all.vs[i], st)
      val == Ev1(f[3], env, one.s)
  IN  CASE fs = << >> -> [s |-> s, vs |-> <<t>>]
        [] f[1] = "item" /\ Len(fs) = 1 ->
             [s |-> FoldLeft(put, all.s, [i \in DOMAIN all.vs |-> i]), vs |-> <<t>>]
        [] f[1] = "item" /\ Len(fs) > 1 ->
             Fields(Tail(fs), t, n + 1, env, SetIndex(t, <<"number", n>>, one.v, one.s))
        [] f[1] = "pair" -> Fields(Tail(fs), t, n, env, SetIndex(t, one.v, val.v, val.s))

Ev(e, env, s) ==
  LET val(v) == [s |-> s, vs |-> <<v>>]
      a == Ev1(e[2], env, s)
      b == Ev1(e[3], env, a.s)
      l == Ev1(e[3], env, s)
      r == Ev1(e[4], env, l.s)
      args == EvAll(e[Len(e)], env, a.s)
      m == Index(a.v, <<"string", e[3]>>, a.s)
      margs == EvAll(e[4], env, m.s)
      one(st, v) == [s |-> st, vs |-> <<v>>]
  IN  IF s.err THEN [s |-> s, vs |-> << >>] ELSE
      CASE e[1] = "nil"      -> val(Nil)
        [] e[1] = "true"     -> val(Bool(TRUE))
        [] e[1] = "false"    -> val(Bool(FALSE))
        [] e[1] = "num"      -> val(<<"number", e[2]>>)
        [] e[1] = "str"      -> val(<<"string", e[2]>>)
        [] e[1] = "..."      -> [s |-> s, vs |-> env[<<"...">>]]
        [] e[1] = "var"      -> val(IF e[2] \in DOMAIN env THEN s.store[env[e[2]]]
                                              ELSE RawGet(s.h[1].t, <<"string", e[2]>>))
        [] e[1] = "paren"    -> one(a.s, a.v)
        [] e[1] = "index"    -> IF b.s.err THEN Stopped(b.s) ELSE Index(a.v, b.v, b.s)
        [] e[1] = "function" ->
             [s |-> [s EXCEPT !.cl = Append(@, [params |-> e[2], vararg |-> e[3], body |-> e[4], env |-> env])],
              vs |-> <<<<"function", Len(s.cl) + 1>>>>]
        [] e[1] = "table"    ->
             Fields(e[2], <<"table", Len(s.h) + 1>>, 1, env, [s EXCEPT !.h = Append(@, [t |-> << >>, mt |-> 0])])
        [] e[1] = "un"       -> IF l.s.err THEN Stopped(l.s) ELSE UnOp(e[2], l.v, l.s)
        [] e[1] = "bin" /\ e[2] = "and" ->
             IF l.s.err \/ ~Truthy(l.v) THEN one(l.s, l.v) ELSE one(r.s, r.v)
        [] e[1] = "bin" /\ e[2] = "or"  ->
             IF l.s.err \/ Truthy(l.v) THEN one(l.s, l.v) ELSE one(r.s, r.v)
        [] e[1] = "bin" /\ e[2] \notin {"and", "or"} ->
             IF r.s.err THEN Stopped(r.s) ELSE BinOp(e[2], l.v, r.v, r.s)
        [] e[1] = "call"     -> IF args.s.err THEN Stopped(args.s) ELSE Call(a.v, args.vs, args.s)
        [] e[1] = "method"   ->
             IF margs.s.err THEN Stopped(margs.s) ELSE Call(First(m.vs), <<a.v>> \o margs.vs, margs.s)

\* The effect of a statement: control goes on ("next"), leaves the loop
\* ("break") or the function ("return", with the values vs).
Done(s) == [s |-> s, how |-> IF s.err THEN "return" ELSE "next", vs |-> << >>, env |-> << >>]
AfterBody(r) == [r EXCEPT !.how = IF @ = "break" THEN "next" ELSE @]

While(c, body, env, s) ==
  LET t == Ev1(c, env, s)
      r == Run(body, env, t.s)
  IN  IF t.s.err \/ ~Truthy(t.v) THEN Done(t.s)
      ELSE IF r.how # "next" THEN AfterBody(r)
      ELSE While(c, body, env, r.s)

\* The condition of a repeat sees the variables of the body.
Repeat(st, env, s) ==
  LET r == Run(st[2], env, s)
      t == Ev1(st[3], r.env, r.s)
  IN  IF r.how # "next" THEN AfterBody(r)
      ELSE IF t.s.err \/ Truthy(t.v) THEN Done(t.s)
      ELSE Repeat(st, env, t.s)

ForNum(x, at, last, step, body, env, s) ==
  LET d == Declare(<<x>>, <<<<"number", at>>>>, env, s)
      r == Run(body, d.env, d.s)
  IN  IF IF step > 0 THEN at > last ELSE at < last THEN Done(s)
      ELSE IF r.how # "next" THEN AfterBody(r)
      ELSE ForNum(x, at + step, last, step, body, env, r.s)

ForIn(names, f, state, control, body, env, s) ==
  LET c == Call(f, <<state, control>>, s)
      d == Declare(names, c.vs, env, c.s)
      r == Run(body, d.env, d.s)
  IN  IF c.s.err \/ First(c.vs) = Nil THEN Done(c.s)
      ELSE IF r.how # "next" THEN AfterBody(r)
      ELSE ForIn(names, f, state, First(c.vs), body, env, r.s)

\* The tables and keys of the targets of an assignment (none for a variable).
Places(ts, env, s) ==
  LET t == Ev1(Head(ts)[2], env, s)
      k == Ev1(Head(ts)[3], env, t.s)
      indexed == Head(ts)[1] = "index"
      rest == Places(Tail(ts), env, IF indexed THEN k.s ELSE s)
  IN  IF ts = << >> THEN [s |-> s, ps |-> << >>]
      ELSE [s |-> rest.s, ps |-> <<IF indexed THEN <<t.v, k.v>> ELSE << >>>> \o rest.ps]

SetVar(x, v, env, s) ==
  IF x \in DOMAIN env THEN [s EXCEPT !.store[env[x]] = v] ELSE SetIndex(<<"table", 1>>, <<"string", x>>, v, s)

\* All expressions are evaluated before any value is assigned.
AssignAll(ts, es, env, s) ==
  LET p == Places(ts, env, s)
      r == EvAll(es, env, p.s)
      v == Adjust(r.vs, Len(ts))
      put(st, i) == IF st.err THEN st
                    ELSE IF ts[i][1] = "index" THEN SetIndex(p.ps[i][1], p.ps[i][2], v[i], st)
                    ELSE SetVar(ts[i][2], v[i], env, st)
  IN  IF r.s.err THEN r.s ELSE FoldRight(LAMBDA i, st : put(st, i), [i \in DOMAIN ts |-> i], r.s)

ExecStat(st, env, s) ==
  LET exps == EvAll(st[3], env, s)
      test(c) == Ev1(c[1], env, s)
      v == Adjust(exps.vs, 3)
      step == IF Len(st[3]) = 3 THEN v[3] ELSE <<"number", 1>>
      in(r) == [r EXCEPT !.env = env]
      fn == New(s, Nil)
      def == Ev1(st[3], (st[2] :> fn.at) @@ env, fn.s)
      ret == EvAll(st[2], env, s)
      path == Tail(st[2]) \o (IF st[3] = << >> THEN << >> ELSE <<st[3]>>)
      target == FoldLeft(LAMBDA t, x : <<"index", t, <<"str", x>>>>, <<"var", st[2][1]>>, path)
      self == IF st[3] = << >> THEN st[4] ELSE [st[4] EXCEPT ![2] = <<<<"self">>>> \o @]
  IN  CASE st[1] = "local"  -> LET d == Declare(st[2], exps.vs, env, exps.s)
                               IN  [Done(d.s) EXCEPT !.env = d.env]
        [] st[1] = "localfunction" ->
             [Done([def.s EXCEPT !.store[fn.at] = def.v]) EXCEPT !.env = (st[2] :> fn.at) @@ env]
        [] st[1] = "assign" -> in(Done(AssignAll(st[2], st[3], env, s)))
        [] st[1] = "function" -> in(Done(AssignAll(<<target>>, <<self>>, env, s)))
        [] st[1] = "eval"   -> in(Done(Ev(st[2], env, s).s))
        [] st[1] = "do"     -> in(Run(st[2], env, s))
        [] st[1] = "while"  -> in(While(st[2], st[3], env, s))
        [] st[1] = "repeat" -> in(Repeat(st, env, s))
        [] st[1] = "if"     ->
             LET t == test(st[2][1])
                 rest == <<"if", Tail(st[2]), st[3]>>
             IN  IF st[2] = << >> THEN in(Run(st[3], env, s))
                 ELSE IF t.s.err THEN Done(t.s)
                 ELSE IF Truthy(t.v) THEN in(Run(st[2][1][2], env, t.s))
                 ELSE in(Run(<<rest>>, env, t.s))
        [] st[1] = "fornum" ->
             IF exps.s.err THEN Done(exps.s)
             ELSE IF ~IsNumber(v[1]) \/ ~IsNumber(v[2]) \/ ~IsNumber(step) THEN Done(Error(exps.s, "for").s)
             ELSE in(ForNum(st[2], ToNumber(v[1]), ToNumber(v[2]), ToNumber(step), st[4], env, exps.s))
        [] st[1] = "forin"  ->
             IF exps.s.err THEN Done(exps.s) ELSE in(ForIn(st[2], v[1], v[2], v[3], st[4], env, exps.s))
        [] st[1] = "return" -> [s |-> ret.s, how |-> "return", vs |-> IF ret.s.err THEN << >> ELSE ret.vs, env |-> env]
        [] st[1] = "break"  -> [s |-> s, how |-> "break", vs |-> << >>, env |-> env]

Run(body, env, s) ==
  LET r == ExecStat(Head(body), env, s)
  IN  IF body = << >> THEN [Done(s) EXCEPT !.env = env]
      ELSE IF r.how # "next" THEN r
      ELSE Run(Tail(body), r.env, r.s)

\* What a program does: what it notes, whether it ends in an error, and what
\* it returns or raises.
Meaning(body, cfunctions) ==
  LET globals == [k \in {<<"string", <<f>>>> : f \in cfunctions} |-> <<"cfunction", k[2][1]>>]
      r == Run(body, <<"...">> :> << >>, [store |-> << >>, h |-> <<[t |-> globals, mt |-> 0]>>, cl |-> << >>,
                                          out |-> << >>, err |-> FALSE, msg |-> Nil])
  IN  [out |-> r.s.out, err |-> r.s.err, results |-> Seen(IF r.s.err THEN <<r.s.msg>> ELSE r.vs)]

-----------------------------------------------------------------------------
(***************************************************************************)
(* The text of a program.                                                  *)
(***************************************************************************)

Word(t) == <<[t |-> t, v |-> << >>]>>
Name(x) == <<[t |-> "name", v |-> x]>>

RECURSIVE ETok(_, _), STok(_), BTok(_)

Commas(parts) == FoldLeft(LAMBDA acc, l : IF acc = << >> THEN l ELSE acc \o Word(",") \o l, << >>, parts)
EToks(es) == Commas([i \in DOMAIN es |-> ETok(es[i], 0)])
Names(xs) == Commas([i \in DOMAIN xs |-> Name(xs[i])])

\* The precedences of the manual (2.5.6), from low to high; ".." and "^" are
\* right associative.
Level(op) == CASE op = "or" -> 1 [] op = "and" -> 2
               [] op \in {"<", ">", "<=", ">=", "~=", "=="} -> 3
               [] op = ".." -> 4 [] op \in {"+", "-"} -> 5 [] op \in {"*", "/", "%"} -> 6
               [] op = "^" -> 8
UnaryLevel == 7

Body(f) ==
  LET ps == Names(f[2])
      dots == IF f[3] = "no" THEN ps ELSE IF ps = << >> THEN Word("...") ELSE ps \o Word(",") \o Word("...")
  IN  Word("(") \o dots \o Word(")") \o BTok(f[4]) \o Word("end")

\* An expression in a place that takes operators of level lim or higher.
ETok(e, lim) ==
  LET wrap(l, ts) == IF l < lim THEN Word("(") \o ts \o Word(")") ELSE ts
      l == Level(e[2])
      right == e[2] \in {"..", "^"}
      prefix(p) == IF p[1] \in {"var", "index", "call", "method", "paren"} THEN ETok(p, 0)
                   ELSE Word("(") \o ETok(p, 0) \o Word(")")
      args(as) == Word("(") \o EToks(as) \o Word(")")
      field(f) == IF f[1] = "item" THEN ETok(f[2], 0)
                  ELSE Word("[") \o ETok(f[2], 0) \o Word("]") \o Word("=") \o ETok(f[3], 0)
  IN  CASE e[1] \in {"nil", "true", "false", "..."} -> Word(e[1])
        [] e[1] = "num"    -> <<[t |-> "number", v |-> e[2]]>>
        [] e[1] = "str"    -> <<[t |-> "string", v |-> e[2]]>>
        [] e[1] = "var"    -> Name(e[2])
        [] e[1] = "paren"  -> Word("(") \o ETok(e[2], 0) \o Word(")")
        [] e[1] = "index"  -> IF e[3][1] = "str" THEN prefix(e[2]) \o Word(".") \o Name(e[3][2])
                              ELSE prefix(e[2]) \o Word("[") \o ETok(e[3], 0) \o Word("]")
        [] e[1] = "call"   -> prefix(e[2]) \o args(e[3])
        [] e[1] = "method" -> prefix(e[2]) \o Word(":") \o Name(e[3]) \o args(e[4])
        [] e[1] = "function" -> Word("function") \o Body(e)
        [] e[1] = "table"  -> Word("{") \o Commas([i \in DOMAIN e[2] |-> field(e[2][i])]) \o Word("}")
        [] e[1] = "un"     -> wrap(UnaryLevel, Word(e[2]) \o ETok(e[3], UnaryLevel))
        [] e[1] = "bin"    -> wrap(l, ETok(e[3], IF right THEN l + 1 ELSE l) \o Word(e[2])
                                      \o ETok(e[4], IF right THEN l ELSE l + 1))

STok(st) ==
  LET clause(i) == Word(IF i = 1 THEN "if" ELSE "elseif") \o ETok(st[2][i][1], 0) \o Word("then") \o BTok(st[2][i][2])
      block == Word("do") \o BTok(st[Len(st)]) \o Word("end")
  IN  CASE st[1] = "local"  -> Word("local") \o Names(st[2]) \o (IF st[3] = << >> THEN << >> ELSE Word("=") \o EToks(st[3]))
        [] st[1] = "localfunction" -> Word("local") \o Word("function") \o Name(st[2]) \o Body(st[3])
        [] st[1] = "assign" -> EToks(st[2]) \o Word("=") \o EToks(st[3])
        [] st[1] = "function" -> Word("function") \o Name(st[2][1]) \o FlattenSeq([i \in 1 .. Len(st[2]) - 1 |-> Word(".") \o Name(st[2][i + 1])])
                                 \o (IF st[3] = << >> THEN << >> ELSE Word(":") \o Name(st[3])) \o Body(st[4])
        [] st[1] = "raw"    -> st[2]
        [] st[1] = "eval"   -> ETok(st[2], 0)
        [] st[1] = "do"     -> block
        [] st[1] = "while"  -> Word("while") \o ETok(st[2], 0) \o block
        [] st[1] = "repeat" -> Word("repeat") \o BTok(st[2]) \o Word("until") \o ETok(st[3], 0)
        [] st[1] = "if"     -> FlattenSeq([i \in DOMAIN st[2] |-> clause(i)])
                               \o (IF st[3] = << >> THEN << >> ELSE Word("else") \o BTok(st[3])) \o Word("end")
        [] st[1] = "fornum" -> Word("for") \o Name(st[2]) \o Word("=") \o EToks(st[3]) \o block
        [] st[1] = "forin"  -> Word("for") \o Names(st[2]) \o Word("in") \o EToks(st[3]) \o block
        [] st[1] = "return" -> Word("return") \o EToks(st[2])
        [] st[1] = "break"  -> Word("break")

\* A semicolon ends every statement, so that no call can begin in the next one.
BTok(body) == FlattenSeq([i \in DOMAIN body |-> STok(body[i]) \o Word(";")])

Tokens(body) == BTok(body)
=============================================================================
