------------------------------- MODULE MCLuaRun -------------------------------
(***************************************************************************)
(* Programs for LuaRun: pairs of syntax trees, that of the text and one    *)
(* whose meaning the text has.  They are the same, except for coroutines   *)
(* and for the limits of the machine, which LuaMeaning knows nothing of.   *)
(***************************************************************************)
EXTENDS LuaRun, LuaMeaning

MCAlphabet == <<"NUL", "a", "b">>

(* Trees *)
V(x) == <<"var", <<x>>>>
N(n) == <<"num", n>>
S(x) == <<"str", <<x>>>>
T == <<"true">>
F == <<"false">>
Z == <<"nil">>
Dots == <<"...">>
Bin(op, a, b) == <<"bin", op, a, b>>
Un(op, a) == <<"un", op, a>>
App(f, as) == <<"call", f, as>>
C(f, as) == App(V(f), as)
Idx(t, k) == <<"index", t, k>>
At1(t, k) == Idx(V(t), S(k))
Fun(ps, b) == <<"function", << >> \o [i \in DOMAIN ps |-> <<ps[i]>>], "no", b>>
Var(ps, b) == <<"function", << >> \o [i \in DOMAIN ps |-> <<ps[i]>>], "dots", b>>
Items(es) == <<"table", << >> \o [i \in DOMAIN es |-> <<"item", es[i]>>]>>
Rec(k, e) == <<"table", <<<<"pair", S(k), e>>>>>>
Empty == <<"table", << >>>>
Inc(x) == Bin("+", V(x), N(1))

Do(call) == <<"eval", call>>
Note(as) == Do(C("note", as))
Loc(x, e) == <<"local", <<<<x>>>>, <<e>>>>
Set1(x, e) == <<"assign", <<V(x)>>, <<e>>>>
Put1(t, k, e) == <<"assign", <<Idx(V(t), k)>>, <<e>>>>
Ret(es) == <<"return", es>>
If(c, a, b) == <<"if", <<<<c, a>>>>, b>>
For(x, a, b, bd) == <<"fornum", <<x>>, <<a, b>>, bd>>
Lfn(x, f) == <<"localfunction", <<x>>, f>>

Same(p) == [text |-> p, means |-> p]
Means(p, q) == [text |-> p, means |-> q]
Fails(p, msg) == [text |-> p, means |-> <<Do(C("error", <<S(msg)>>))>>]

-----------------------------------------------------------------------------
(* Conditions: as a value, in an if, in loops, and as the only value returned *)

Conditional(e, x) ==
  Same(<<Loc("x", x), Note(<<e>>), If(e, <<Note(<<T>>)>>, <<Note(<<F>>)>>),
         <<"while", e, <<Note(<<N(1)>>), <<"break">>>>>>,
         <<"repeat", <<Set1("x", Un("not", V("x"))), Loc("y", e)>>, Bin("or", V("y"), T)>>, Ret(<<e>>)>>)

Less == Bin("<", N(1), N(2))
Atoms == {Z, N(1), V("x"), Less}
Logic(A, B) == {Bin(op, a, b) : op \in {"and", "or"}, a \in A, b \in B}
Simple == Atoms \cup {Un("not", a) : a \in Atoms}
Conditions == Logic(Simple, Simple) \cup Logic(Logic(Atoms, Atoms), Atoms) \cup Logic(Atoms, Logic(Atoms, Atoms))
              \cup {Un("not", e) : e \in Logic(Atoms, Atoms)}
MCConditions == {Conditional(e, F) : e \in Conditions}

-----------------------------------------------------------------------------
(* Closures over the variables of loops, left by a break or at the end *)

Counter == Fun(<<>>, <<Set1("u", Inc("u")), Ret(<<V("u")>>)>>)
Keep == <<Loc("u", V("i")), Put1("t", V("i"), Counter)>>
Leave == If(Bin("==", V("i"), N(2)), <<<<"do", <<Loc("w", V("u")), <<"break">>>>>>>>, <<>>)
Next1 == Set1("i", Inc("i"))
Loop(kind, brk) ==
  LET last == IF brk THEN <<Leave>> ELSE <<>>
      small == Bin("<", V("i"), N(3))
  IN  CASE kind = "for"    -> <<For("i", N(1), N(3), Keep \o last)>>
        [] kind = "while"  -> <<Loc("i", N(0)), <<"while", small, <<Next1>> \o Keep \o last>>>>
        [] kind = "repeat" -> <<Loc("i", N(0)), <<"repeat", <<Next1>> \o Keep \o last, Bin(">=", V("u"), N(3))>>>>
        [] kind = "forin"  -> <<<<"forin", <<<<"i">>, <<"v">>>>,
                                 <<Fun(<<"s", "c">>, <<If(Bin("<", V("c"), V("s")), <<Ret(<<Inc("c"), V("c")>>)>>, <<>>)>>), N(3), N(0)>>,
                                 Keep \o last>>>>
Twice == Note(<<App(Idx(V("t"), N(1)), <<>>), App(Idx(V("t"), N(2)), <<>>), App(Idx(V("t"), N(1)), <<>>)>>)
MCLoops == {Same(<<Loc("t", Empty)>> \o Loop(k, b) \o <<Twice>>) : k \in {"for", "while", "repeat", "forin"}, b \in BOOLEAN}

\* More tail calls than there may be calls.
Sums(args) ==
  <<Lfn("f", Fun(<<"n", "a">>, <<If(Bin("==", V("n"), N(0)), <<Ret(<<V("a"), Fun(<<>>, <<Ret(<<V("a")>>)>>)>>)>>, <<>>),
                                 Loc("k", Fun(<<>>, <<Ret(<<V("n")>>)>>)), Ret(<<C("f", <<Bin("-", V("n"), N(1)), Bin("+", C("k", <<>>), V("a"))>>)>>)>>)),
    Ret(<<C("f", args)>>)>>

MCScopes ==
  {Same(<<Lfn("f", Fun(<<"a">>, <<Lfn("g", Fun(<<"b">>, <<Set1("a", Bin("+", V("a"), V("b"))),
                                                          Ret(<<Fun(<<>>, <<Set1("b", Inc("b")), Ret(<<V("a"), V("b")>>)>>)>>)>>)),
                                  Loc("h", C("g", <<N(2)>>)), Set1("a", Inc("a")), Ret(<<V("h")>>)>>)),
          Loc("p", C("f", <<N(1)>>)), Loc("q", C("f", <<N(7)>>)),
          Note(<<C("p", <<>>)>>), Note(<<C("q", <<>>)>>), Ret(<<C("p", <<>>)>>)>>),
   Same(<<Set1("f", Fun(<<"n">>, <<If(Bin("==", V("n"), N(0)), <<Ret(<<N(1)>>)>>, <<>>), Ret(<<Bin("*", V("n"), C("f", <<Bin("-", V("n"), N(1))>>))>>)>>)),
          Ret(<<C("f", <<N(3)>>)>>)>>),
   Means(Sums(<<N(15), N(0)>>), Sums(<<N(2), N(117)>>))}

-----------------------------------------------------------------------------
(* Assignments, calls and constructors *)

Pairs(ts, es) == <<"assign", ts, es>>
MCAssignments ==
  {Same(<<Loc("t", Items(<<N(1), N(2)>>)), Loc("s", V("t")), Loc("i", N(1)), a, Note(<<V("i"), Idx(V("s"), N(1)), Idx(V("s"), N(2)), V("t"), V("g")>>)>>) :
     a \in {Pairs(<<V("i"), Idx(V("t"), V("i"))>>, <<N(2), N(9)>>), Pairs(<<Idx(V("t"), V("i")), V("i")>>, <<N(9), N(2)>>),
            Pairs(<<Idx(V("t"), V("i")), V("t"), V("i")>>, <<N(8), N(3), N(2)>>), Pairs(<<V("t"), Idx(V("t"), V("i"))>>, <<N(3)>>),
            Pairs(<<V("i"), V("g")>>, <<N(5), N(6), C("note", <<N(7)>>)>>), Pairs(<<V("g"), V("i"), V("t")>>, <<N(4), C("note", <<N(1), N(2)>>)>>),
            Pairs(<<Idx(V("t"), N(1)), Idx(V("t"), N(2))>>, <<Idx(V("t"), N(2)), Idx(V("t"), N(1))>>),
            Pairs(<<V("i")>>, <<Bin("and", V("i"), Bin("or", V("g"), V("t")))>>)}}

Pass(k) == SubSeq(<<N(1), Z, N(3)>>, 1, k)
Dotted == <<Note(<<V("a"), Dots>>), Note(<<<<"paren", Dots>>>>), <<"local", <<<<"b">>, <<"c">>>>, <<Dots>>>>, Note(<<V("b"), V("c"), C("select", <<S("#"), Dots>>)>>),
            Loc("t", Items(<<V("a"), Dots>>)), Ret(<<Idx(V("t"), N(2)), Dots>>)>>
OldArg == <<Note(<<V("a"), Idx(V("arg"), N(1)), At1("arg", "n")>>)>>
MCVarargs ==
  {Same(<<Loc("f", Var(<<"a">>, Dotted)), Note(<<C("f", Pass(k)), N(0)>>), Ret(<<C("f", Pass(k))>>)>>) : k \in 0 .. 3}
  \cup {Same(<<Loc("f", <<"function", <<<<"a">>>>, "arg", OldArg>>), Do(C("f", Pass(k)))>>) : k \in {0, 3}}
  \cup {Same(<<Note(<<C("select", <<N(k), N(5), N(6)>>)>>), Ret(<<Dots>>)>>) : k \in 1 .. 3}

Long(k) == << >> \o [i \in 1 .. k |-> N(i)]
Length1 == Note(<<Un("#", V("t")), Idx(V("t"), N(1)), Idx(V("t"), N(3)), Idx(V("t"), N(6))>>)
MCConstructors ==
  {Same(<<Loc("t", Items(Long(k))), Length1>>) : k \in {1, 2, 3, 6}}
  \cup {Same(<<Loc("t", Items(Long(k) \o <<C("note", <<N(7), N(8), N(9)>>)>>)), Length1>>) : k \in 0 .. 2}
  \cup {Same(<<Loc("t", <<"table", <<<<"item", N(1)>>, <<"pair", S("x"), N(5)>>, <<"item", N(2)>>, <<"pair", N(7), Bin("and", N(1), V("t"))>>, <<"item", <<"paren", C("note", <<N(3), N(4)>>)>>>>>>>>),
               Length1, Note(<<At1("t", "x"), Idx(V("t"), N(7)), At1("t", "y")>>)>>)}

MCCalls ==
  {Same(<<Loc("o", Rec("n", N(4))), Put1("o", S("get"), Fun(<<"self", "k">>, <<Set1("k", Bin("+", V("k"), At1("self", "n"))), Ret(<<V("k"), V("self")>>)>>)),
          Note(<<<<"method", V("o"), <<"get">>, <<N(3)>>>>>>), Ret(<<<<"method", V("o"), <<"get">>, <<C("note", <<N(1), N(2)>>)>>>>>>)>>),
   Same(<<Note(<<Un("-", N(3)), Un("-", S("1")), Bin("-", Bin("*", N(2), N(3)), Bin("^", N(2), N(2))), Bin("%", Un("-", N(1)), N(3)), Bin("/", N(6), N(2))>>),
          Loc("a", N(2)), Note(<<Un("-", Bin("^", V("a"), V("a"))), Bin("*", Bin("+", V("a"), S("1")), N(2)), Bin("%", N(5), V("a")), Bin("/", N(4), V("a")), Bin("/", N(1), N(0))>>),
          Note(<<Bin("..", Bin("..", S("a"), N(1)), Bin("..", V("a"), S("b"))), Bin("..", V("a"), Bin("..", S("a"), Bin("..", S("b"), N(2)))), Un("#", S("a")), Un("not", V("g"))>>)>>),
   Same(<<Note(<<Bin("==", N(1), S("1")), Bin("~=", Z, F), Bin("<", S("a"), S("b")), Bin("<=", S("b"), S("a")), Bin(">", N(2), N(1)), Bin(">=", N(1), N(2))>>),
          Loc("x", <<"str", <<"a", "NUL", "b">>>>), Loc("y", <<"str", <<"a", "NUL", "a">>>>),
          Note(<<Bin("<", V("x"), V("y")), Bin("<", V("y"), V("x")), Bin("<=", V("x"), V("x")), Bin("<", S("a"), V("x")), Bin("<", V("x"), S("a"))>>)>>),
   Same(<<For("i", N(3), N(1), <<Note(<<V("i")>>)>>), <<"fornum", <<"i">>, <<N(3), N(1), Un("-", N(2))>>, <<Note(<<V("i")>>)>>>>, For("i", N(1), S("2"), <<Note(<<V("i")>>)>>)>>),
   Same(<<<<"local", <<<<"a">>, <<"b">>, <<"c">>>>, <<>>>>, Note(<<V("a"), V("c")>>), <<"do", <<Loc("d", N(1))>>>>, <<"local", <<<<"d">>, <<"e">>>>, <<T>>>>, Note(<<V("d"), V("e")>>),
          <<"if", <<<<Bin("==", V("d"), N(1)), <<Note(<<N(1)>>)>>>>, <<Un("not", V("e")), <<Note(<<N(2)>>)>>>>>>, <<Note(<<N(3)>>)>>>>,
          <<"if", <<<<V("e"), <<Note(<<N(1)>>)>>>>, <<F, <<>>>>>>, <<Note(<<N(3)>>)>>>>>>)}

-----------------------------------------------------------------------------
(* Metamethods *)

Meta(fields) == C("setmetatable", <<Empty, <<"table", << >> \o [i \in DOMAIN fields |-> <<"pair", S(fields[i][1]), fields[i][2]>>]>>>>)
Says(x) == Var(<<"a", "b">>, <<Note(<<S(x), V("b")>>), Ret(<<V("r"), N(7)>>)>>)
Handlers(es) == Meta(<< >> \o [i \in DOMAIN es |-> <<es[i], Says(es[i])>>])

Operate == <<Bin("+", V("o"), N(1)), Bin("-", N(1), V("o")), Bin("*", V("o"), V("o")), Bin("/", V("o"), N(2)), Bin("%", N(5), V("o")),
             Bin("^", V("o"), N(2)), Un("-", V("o")), Bin("..", S("a"), Bin("..", V("o"), S("b"))), Bin("..", V("o"), Bin("..", N(1), N(2)))>>
AllHandlers == <<"__add", "__sub", "__mul", "__div", "__mod", "__pow", "__unm", "__concat">>
Pairwise == <<Bin("==", V("o"), V("p")), Bin("~=", V("o"), V("p")), Bin("<", V("o"), V("p")), Bin("<=", V("o"), V("p")), Bin(">", V("o"), V("p")), Bin(">=", V("o"), V("p"))>>
Comparing(h, r) == <<Loc("r", r), Loc("m", <<"table", << >> \o [i \in DOMAIN h |-> <<"pair", S(h[i]), Says(h[i])>>]>>),
                     Loc("o", C("setmetatable", <<Empty, V("m")>>)), Loc("p", C("setmetatable", <<Empty, V("m")>>))>>
Chain(n, last) == <<Loc("t", last)>> \o FoldLeft(LAMBDA acc, i : acc \o <<Set1("t", Meta(<<<<"__index", V("t")>>, <<"__newindex", V("t")>>>>))>>, <<>>, [i \in 1 .. n |-> i])

MCMeta ==
  {Same(<<Loc("r", N(3)), Loc("o", Handlers(AllHandlers)), Note(<<Operate[i]>>), Ret(<<Operate[i], V("r")>>)>>) : i \in DOMAIN Operate}
  \cup {Same(<<Loc("o", Empty), Ret(<<Operate[i]>>)>>) : i \in {1, 7, 8}}
  \cup {Same(Comparing(h, r) \o <<If(e, <<Note(<<N(1)>>)>>, <<Note(<<N(2)>>)>>), Loc("x", e), Ret(<<Bin("and", V("x"), N(5))>>)>>) :
          e \in {Pairwise[i] : i \in DOMAIN Pairwise}, h \in {<<"__eq", "__lt", "__le">>, <<"__lt">>}, r \in {Z, N(1)}}
  \cup {Same(Comparing(<<"__eq">>, T) \o <<Note(<<Bin("==", V("o"), V("o")), Bin("==", V("o"), N(1))>>), Ret(<<Bin("<", V("o"), V("p"))>>)>>),
        Same(<<Ret(<<Bin("<", N(1), S("a"))>>)>>)}
  \cup {Same(Chain(n, Rec("x", N(5))) \o <<Note(<<At1("t", "x"), At1("t", "y")>>), Put1("t", S("y"), N(6)), Note(<<At1("t", "y"), C("rawget", <<V("t"), S("y")>>)>>)>>) : n \in {0, 2}}
  \cup {Means(Chain(3, Empty) \o <<Ret(<<At1("t", "x")>>)>>, <<Do(C("error", <<S("loop")>>))>>),
        Means(Chain(3, Empty) \o <<Put1("t", N(1), N(2))>>, <<Do(C("error", <<S("loop")>>))>>)}
  \cup {Same(<<Loc("o", Meta(<<<<"__index", Fun(<<"t", "k">>, <<Note(<<V("k")>>), Ret(<<N(3), N(4)>>)>>)>>, <<"__newindex", Fun(<<"t", "k", "v">>, <<Do(C("rawset", <<V("t"), V("k"), Inc("v")>>)), Ret(<<N(1)>>)>>)>>,
                                   <<"__call", Fun(<<"s", "x">>, <<Ret(<<V("x"), At1("s", "q")>>)>>)>>>>)),
               Note(<<At1("o", "x"), <<"paren", C("o", <<N(8)>>)>>>>), Put1("o", N(1), N(2)), Put1("o", N(1), N(5)), Note(<<Idx(V("o"), N(1))>>), Ret(<<C("o", <<N(9)>>)>>)>>),
        Same(<<Loc("o", Meta(<<<<"__index", Rec("m", Fun(<<"s", "x">>, <<Ret(<<V("x")>>)>>))>>, <<"__metatable", N(3)>>>>)),
               Note(<<<<"method", V("o"), <<"m">>, <<N(1)>>>>>>), Ret(<<C("rawget", <<V("o"), S("m")>>)>>)>>),
        Same(<<Loc("m", Empty), Loc("o", C("setmetatable", <<Empty, V("m")>>)), Note(<<Bin("==", C("getmetatable", <<V("o")>>), V("m")), C("getmetatable", <<V("m")>>)>>),
               Ret(<<C("getmetatable", <<C("setmetatable", <<V("o"), Z>>)>>)>>)>>),
        Means(<<Loc("o", Meta(<<<<"__metatable", N(3)>>>>)), Note(<<C("getmetatable", <<V("o")>>)>>), Do(C("setmetatable", <<V("o"), Z>>))>>,
              <<Note(<<N(3)>>), Do(C("error", <<S("protected")>>))>>)}

-----------------------------------------------------------------------------
(* Errors and protected calls *)

Wrong == <<Idx(V("g"), N(1)), C("g", <<N(1)>>), Bin("+", Empty, N(1)), Bin("..", S("a"), Z), Un("#", Z), Bin("<", N(1), T), C("error", <<Items(<<N(1)>>)>>), C("error", <<>>),
           C("assert", <<F, S("a")>>), C("pcall", <<V("error"), S("b")>>)>>
Try(f) == C("pcall", <<f>>)
Captured == <<Loc("k", N(1)), Loc("f", Z),
              Note(<<Try(Fun(<<>>, <<Loc("u", N(5)), Set1("f", Fun(<<>>, <<Set1("u", Inc("u")), Ret(<<V("u"), V("k")>>)>>)), Set1("k", N(2)), Do(C("error", <<S("a")>>))>>))>>),
              Note(<<C("f", <<>>)>>), Ret(<<C("f", <<>>)>>)>>
Overflow == Lfn("f", Fun(<<"n">>, <<Loc("y", C("f", <<Inc("n")>>)), Ret(<<V("y")>>)>>))
Through(call) == Lfn("f", Fun(<<"n">>, <<Loc("y", call), Ret(<<V("y")>>)>>))
Handled(h) == C("xpcall", <<Fun(<<>>, <<Ret(<<At1("g", "x")>>)>>), h>>)

MCErrors ==
  {Same(<<Note(<<Try(Fun(<<>>, <<Ret(<<Wrong[i]>>)>>))>>), Note(<<N(1)>>), Loc("x", Wrong[i]), Note(<<N(2)>>)>>) : i \in DOMAIN Wrong}
  \cup {Same(Captured),
        Same(<<Note(<<C("assert", <<N(1), N(2)>>)>>), Do(C("assert", <<N(1)>>)), Put1("g", N(1), N(2))>>),
        Same(<<Loc("t", Empty), Put1("t", Z, N(2))>>),
        Same(<<For("i", Empty, N(2), <<>>)>>),
        Same(<<Note(<<Handled(Fun(<<"m">>, <<Note(<<V("m")>>), Ret(<<N(4), N(5)>>)>>))>>), Note(<<C("xpcall", <<Fun(<<>>, <<Ret(<<N(1), N(2)>>)>>), V("note")>>)>>)>>),
        Means(<<Note(<<Handled(Fun(<<"m">>, <<Ret(<<Idx(V("g"), N(1))>>)>>))>>)>>, <<Note(<<F, S("error in error handling")>>)>>),
        Means(<<Note(<<Handled(N(1))>>)>>, <<Note(<<F, S("error in error handling")>>)>>),
        Means(<<Overflow, Note(<<C("pcall", <<V("f"), N(1)>>)>>), Note(<<C("pcall", <<V("f"), N(1)>>)>>), Ret(<<C("f", <<N(1)>>)>>)>>,
              <<Note(<<F, S("stack overflow")>>), Note(<<F, S("stack overflow")>>), Do(C("error", <<S("stack overflow")>>))>>),
        Means(<<Overflow, Ret(<<C("xpcall", <<V("f"), V("f")>>)>>)>>, <<Ret(<<F, S("error in error handling")>>)>>),
        Means(<<Loc("o", Z), Set1("o", Meta(<<<<"__add", Fun(<<"a", "b">>, <<Loc("y", Bin("+", V("o"), N(1))), Ret(<<V("y")>>)>>)>>>>)),
                Note(<<Try(Fun(<<>>, <<Ret(<<Bin("+", V("o"), N(1))>>)>>))>>), Ret(<<Bin("+", V("o"), N(1))>>)>>,
              <<Note(<<F, S("C stack overflow")>>), Do(C("error", <<S("C stack overflow")>>))>>),
        Means(<<Loc("t", Items(Long(6))), Do(C("note", <<C("unpack", <<V("t")>>)>>)), For("i", N(7), N(LUAI_MAXCSTACK), <<Put1("t", V("i"), V("i"))>>), Do(C("note", <<C("unpack", <<V("t")>>)>>))>>,
              <<Note(Long(6)), Do(C("error", <<S("too many results to unpack")>>))>>),
        Means(<<Note(<<C("unpack", <<Items(<<N(5), N(6), N(7)>>), N(2)>>)>>), Ret(<<C("unpack", <<Items(<<N(5)>>), N(0), N(2)>>)>>)>>,
              <<Note(<<N(6), N(7)>>), Ret(<<Z, N(5), Z>>)>>),
        Means(<<Ret(<<C("unpack", <<Items(<<N(5)>>), N(2), N(1)>>)>>)>>, <<Ret(<<>>)>>),
        Means(<<Do(C("unpack", <<Empty, Empty>>))>>, <<Do(C("error", <<S("bad argument")>>))>>),
        Same(<<Loc("t", Items(<<N(4), N(5)>>)), <<"forin", <<<<"i">>, <<"v">>>>, <<C("ipairs", <<V("t")>>)>>, <<Note(<<V("i"), V("v")>>)>>>>>>)}
  \cup {Means(<<Do(C(f, <<N(1)>>))>>, <<Do(C("error", <<S("bad argument")>>))>>) :
          f \in {"setmetatable", "rawget", "rawset", "ipairs", "unpack", "resume", "status"}}
  \cup {Means(<<Do(C(f, <<>>))>>, <<Do(C("error", <<S("value expected")>>))>>) : f \in {"assert", "getmetatable", "pcall", "xpcall"}}
  \cup {Means(<<Do(C("select", <<N(0)>>))>>, <<Do(C("error", <<S("bad argument")>>))>>),
        Means(<<Do(C("select", <<Empty>>))>>, <<Do(C("error", <<S("bad argument")>>))>>),
        Means(<<Ret(<<C("select", <<Un("-", N(1)), N(5), N(6)>>)>>)>>, <<Ret(<<N(6)>>)>>),
        Means(<<Do(C("assert", <<Z>>))>>, <<Do(C("error", <<S("assertion failed!")>>))>>),
        Means(<<Do(C("assert", <<Z, N(5)>>))>>, <<Do(C("error", <<S("5")>>))>>),
        Means(<<Do(C("assert", <<Z, Empty>>))>>, <<Do(C("error", <<S("bad argument")>>))>>),
        Means(<<Do(C("rawset", <<Empty, Z, N(1)>>))>>, <<Do(C("error", <<S("nil")>>))>>)}

-----------------------------------------------------------------------------
(* Coroutines: what they do is given by a program without them *)

Yield(es) == C("yield", es)
Gen == Fun(<<"a">>, <<Loc("u", V("a")), Set1("f", Fun(<<>>, <<Set1("u", Inc("u")), Ret(<<V("u")>>)>>)),
                      <<"local", <<<<"b">>, <<"c">>>>, <<Yield(<<V("a"), N(9)>>)>>>>, Note(<<V("b"), V("c"), V("u")>>), Ret(<<Yield(<<>>)>>)>>)
Resume(es) == C("resume", <<V("co")>> \o es)
Status == C("status", <<V("co")>>)
Fail1(s) == <<Do(C("error", <<S(s)>>))>>
Full == <<Loc("t", Empty), For("i", N(1), N(LUAI_MAXCSTACK - 1), <<Put1("t", V("i"), V("i"))>>)>>

MCCoroutines ==
  {Means(<<Set1("f", Z), Loc("co", C("create", <<Gen>>)), Note(<<Status>>), Note(<<Resume(<<N(1), N(2)>>)>>), Note(<<Status, C("f", <<>>)>>), Note(<<Resume(<<N(3)>>)>>),
           Note(<<Resume(<<N(4), N(5)>>)>>), Note(<<Status, C("f", <<>>)>>), Note(<<Resume(<<>>)>>)>>,
         <<Note(<<S("suspended")>>), Note(<<T, N(1), N(9)>>), Note(<<S("suspended"), N(2)>>), Note(<<N(3), Z, N(2)>>), Note(<<T>>), Note(<<T, N(4), N(5)>>),
           Note(<<S("dead"), N(3)>>), Note(<<F, S("cannot resume dead")>>)>>),
   Means(<<Loc("w", C("wrap", <<Fun(<<"a">>, <<For("i", N(1), N(2), <<Set1("a", Yield(<<V("i"), V("a")>>))>>), Do(C("error", <<Items(<<V("a")>>)>>))>>)>>)),
           Note(<<C("w", <<N(5)>>)>>), Note(<<C("w", <<N(6)>>)>>), Note(<<C("pcall", <<V("w"), N(7)>>)>>), Do(C("w", <<>>))>>,
         <<Note(<<N(1), N(5)>>), Note(<<N(2), N(6)>>), Note(<<F, Empty>>)>> \o Fail1("cannot resume dead")),
   Means(<<Loc("co", C("create", <<Fun(<<>>, <<Ret(<<Try(Fun(<<>>, <<Do(Yield(<<N(1)>>))>>))>>)>>)>>)), Note(<<Resume(<<>>)>>), Note(<<Status>>)>>,
         <<Note(<<T, F, S("yield across a C call")>>), Note(<<S("dead")>>)>>),
   Means(<<Loc("co", C("create", <<Fun(<<>>, <<Loc("x", Idx(V("g"), N(1)))>>)>>)), Note(<<Resume(<<>>)>>), Note(<<Status>>), Do(Yield(<<>>))>>,
         <<Note(<<F, S("index")>>), Note(<<S("dead")>>)>> \o Fail1("yield across a C call")),
   Means(<<<<"local", <<<<"co">>, <<"x">>>>, <<>>>>, Set1("co", C("create", <<Fun(<<>>, <<Note(<<Status, Resume(<<>>)>>), Set1("x", C("wrap", <<Fun(<<>>, <<Do(Yield(<<Status>>)), Ret(<<Resume(<<>>)>>)>>)>>)),
                                                Note(<<C("x", <<>>)>>), Do(Yield(<<>>)), Note(<<C("x", <<>>)>>)>>)>>)),
           Note(<<Resume(<<>>)>>), Note(<<Resume(<<>>)>>), Do(C("x", <<>>))>>,
         <<Note(<<S("running"), F, S("cannot resume running")>>), Note(<<S("normal")>>), Note(<<T>>), Note(<<F, S("cannot resume normal")>>), Note(<<T>>)>> \o Fail1("cannot resume dead")),
   Means(<<Loc("n", N(0)), Loc("f", Z), Set1("f", Fun(<<>>, <<Set1("n", Inc("n")), Loc("w", C("wrap", <<V("f")>>)), Loc("y", C("w", <<>>)), Ret(<<V("y")>>)>>)), Note(<<Try(V("f"))>>),
           Set1("n", N(0)), Do(C("f", <<>>))>>,
         <<Note(<<F, S("C stack overflow")>>)>> \o Fail1("C stack overflow")),
   Means(<<Loc("co", C("create", <<Var(<<>>, <<Ret(<<Dots>>)>>)>>)), Loc("t", Empty), For("i", N(1), N(8), <<Put1("t", V("i"), V("i"))>>), Note(<<Resume(<<C("unpack", <<V("t")>>)>>)>>)>>,
         <<Note(<<T>> \o Long(8))>>),
   Means(Full \o <<Loc("co", C("create", <<Fun(<<>>, <<Ret(<<C("unpack", <<V("t")>>)>>)>>)>>)), Do(Resume(<<N(1)>>))>>, Fail1("too many results to resume")),
   Means(<<Loc("co", C("create", <<Fun(<<>>, <<Do(Yield(<<>>)), Do(C("error", <<S("a")>>))>>)>>)),
           <<"while", Bin("~=", Status, S("dead")), <<Do(Resume(<<>>))>>>>, Note(<<N(1)>>)>>, <<Note(<<N(1)>>)>>),
   Means(Full \o <<Loc("co", C("create", <<V("note")>>))>>, Fail1("Lua function expected")),
   Means(Full \o <<Loc("co", C("create", <<Fun(<<>>, <<>>)>>)), Do(Resume(<<N(1), C("unpack", <<V("t")>>)>>))>>, Fail1("too many arguments to resume"))}

-----------------------------------------------------------------------------
(* Texts that are refused *)

Raw(ts) == <<"raw", FlattenSeq(ts)>>
Id(x) == Name(<<x>>)
One == <<[t |-> "number", v |-> 1]>>
Nest(n) == FoldLeft(LAMBDA b, i : <<"do", <<b>>>>, Note(<<N(1)>>), [i \in 1 .. n |-> i])
Parens(n) == FoldLeft(LAMBDA e, i : <<"paren", e>>, N(1), [i \in 1 .. n |-> i])
ManyNames(n) == << >> \o [i \in 1 .. n |-> <<"v" \o ToString(i)>>]
Uses(n) == Note([i \in 1 .. n |-> <<"var", <<"v" \o ToString(i)>>>>])

MCRefused ==
  {Fails(<<<<"break">>>>, "no loop to break"),
   Fails(<<Loc("f", Fun(<<>>, <<<<"break">>>>)), <<"while", T, <<Loc("g", Fun(<<>>, <<<<"break">>>>))>>>>>>, "no loop to break"),
   Fails(<<Loc("f", Fun(<<>>, <<Ret(<<Dots>>)>>))>>, "..."),
   Fails(<<Raw(<<Id("x"), Word("="), Word("then")>>)>>, "unexpected symbol"),
   Fails(<<Raw(<<Id("x"), Word(","), Id("f"), Word("("), Word(")"), Word("="), One>>)>>, "syntax error"),
   Fails(<<Raw(<<Id("x"), Word("="), Id("a"), Word(":"), Id("b"), Word("=")>>)>>, "function arguments expected"),
   Fails(<<Raw(<<Word("for"), Id("x"), Word("do")>>)>>, "= or in expected"),
   Fails(<<Raw(<<Word("function"), Id("f"), Word("("), Word("then")>>)>>, "parameter"),
   Fails(<<Raw(<<Word("local"), One>>)>>, "name"),
   Fails(<<Raw(<<Word("function"), One>>)>>, "name"),
   Fails(<<Raw(<<Word("do"), Id("x"), Word("="), One>>)>>, "end"),
   Fails(<<Raw(<<Word("return"), One, Word(";"), One>>)>>, "<eof>"),
   Fails(<<Raw(<<Id("x"), Word("="), Word("{"), Id("a"), Word("="), One, One>>)>>, "}"),
   Fails(<<Nest(LUAI_MAXCCALLS)>>, "chunk has too many syntax levels"),
   Fails(<<Ret(<<Parens(LUAI_MAXCCALLS)>>)>>, "chunk has too many syntax levels"),
   Same(<<<<"local", ManyNames(LUAI_MAXVARS), <<N(1)>>>>, Uses(2)>>),
   Fails(<<<<"local", ManyNames(LUAI_MAXVARS + 1), <<N(1)>>>>>>, "local variables"),
   Same(<<<<"local", ManyNames(LUAI_MAXUPVALUES), <<N(1)>>>>, Do(App(Fun(<<>>, <<Uses(LUAI_MAXUPVALUES)>>), <<>>))>>),
   Fails(<<<<"local", ManyNames(LUAI_MAXUPVALUES + 1), <<N(1)>>>>, Do(App(Fun(<<>>, <<Uses(LUAI_MAXUPVALUES + 1)>>), <<>>))>>, "upvalues"),
   Fails(<<<<"assign", << >> \o [i \in 1 .. LUAI_MAXCCALLS + 1 |-> V("g")], <<N(1)>>>>>>, "variables in assignment"),
   Same(<<Note(Long(MAXSTACK - 2))>>),
   Fails(<<Note(Long(MAXSTACK - 1))>>, "function or expression too complex")}

\* Calls without parentheses, and methods defined by name.
MCTexts ==
  {Means(<<Raw(<<Id("note"), <<[t |-> "string", v |-> <<"a">>]>>, Id("note"), Word("{"), Word("}"), Word(";"), Word("return"), Id("note"), Word("{"), Id("x"), Word("="), One, Word(";"), One, Word(","), Word("}"), Word("."), Id("x")>>)>>,
         <<Note(<<S("a")>>), Note(<<Empty>>), Note(<<Empty>>), Ret(<<N(1)>>)>>),
   Means(<<Raw(<<Word("return")>>)>>, <<>>),
   Same(<<Loc("t", Rec("u", Empty)), <<"function", <<<<"t">>, <<"u">>>>, <<"m">>, Fun(<<"a">>, <<Put1("self", S("k"), V("a")), Ret(<<V("self")>>)>>)>>,
          <<"function", <<<<"g">>>>, << >>, Fun(<<"a">>, <<Ret(<<Inc("a")>>)>>)>>, Note(<<Idx(<<"method", Idx(V("t"), S("u")), <<"m">>, <<C("g", <<N(1)>>)>>>>, S("k"))>>)>>)}

MCTrees == MCConditions \cup MCLoops \cup MCScopes \cup MCAssignments \cup MCVarargs \cup MCConstructors \cup MCCalls \cup MCMeta
           \cup MCErrors \cup MCCoroutines \cup MCRefused \cup MCTexts

MCPrograms ==
  LET program_of(tree) == [text |-> Tokens(tree.text), means |-> Meaning(tree.means, CFunctions)]
  IN  {program_of(tree) : tree \in MCTrees}

\* Conditions over constants, which the compiler decides in part.
ConstantPrograms ==
  LET program_of(tree) == [text |-> Tokens(tree.text), means |-> Meaning(tree.means, CFunctions)]
  IN  {program_of(Same(<<Note(<<Bin("and", Bin("or", Bin("and", a, b), c), T)>>)>>)) : a, b, c \in {Z, F, T}}
=============================================================================
