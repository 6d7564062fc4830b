----------------------------- MODULE MCStandalone -----------------------------
EXTENDS Standalone

MCNames == {"root", "compose", "v", "f", ""}

Text(t) == [type |-> "string", text |-> t]
Lua(names) == [type |-> "lua", refs |-> names]
Att(name, values) == [name |-> name, alternatives |-> values, current |-> 1, origin |-> "img"]

\* [img]: root = r, compose = lua { return self.v .. self.f }, v = 1, f = /f
Img == <<Att("root", <<Text(<<"r">>)>>),
         Att("compose", <<Lua(<<"v", "f">>)>>),
         Att("v", <<Text(<<"1">>)>>),
         Att("f", <<Text(<<"/", "f">>)>>)>>

\* A configuration file that has the class, one that does not.
MCFromConfig ==
  [file \in {".pathcomprc", "other"} |->
     [class \in {"img", "new"} |->
        IF file = ".pathcomprc" /\ class = "img" THEN Img ELSE << >>]]

Opt(letter) == [opt |-> letter, arg |-> NULL]
OptWith(letter, arg) == [opt |-> letter, arg |-> arg]

\* Any of -a, -e, -m and -x, with a class; and command lines that go wrong.
Flags == {<<Opt("a")>>, << >>} \X {<<Opt("e")>>, << >>} \X {<<Opt("m")>>, << >>}
         \X {<<OptWith("x", "v")>>, << >>}
Usual == {<<OptWith("c", "img")>> \o f[1] \o f[2] \o f[3] \o f[4] : f \in Flags}
Unusual == {<< >>, <<Opt("h")>>, <<OptWith("c", "img"), Opt("?")>>, <<Opt("a"), Opt(":")>>,
            <<OptWith("c", "img"), OptWith("c", "new"), Opt("a")>>,
            <<OptWith("c", "img"), OptWith("f", "other"), Opt("a"), OptWith("x", "v")>>}

Kv(key, plus, value) == [key |-> key, plus |-> plus, eq |-> TRUE, value |-> Text(value)]
Operands == {Kv("v", FALSE, <<"2">>), Kv("v", TRUE, <<"2">>), Kv("v", TRUE, <<"3">>),
             Kv("root", TRUE, <<"s">>), Kv("f", TRUE, << >>), Kv("compose", FALSE, << >>),
             Kv("", TRUE, <<"3">>), Kv("", FALSE, <<"3">>),
             [key |-> "v", plus |-> FALSE, eq |-> FALSE, value |-> NULL]}

MCArgs ==
  [options : Usual \cup Unusual, operands : UNION {[1..n -> Operands] : n \in 0..2}]

\* r/1/f, r/1 and s/2/f exist or not; the working directory is locked or not.
MCSystems ==
  {[dirs |-> {<<"r">>, <<"r", "/", "1">>}, files |-> {<<"r", "/", "1", "/", "f">>}, locked |-> {}],
   [dirs |-> {<<"s">>, <<"s", "/", "2">>}, files |-> {<<"s", "/", "2", "/", "f">>}, locked |-> {<< >>}],
   [dirs |-> {<<"r">>}, files |-> {<<"r", "/", "1">>, <<"r", "/", "2">>}, locked |-> {}],
   [dirs |-> {<<"r">>, <<"r", "/", "2">>, <<"r", "/", "2", "/", "f">>}, files |-> {}, locked |-> {}]}
=============================================================================
