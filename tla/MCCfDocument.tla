----------------------------- MODULE MCCfDocument -----------------------------
EXTENDS CfDocument

\* All texts of up to three characters, one of each sort, and all of up to four
\* that follow a section header.
Alphabet == {"x", " ", NL, "[", "]", "=", ";", "\\", HIGH}
AllTexts(n) == UNION {[1..k -> Alphabet] : k \in 0..n}
ShortTexts == AllTexts(3) \cup {<<"[", "]">> \o t : t \in AllTexts(4)}

Blank == [kind |-> "blank", indent |-> <<" ">>]
Comment(t) == [kind |-> "comment", indent |-> <<" ">>, text |-> t]
Section(n) == [kind |-> "section", indent |-> << >>, name |-> n]
Junk == [kind |-> "junk", indent |-> << >>, text |-> <<"k", " ">>]
Broken == [kind |-> "broken", indent |-> << >>, text |-> <<"a">>]
EntryLine(indent, k, gap, parts, tail) ==
  [kind |-> "entry", indent |-> indent, key |-> k, gap |-> gap, parts |-> parts, tail |-> tail]

GoodLines ==
  {Blank, Comment(<<"[", "=", "\\">>), Section(<<"a">>), Section(<<"b", " ", "[">>),
   EntryLine(<<" ">>, <<"k">>, <<" ">>, <<<<"=", " ", "\\", "x">>>>, <<" ">>),
   EntryLine(<< >>, <<"k", ";">>, << >>, <<<<"x">>, <<" ", "y">>>>, << >>),
   EntryLine(<< >>, <<"l">>, << >>, <<<< >>>>, << >>)}

DocumentsOf(lines, n) ==
  [lines : UNION {[1..k -> lines] : k \in 0..n}, ended : BOOLEAN]

\* All documents of two lines, and three that end in any line.
Lines == GoodLines \cup {Junk, Broken}
MCDocuments ==
  DocumentsOf(Lines, 2) \cup
  [lines : {<<Section(<<"a">>), EntryLine(<< >>, <<"l">>, << >>, <<<<"x">>>>, << >>), line>> :
              line \in Lines},
   ended : BOOLEAN]
CommentDocuments == DocumentsOf({Comment(<<HIGH>>), Section(<<"a">>)}, 2)
=============================================================================
