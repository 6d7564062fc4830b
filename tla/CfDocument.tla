------------------------------ MODULE CfDocument ------------------------------
(***************************************************************************)
(* Configuration text as its author sees it: a document is a sequence of   *)
(* lines with some layout, and has a meaning that does not depend on the   *)
(* layout (README.md, CONFIG FILE SYNTAX).  Cf must find this meaning.     *)
(*                                                                         *)
(* A line is a record: kind, indent (spaces before it), and                *)
(*   "blank"                                                               *)
(*   "comment"  text                                                       *)
(*   "section"  name                                                       *)
(*   "entry"    key, gap (spaces around the equals sign), parts of the     *)
(*              value (all but the last end in a backslash), tail (spaces) *)
(*   "junk"     text of no other kind                                      *)
(*   "broken"   text after a bracket that is not closed                    *)
(***************************************************************************)
EXTENDS Cf, SequencesExt

CONSTANT Documents      \* [lines, ended]: ended when the last line has a newline

VARIABLE expected       \* what the documents read so far amount to, or NOTHING

dvars == <<sections, text, pos, loop, comment, sec, name, key, value, rc, adds, expected>>

Written(line) ==
  line.indent \o
  CASE line.kind = "blank"   -> << >>
    [] line.kind = "comment" -> <<";">> \o line.text
    [] line.kind = "section" -> <<"[">> \o line.name \o <<"]">>
    [] line.kind = "entry"   ->
         line.key \o line.gap \o <<"=">> \o line.gap
         \o FlattenSeq([i \in DOMAIN line.parts |->
              line.parts[i] \o IF i < Len(line.parts) THEN <<"\\", NL>> ELSE line.tail])
    [] line.kind = "junk"    -> line.text
    [] line.kind = "broken"  -> <<"[">> \o line.text

Render(doc) ==
  FlattenSeq([i \in DOMAIN doc.lines |->
    Written(doc.lines[i]) \o IF i < Len(doc.lines) \/ doc.ended THEN <<NL>> ELSE << >>])

\* The sections that some lines amount to, on their own.
AddLine(secs, line) ==
  CASE line.kind = "section" -> Append(secs, [name |-> line.name, entries |-> << >>])
    [] line.kind = "entry" /\ secs # << >> ->
         [secs EXCEPT ![Len(secs)].entries =
            Append(@, [key |-> line.key, value |-> FlattenSeq(line.parts)])]
    [] OTHER -> secs

\* A document is read up to its first wrong line.  The section that this line
\* is in is lost, unless the line itself opens a section.
Meaning(doc) ==
  LET wrong == {i \in DOMAIN doc.lines : doc.lines[i].kind \in {"junk", "broken"}}
      first == CHOOSE i \in wrong : \A j \in wrong : i <= j
      upto(n) == FoldLeft(AddLine, << >>, SubSeq(doc.lines, 1, n))
  IN  IF wrong = {} THEN [sections |-> upto(Len(doc.lines)), rc |-> 1]
      ELSE LET secs == upto(first - 1)
           IN  [sections |-> IF doc.lines[first].kind = "junk" /\ secs # << >>
                             THEN Front(secs) ELSE secs,
                rc |-> 0]

DInit == CfInit /\ expected = [sections |-> << >>, rc |-> 1]

AddDocument(doc) ==
  /\ expected # NOTHING
  /\ AddText(Render(doc))
  /\ expected' = [sections |-> expected.sections \o Meaning(doc).sections,
                  rc |-> Meaning(doc).rc]

AddUnreadable ==
  expected # NOTHING /\ AddText(NOTHING) /\ expected' = [expected EXCEPT !.rc = 0]

\* Any text, on its own; nothing is expected of it.
AddOther(t) == AddText(t) /\ expected' = NOTHING

Read == Parse /\ UNCHANGED expected

DNext ==
  \/ expected # NOTHING /\ loop = "idle" /\ \E doc \in Documents : AddDocument(doc)
  \/ AddUnreadable
  \/ adds = 0 /\ \E t \in Inputs : AddOther(t)
  \/ Read

\* A call that has begun keeps running.
DSpec == DInit /\ [][DNext]_dvars /\ WF_dvars(Read)

-----------------------------------------------------------------------------
(* Properties *)

\* Layout, comments and continued lines do not matter, sections accumulate over
\* calls in order, and an error costs no more than the section it is in.
ReadsDocuments ==
  loop = "idle" /\ expected # NOTHING => [sections |-> sections, rc |-> rc] = expected

\* README.md:161, "run through the end of the line": the same for comments with
\* any character.
SkipsComments == loop = "idle" /\ expected # NOTHING => sections = expected.sections
=============================================================================
