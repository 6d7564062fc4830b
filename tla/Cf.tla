---------------------------------- MODULE Cf ----------------------------------
(***************************************************************************)
(* The reader of configuration text (src/cf.c).  Its nested loops take one *)
(* character at a time from a buffer; one action is one iteration of the   *)
(* loop that is running.                                                   *)
(*                                                                         *)
(* Characters are one-character strings.  HIGH is any byte from 0x80 on:   *)
(* with a signed char, buf_fgetc returns a negative number for it, as it   *)
(* does for the end of the text.                                           *)
(***************************************************************************)
EXTENDS Integers, Sequences

CONSTANTS NOTHING,      \* no section yet; also a file that cannot be read
          Inputs,       \* texts to read, NOTHING may be one
          MaxAdds       \* bound: texts added to one configuration

ASSUME InputsAssumption == Inputs \ {NOTHING} \subseteq Seq(STRING)

NL == "\n"
HIGH == "high"
EOF == "EOF"

VARIABLES sections,     \* what has been read: [name, entries] records
          text, pos,    \* the buffer and the number of characters taken from it
          loop,         \* the loop that is running, "idle" between two calls
          comment,      \* in a comment
          sec,          \* the section under construction
          name, key, value,
          rc,           \* the result of the last call
          adds          \* number of calls

cfvars == <<sections, text, pos, loop, comment, sec, name, key, value, rc, adds>>
parser == <<sections, comment, sec, name, key, value, rc, adds>>

isspace(ch) == ch \in {" ", NL}
Negative(ch) == ch \in {HIGH, EOF}

fgetc(p) == IF p < Len(text) THEN text[p + 1] ELSE EOF
\* Defective: goes past the end of the text.
After_unchecked(p) == p + 1

After(p) == IF p < Len(text) THEN p + 1 ELSE p

\* buf_addch stores EOF, -1, as the byte 0xff.
AsByte(ch) == IF ch = EOF THEN HIGH ELSE ch

\* Defective: trims nothing.
rtrim_not(s) == s

rtrim(s) ==
  LET ends == {n \in 0..Len(s) : n = 0 \/ ~isspace(s[n])}
  IN  SubSeq(s, 1, CHOOSE n \in ends : \A m \in ends : m <= n)

Push(s) == IF s = NOTHING THEN sections ELSE Append(sections, s)

CfInit ==
  /\ sections = << >>
  /\ text = << >> /\ pos = 0
  /\ loop = "idle"
  /\ comment = FALSE
  /\ sec = NOTHING
  /\ name = << >> /\ key = << >> /\ value = << >>
  /\ rc = 1
  /\ adds = 0

\* cf_add_from_string, and cf_add_from_file, which may fail to read.
AddText(t) ==
  /\ loop = "idle"
  /\ adds < MaxAdds
  /\ adds' = adds + 1
  /\ IF t = NOTHING
     THEN rc' = 0 /\ UNCHANGED <<text, pos, loop, comment, sec>>
     ELSE /\ text' = t /\ pos' = 0
          /\ loop' = "text"
          /\ comment' = FALSE
          /\ sec' = NOTHING
          /\ UNCHANGED rc
  /\ UNCHANGED <<sections, name, key, value>>

\* Defective: pushes the section, which a section header has pushed already.
SyntaxError_push ==
  /\ loop' = "idle"
  /\ rc' = 0
  /\ sections' = Push(sec)
  /\ UNCHANGED <<text, comment, sec, name, key, value, adds>>

\* A syntax error ends the call; the section under construction is lost.
SyntaxError ==
  /\ loop' = "idle"
  /\ rc' = 0
  /\ UNCHANGED <<sections, text, comment, sec, name, key, value, adds>>

\* cf_parse_text
TextChar ==
  LET ch == fgetc(pos)
  IN  /\ loop = "text"
      /\ \/ /\ Negative(ch)
            /\ sections' = Push(sec)
            /\ rc' = 1
            /\ loop' = "idle"
            /\ pos' = After(pos)
            /\ UNCHANGED <<text, comment, sec, name, key, value, adds>>
         \/ /\ ~Negative(ch) /\ (ch = NL \/ comment \/ isspace(ch) \/ ch \in {";", "#"})
            /\ comment' = (ch # NL /\ (comment \/ ch \in {";", "#"}))
            /\ pos' = After(pos)
            /\ UNCHANGED <<sections, text, loop, sec, name, key, value, rc, adds>>
         \/ /\ ~comment /\ ch = "["
            /\ sections' = Push(sec)
            /\ name' = << >>
            /\ loop' = "name"
            /\ pos' = After(pos)
            /\ UNCHANGED <<text, comment, sec, key, value, rc, adds>>
         \/ /\ ~comment /\ ch = "="
            /\ pos' = After(pos)
            /\ SyntaxError
         \/ /\ ~comment /\ ~Negative(ch) /\ ~isspace(ch) /\ ch \notin {";", "#", "[", "="}
            /\ key' = << >> /\ value' = << >>
            /\ loop' = "key"
            /\ UNCHANGED <<sections, text, pos, comment, sec, name, rc, adds>>

\* cf_parse_section_name
NameChar ==
  LET ch == fgetc(pos)
  IN  /\ loop = "name"
      /\ pos' = After(pos)
      /\ \/ /\ Negative(ch) \/ ch = NL
            /\ SyntaxError
         \/ /\ ch = "]"
            /\ sec' = [name |-> name, entries |-> << >>]
            /\ loop' = "text"
            /\ UNCHANGED <<sections, text, comment, name, key, value, rc, adds>>
         \/ /\ ~Negative(ch) /\ ch \notin {NL, "]"}
            /\ name' = Append(name, ch)
            /\ UNCHANGED <<sections, text, loop, comment, sec, key, value, rc, adds>>

\* cf_parse_key_value_pair
KeyChar ==
  LET ch == fgetc(pos)
  IN  /\ loop = "key"
      /\ pos' = After(pos)
      /\ \/ /\ Negative(ch) \/ ch \in {NL, "[", "]"}
            /\ SyntaxError
         \/ /\ ch = "="
            /\ key' = rtrim(key)
            /\ loop' = "skip"
            /\ UNCHANGED <<sections, text, comment, sec, name, value, rc, adds>>
         \/ /\ ~Negative(ch) /\ ch \notin {NL, "[", "]", "="}
            /\ key' = Append(key, ch)
            /\ UNCHANGED <<sections, text, loop, comment, sec, name, value, rc, adds>>

\* cf_parse_value, initial spaces.  buf_ungetc takes the position back and
\* stores the character there; at the end of the text that overwrites the last
\* character with the byte 0xff.
SkipSpace ==
  LET ch == fgetc(pos)
  IN  /\ loop = "skip"
      /\ IF isspace(ch) /\ ch # NL
         THEN pos' = After(pos) /\ UNCHANGED <<text, loop>>
         ELSE /\ pos' = After(pos) - 1
              /\ text' = [text EXCEPT ![After(pos)] = AsByte(ch)]
              /\ loop' = "value"
      /\ UNCHANGED parser

\* cf_parse_value, and the end of an entry in cf_parse_text: an entry outside
\* a section is dropped.
ValueChar ==
  LET ch   == fgetc(pos)
      next == fgetc(After(pos))
  IN  /\ loop = "value"
      /\ \/ /\ Negative(ch) \/ ch = NL
            /\ loop' = "text"
            /\ pos' = After(pos)
            /\ value' = rtrim(value)
            /\ sec' = IF sec = NOTHING THEN NOTHING
                      ELSE [sec EXCEPT !.entries = Append(@, [key |-> key, value |-> value'])]
         \/ /\ ch = "\\"
            /\ pos' = After(After(pos))
            /\ value' = IF next = NL THEN value ELSE value \o <<"\\", AsByte(next)>>
            /\ UNCHANGED <<loop, sec>>
         \/ /\ ~Negative(ch) /\ ch \notin {NL, "\\"}
            /\ pos' = After(pos)
            /\ value' = Append(value, ch)
            /\ UNCHANGED <<loop, sec>>
      /\ UNCHANGED <<sections, text, comment, name, key, rc, adds>>

\* The next character, in whichever loop is running.
Parse == TextChar \/ NameChar \/ KeyChar \/ SkipSpace \/ ValueChar

CfNext == (\E t \in Inputs : AddText(t)) \/ Parse

CfSpec == CfInit /\ [][CfNext]_cfvars /\ WF_cfvars(Parse)

-----------------------------------------------------------------------------
(* Properties *)

Chars(s) == {s[i] : i \in DOMAIN s}
Kept == UNION {Chars(sections[i].entries) : i \in DOMAIN sections}

\* Type invariant: the position stays in the text, and no comment runs while a
\* name, a key or a value is read.
CfTypeOK ==
  /\ loop \in {"idle", "text", "name", "key", "skip", "value"}
  /\ pos \in 0..Len(text)
  /\ comment => loop \in {"text", "idle"}
  /\ loop \in {"skip", "value"} => Len(text) > 0
  /\ rc \in {0, 1}

\* Whatever the text, what is kept is a list of usable attributes: keys are not
\* empty, neither keys nor values end in white space, and neither crosses a
\* line (README.md:151-153).
UsableEntries ==
  \A e \in Kept :
    /\ e.key # << >>
    /\ Chars(e.key) \cap {NL, "=", "[", "]"} = {}
    /\ NL \notin Chars(e.value)
    /\ \A s \in {e.key, e.value} : s # << >> => ~isspace(s[Len(s)])
=============================================================================
