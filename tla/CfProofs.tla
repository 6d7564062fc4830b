------------------------------- MODULE CfProofs -------------------------------
(***************************************************************************)
(* The reader of configuration text keeps only usable entries, whatever    *)
(* the texts and however many are read.                                    *)
(***************************************************************************)
EXTENDS Cf, Indices

\* The characters.  The last three are strings too, which the provers do not know.
Char == STRING \cup {HIGH, EOF, "\\"}
Word == Seq(Char)

Plain(s) == \A i \in 1..Len(s) : s[i] \notin {NL, "=", "[", "]"}
OneLine(s) == \A i \in 1..Len(s) : s[i] # NL
Trimmed(s) == s # << >> => ~isspace(s[Len(s)])

GoodKey(k) == k \in Word /\ k # << >> /\ Plain(k) /\ Trimmed(k)
GoodValue(v) == v \in Word /\ OneLine(v) /\ Trimmed(v)
GoodEntry == [key : {k \in Word : GoodKey(k)}, value : {v \in Word : GoodValue(v)}]
GoodSection == [name : Word, entries : Seq(GoodEntry)]

\* A key begins with the character on which cf_parse_text called
\* cf_parse_key_value_pair: no space and no equals sign.
KeyBegun ==
  /\ Plain(key)
  /\ IF key = << >> THEN ~isspace(fgetc(pos)) /\ fgetc(pos) # "=" ELSE ~isspace(key[1])

CfInv ==
  /\ loop \in {"idle", "text", "name", "key", "skip", "value"}
  /\ rc \in {0, 1}
  /\ text \in Word /\ pos \in 0..Len(text)
  /\ sections \in Seq(GoodSection)
  /\ sec = NOTHING \/ sec \in GoodSection
  /\ name \in Word /\ key \in Word /\ value \in Word
  /\ comment => loop \in {"text", "idle"}
  /\ loop = "key" => KeyBegun
  /\ loop \in {"skip", "value"} => GoodKey(key) /\ Len(text) > 0
  /\ loop \in {"key", "skip", "value"} => OneLine(value)

-----------------------------------------------------------------------------
(* Characters and words *)

\* Texts are words.
LEMMA InputType ==
  ASSUME NEW t \in Inputs, t # NOTHING
  PROVE  t \in Word
<1>1. t \in Seq(STRING)
  BY InputsAssumption
<1>2. Len(t) \in Nat /\ t \in [1..Len(t) -> STRING]
  BY <1>1
<1>3. t \in [1..Len(t) -> Char]
  BY <1>2 DEF Char
<1>. QED
  BY <1>2, <1>3 DEF Word

\* What buf_fgetc returns is a character of the text or EOF.
LEMMA CharType ==
  ASSUME text \in Word, NEW p \in 0..Len(text)
  PROVE  /\ fgetc(p) \in Char /\ AsByte(fgetc(p)) \in Char
         /\ After(p) \in 0..Len(text) /\ Len(text) \in Nat
         /\ ~Negative(fgetc(p)) => After(p) = p + 1 /\ p < Len(text)
         /\ fgetc(p) # NL => AsByte(fgetc(p)) # NL
<1>1. Len(text) \in Nat /\ p \in Nat
  BY DEF Word
<1>2. p < Len(text) => text[p + 1] \in Char
  BY <1>1 DEF Word
<1>0. EOF \in Char /\ HIGH \in Char
  BY DEF Char
<1>3. fgetc(p) \in Char
  BY <1>0, <1>2 DEF fgetc
<1>4. AsByte(fgetc(p)) \in Char
  BY <1>0, <1>3 DEF AsByte
<1>5. After(p) \in 0..Len(text)
  BY <1>1 DEF After
<1>6. ~Negative(fgetc(p)) => After(p) = p + 1 /\ p < Len(text)
  BY <1>1 DEF fgetc, Negative, After
<1>7. fgetc(p) # NL => AsByte(fgetc(p)) # NL
  BY DEF AsByte, HIGH, NL
<1>. QED
  BY <1>1, <1>3, <1>4, <1>5, <1>6, <1>7

\* buf_addch adds one character at the end.
LEMMA AddChar ==
  ASSUME NEW s \in Word, NEW ch \in Char
  PROVE  /\ Append(s, ch) \in Word /\ Append(s, ch) # << >>
         /\ OneLine(s) /\ ch # NL => OneLine(Append(s, ch))
         /\ Plain(s) /\ ch \notin {NL, "=", "[", "]"} => Plain(Append(s, ch))
         /\ Append(s, ch)[1] = IF s = << >> THEN ch ELSE s[1]
<1>. DEFINE t == Append(s, ch)
<1>1. s \in Seq(Char) /\ Len(s) \in Nat
  BY DEF Word
<1>2. /\ t \in Seq(Char) /\ Len(t) = Len(s) + 1 /\ t[Len(s) + 1] = ch
      /\ \A i \in 1..Len(s) : t[i] = s[i]
  BY <1>1
<1>. HIDE DEF t
<1>3. \A i \in 1..Len(t) : i \in 1..Len(s) \/ i = Len(s) + 1
  BY <1>1, <1>2
<1>4. OneLine(s) /\ ch # NL => OneLine(t)
  BY <1>2, <1>3 DEF OneLine
<1>5. Plain(s) /\ ch \notin {NL, "=", "[", "]"} => Plain(t)
  BY <1>2, <1>3 DEF Plain
<1>6. t # << >>
  BY <1>1, <1>2
<1>7. t[1] = IF s = << >> THEN ch ELSE s[1]
  <2>1. CASE s = << >>
    <3>1. Len(s) + 1 = 1
      BY <2>1
    <3>. QED
      BY <1>2, <2>1, <3>1
  <2>2. CASE s # << >>
    <3>1. Len(s) # 0
      BY <2>2 DEF Word
    <3>2. 1 \in 1..Len(s)
      BY <1>1, <3>1
    <3>. QED
      BY <1>2, <2>2, <3>2
  <2>. QED
    BY <2>1, <2>2
<1>. QED
  BY <1>2, <1>4, <1>5, <1>6, <1>7 DEF t, Word

\* buf_rtrim leaves a word without white space at its end, and something of a
\* word that does not begin with white space.
LEMMA TrimOK ==
  ASSUME NEW s \in Word
  PROVE  /\ rtrim(s) \in Word /\ Trimmed(rtrim(s))
         /\ OneLine(s) => OneLine(rtrim(s))
         /\ Plain(s) => Plain(rtrim(s))
         /\ s # << >> /\ ~isspace(s[1]) => rtrim(s) # << >>
<1>. DEFINE ends == {n \in 0..Len(s) : n = 0 \/ ~isspace(s[n])}
            last == CHOOSE n \in ends : \A m \in ends : m <= n
            t == SubSeq(s, 1, last)
<1>1. Len(s) \in Nat
  BY DEF Word
<1>2. ends \in SUBSET (0..Len(s)) /\ 0 \in ends
  BY <1>1
<1>3. \E n \in ends : \A m \in ends : m <= n
  BY <1>1, <1>2, GreatestNumber, Zenon
<1>4. last \in ends /\ \A m \in ends : m <= last
  BY <1>3
<1>5. last \in 0..Len(s) /\ (last = 0 \/ ~isspace(s[last])) /\ rtrim(s) = t
  BY <1>4 DEF rtrim
<1>. HIDE DEF last
<1>6. s # << >> /\ ~isspace(s[1]) => last # 0
  <2>1. SUFFICES ASSUME s # << >>, ~isspace(s[1]) PROVE last # 0
    OBVIOUS
  <2>2. Len(s) # 0
    BY <2>1 DEF Word
  <2>3. 1 \in 0..Len(s)
    BY <1>1, <2>2
  <2>4. 1 \in ends
    BY <2>1, <2>3
  <2>5. 1 <= last
    BY <1>4, <2>4
  <2>. QED
    BY <1>5, <2>5
<1>7. /\ t \in Word /\ Len(t) = last
      /\ \A i \in 1..last : i \in 1..Len(s) /\ t[i] = s[i]
  <2>1. \A i \in 1..last : i \in 1..Len(s)
    BY <1>1, <1>5
  <2>2. \A i \in 1..last : s[i] \in Char
    BY <2>1 DEF Word
  <2>3. t = [i \in 1..last |-> s[i]]
    BY <1>1, <1>5 DEF Word
  <2>4. t \in [1..last -> Char]
    BY <2>2, <2>3, Zenon
  <2>5. t \in Word /\ Len(t) = last
    BY <1>5, <2>4 DEF Word
  <2>. QED
    BY <2>1, <2>3, <2>5, Zenon
<1>. HIDE DEF t
<1>8. last # 0 => last \in 1..last
  BY <1>5
<1>9. t # << >> <=> last # 0
  BY <1>5, <1>7 DEF Word
<1>10. Trimmed(t)
  BY <1>5, <1>7, <1>8, <1>9 DEF Trimmed
<1>11. (OneLine(s) => OneLine(t)) /\ (Plain(s) => Plain(t))
  BY <1>7 DEF OneLine, Plain
<1>. QED
  BY <1>5, <1>6, <1>7, <1>9, <1>10, <1>11

-----------------------------------------------------------------------------
(* Steps *)

\* The first state.
LEMMA CfInitInv == CfInit => CfInv
<1>1. << >> \in Word /\ << >> \in Seq(GoodSection) /\ Len(<< >>) = 0 /\ 0 \in 0..0
  BY DEF Word
<1>. QED
  BY <1>1 DEF CfInit, CfInv

\* A section is added to the list.
LEMMA PushOK ==
  ASSUME CfInv
  PROVE  Push(sec) \in Seq(GoodSection)
<1>1. CASE sec = NOTHING
  BY <1>1 DEF CfInv, Push
<1>2. CASE sec # NOTHING
  <2>1. sec \in GoodSection /\ sections \in Seq(GoodSection)
    BY <1>2 DEF CfInv
  <2>. QED
    BY <1>2, <2>1 DEF Push
<1>. QED
  BY <1>1, <1>2

\* A call begins.
LEMMA AddTextOK ==
  ASSUME CfInv, NEW t \in Inputs, AddText(t)
  PROVE  CfInv'
<1>1. CASE t = NOTHING
  <2>1. /\ loop = "idle" /\ loop' = loop /\ rc' = 0
        /\ <<text, pos, comment, sec, sections, name, key, value>>'
             = <<text, pos, comment, sec, sections, name, key, value>>
    BY <1>1 DEF AddText
  <2>. QED
    BY <2>1 DEF CfInv
<1>2. CASE t # NOTHING
  <2>1. /\ text' = t /\ pos' = 0 /\ loop' = "text" /\ comment' = FALSE /\ sec' = NOTHING
        /\ rc' = rc /\ sections' = sections /\ name' = name /\ key' = key /\ value' = value
    BY <1>2 DEF AddText
  <2>2. t \in Word
    BY <1>2, InputType
  <2>3. 0 \in 0..Len(t)
    BY <2>2 DEF Word
  <2>. QED
    BY <2>1, <2>2, <2>3 DEF CfInv
<1>. QED
  BY <1>1, <1>2

\* A syntax error.
LEMMA SyntaxErrorOK ==
  ASSUME CfInv, SyntaxError, pos' \in 0..Len(text)
  PROVE  CfInv'
<1>1. /\ loop' = "idle" /\ rc' = 0
      /\ <<text, comment, sec, sections, name, key, value>>'
           = <<text, comment, sec, sections, name, key, value>>
  BY DEF SyntaxError
<1>. QED
  BY <1>1 DEF CfInv

\* cf_parse_text
LEMMA TextCharOK ==
  ASSUME CfInv, TextChar
  PROVE  CfInv'
<1>. DEFINE ch == fgetc(pos)
<1>1. /\ loop = "text" /\ text \in Word /\ pos \in 0..Len(text)
  BY Zenon DEF CfInv, TextChar
<1>2. After(pos) \in 0..Len(text)
  BY <1>1, CharType
<1>3. CASE /\ Negative(ch) /\ sections' = Push(sec) /\ rc' = 1 /\ loop' = "idle" /\ pos' = After(pos)
           /\ UNCHANGED <<text, comment, sec, name, key, value, adds>>
  BY <1>1, <1>2, <1>3, PushOK DEF CfInv
<1>4. CASE /\ comment' = (ch # NL /\ (comment \/ ch \in {";", "#"})) /\ pos' = After(pos)
           /\ UNCHANGED <<sections, text, loop, sec, name, key, value, rc, adds>>
  BY <1>1, <1>2, <1>4, Zenon DEF CfInv
<1>5. CASE /\ ~comment /\ sections' = Push(sec) /\ name' = << >> /\ loop' = "name" /\ pos' = After(pos)
           /\ UNCHANGED <<text, comment, sec, key, value, rc, adds>>
  <2>1. << >> \in Word
    BY DEF Word
  <2>. QED
    BY <1>1, <1>2, <1>5, <2>1, PushOK DEF CfInv
<1>6. CASE pos' = After(pos) /\ SyntaxError
  BY <1>2, <1>6, SyntaxErrorOK
<1>7. CASE /\ ~comment /\ ~isspace(ch) /\ ch # "="
           /\ key' = << >> /\ value' = << >> /\ loop' = "key"
           /\ UNCHANGED <<sections, text, pos, comment, sec, name, rc, adds>>
  <2>1. << >> \in Word /\ Len(<< >>) = 0 /\ 1..0 = {}
    BY DEF Word
  <2>2. fgetc(pos)' = ch
    BY <1>7 DEF fgetc
  <2>3. KeyBegun'
    BY <1>7, <2>1, <2>2 DEF KeyBegun, Plain
  <2>4. OneLine(value)'
    BY <1>7, <2>1 DEF OneLine
  <2>. QED
    BY <1>1, <1>7, <2>1, <2>3, <2>4 DEF CfInv
<1>. QED
  BY <1>3, <1>4, <1>5, <1>6, <1>7, Zenon DEF TextChar

\* cf_parse_section_name
LEMMA NameCharOK ==
  ASSUME CfInv, NameChar
  PROVE  CfInv'
<1>. DEFINE ch == fgetc(pos)
<1>1. /\ loop = "name" /\ text \in Word /\ pos \in 0..Len(text) /\ name \in Word /\ ~comment
  BY DEF CfInv, NameChar
<1>2. After(pos) \in 0..Len(text) /\ ch \in Char /\ pos' = After(pos)
  BY <1>1, CharType DEF NameChar
<1>3. CASE SyntaxError
  BY <1>2, <1>3, SyntaxErrorOK
<1>4. CASE /\ sec' = [name |-> name, entries |-> << >>] /\ loop' = "text"
           /\ UNCHANGED <<sections, text, comment, name, key, value, rc, adds>>
  <2>1. << >> \in Seq(GoodEntry)
    OBVIOUS
  <2>2. sec' \in GoodSection
    BY <1>1, <1>4, <2>1 DEF GoodSection
  <2>. QED
    BY <1>1, <1>2, <1>4, <2>2 DEF CfInv
<1>5. CASE /\ name' = Append(name, ch)
           /\ UNCHANGED <<sections, text, loop, comment, sec, key, value, rc, adds>>
  <2>1. name' \in Word
    BY <1>1, <1>2, <1>5, AddChar
  <2>. QED
    BY <1>1, <1>2, <1>5, <2>1 DEF CfInv
<1>. QED
  BY <1>3, <1>4, <1>5 DEF NameChar

\* cf_parse_key_value_pair: the key is not empty when the equals sign comes.
LEMMA KeyCharOK ==
  ASSUME CfInv, KeyChar
  PROVE  CfInv'
<1>. DEFINE ch == fgetc(pos)
<1>1. /\ loop = "key" /\ text \in Word /\ pos \in 0..Len(text) /\ key \in Word /\ ~comment
      /\ KeyBegun /\ OneLine(value)
  BY DEF CfInv, KeyChar
<1>2. /\ After(pos) \in 0..Len(text) /\ ch \in Char /\ pos' = After(pos)
      /\ Len(text) \in Nat /\ (~Negative(ch) => pos < Len(text))
  BY <1>1, CharType DEF KeyChar
<1>3. CASE SyntaxError
  BY <1>2, <1>3, SyntaxErrorOK
<1>4. CASE /\ ch = "=" /\ key' = rtrim(key) /\ loop' = "skip"
           /\ UNCHANGED <<sections, text, comment, sec, name, value, rc, adds>>
  <2>1. key # << >> /\ ~isspace(key[1]) /\ Plain(key)
    BY <1>1, <1>4 DEF KeyBegun
  <2>2. GoodKey(rtrim(key))
    BY <1>1, <2>1, TrimOK DEF GoodKey
  <2>3. ~Negative(ch)
    BY <1>4 DEF Negative, HIGH, EOF
  <2>4. Len(text) > 0
    BY <1>1, <1>2, <2>3
  <2>5. GoodKey(key)' /\ key' \in Word
    BY <1>4, <2>2 DEF GoodKey, Plain, Trimmed
  <2>6. OneLine(value)'
    BY <1>1, <1>4 DEF OneLine
  <2>. QED
    BY <1>1, <1>2, <1>4, <2>4, <2>5, <2>6 DEF CfInv
<1>5. CASE /\ ch \notin {NL, "[", "]", "="} /\ key' = Append(key, ch)
           /\ UNCHANGED <<sections, text, loop, comment, sec, name, value, rc, adds>>
  <2>1. /\ key' \in Word /\ key' # << >>
        /\ key'[1] = IF key = << >> THEN ch ELSE key[1]
        /\ Plain(key) => Plain(Append(key, ch))
    BY <1>1, <1>2, <1>5, AddChar
  <2>2. KeyBegun'
    BY <1>1, <1>5, <2>1 DEF KeyBegun, Plain
  <2>3. OneLine(value)'
    BY <1>1, <1>5 DEF OneLine
  <2>. QED
    BY <1>1, <1>2, <1>5, <2>1, <2>2, <2>3 DEF CfInv
<1>. QED
  BY <1>3, <1>4, <1>5 DEF KeyChar

\* cf_parse_value, initial spaces: buf_ungetc stays in the text.
LEMMA SkipSpaceOK ==
  ASSUME CfInv, SkipSpace
  PROVE  CfInv'
<1>. DEFINE ch == fgetc(pos)
<1>1. /\ loop = "skip" /\ text \in Word /\ pos \in 0..Len(text) /\ ~comment
      /\ GoodKey(key) /\ OneLine(value) /\ Len(text) > 0
  BY DEF CfInv, SkipSpace
<1>2. /\ After(pos) \in 0..Len(text) /\ AsByte(ch) \in Char /\ Len(text) \in Nat
  BY <1>1, CharType
<1>3. <<sections, comment, sec, name, key, value, rc>>'
        = <<sections, comment, sec, name, key, value, rc>>
  BY DEF SkipSpace, parser
<1>4. GoodKey(key)' /\ OneLine(value)'
  BY <1>1, <1>3 DEF GoodKey, Plain, Trimmed, OneLine
<1>5. CASE pos' = After(pos) /\ UNCHANGED <<text, loop>>
  BY <1>1, <1>2, <1>3, <1>4, <1>5 DEF CfInv
<1>6. CASE /\ pos' = After(pos) - 1 /\ text' = [text EXCEPT ![After(pos)] = AsByte(ch)]
           /\ loop' = "value"
  <2>1. After(pos) \in 1..Len(text)
    BY <1>1, <1>2 DEF After
  <2>2. text \in Seq(Char)
    BY <1>1 DEF Word
  <2>3. text' \in Seq(Char) /\ Len(text') = Len(text)
    <3>. DEFINE a == After(pos)
                byte == AsByte(ch)
    <3>1. a \in 1..Len(text) /\ byte \in Char /\ text' = [text EXCEPT ![a] = byte]
      BY <1>2, <1>6, <2>1
    <3>. HIDE DEF a, byte
    <3>. QED
      BY <1>2, <2>2, <3>1
  <2>4. pos' \in 0..Len(text')
    BY <1>2, <1>6, <2>1, <2>3
  <2>5. text' \in Word /\ Len(text') > 0
    BY <1>1, <2>3 DEF Word
  <2>. QED
    BY <1>1, <1>3, <1>4, <1>6, <2>4, <2>5 DEF CfInv
<1>. QED
  BY <1>5, <1>6 DEF SkipSpace

\* cf_parse_value and the end of an entry.
LEMMA ValueCharOK ==
  ASSUME CfInv, ValueChar
  PROVE  CfInv'
<1>. DEFINE ch == fgetc(pos)
            next == fgetc(After(pos))
<1>1. /\ loop = "value" /\ text \in Word /\ pos \in 0..Len(text) /\ ~comment
      /\ GoodKey(key) /\ OneLine(value) /\ Len(text) > 0 /\ value \in Word /\ key \in Word
  BY DEF CfInv, ValueChar
<1>2. After(pos) \in 0..Len(text) /\ ch \in Char
  BY <1>1, CharType
<1>3. /\ After(After(pos)) \in 0..Len(text) /\ AsByte(next) \in Char
      /\ next # NL => AsByte(next) # NL
  BY <1>1, <1>2, CharType
<1>4. <<sections, text, comment, name, key, rc>>' = <<sections, text, comment, name, key, rc>>
  BY DEF ValueChar
<1>5. GoodKey(key)'
  BY <1>1, <1>4 DEF GoodKey, Plain, Trimmed
<1>6. CASE /\ loop' = "text" /\ pos' = After(pos) /\ value' = rtrim(value)
           /\ sec' = IF sec = NOTHING THEN NOTHING
                     ELSE [sec EXCEPT !.entries = Append(@, [key |-> key, value |-> value'])]
  <2>1. GoodValue(value') /\ value' \in Word
    BY <1>1, <1>6, TrimOK DEF GoodValue
  <2>2. [key |-> key, value |-> value'] \in GoodEntry
    BY <1>1, <2>1 DEF GoodEntry
  <2>3. sec' = NOTHING \/ sec' \in GoodSection
    <3>1. SUFFICES ASSUME sec # NOTHING PROVE sec' \in GoodSection
      BY <1>6
    <3>. DEFINE e == [key |-> key, value |-> value']
    <3>2. sec \in GoodSection /\ e \in GoodEntry /\ sec' = [sec EXCEPT !.entries = Append(@, e)]
      BY <1>6, <2>2, <3>1 DEF CfInv
    <3>. HIDE DEF e
    <3>3. Append(sec.entries, e) \in Seq(GoodEntry)
      BY <3>2 DEF GoodSection
    <3>. QED
      BY <3>2, <3>3 DEF GoodSection
  <2>. QED
    BY <1>1, <1>2, <1>4, <1>6, <2>1, <2>3 DEF CfInv
<1>7. CASE /\ pos' = After(After(pos))
           /\ value' = IF next = NL THEN value ELSE value \o <<"\\", AsByte(next)>>
           /\ UNCHANGED <<loop, sec>>
  <2>1. value' \in Word /\ OneLine(value')
    <3>1. CASE next = NL
      BY <1>1, <1>7, <3>1
    <3>2. CASE next # NL
      <4>. DEFINE byte == AsByte(next)
                  t == Append(Append(value, "\\"), byte)
      <4>1. "\\" \in Char /\ "\\" # NL /\ byte \in Char /\ byte # NL
        BY <1>3, <3>2 DEF Char, NL
      <4>2. value' = value \o <<"\\", byte>>
        BY <1>7, <3>2
      <4>. HIDE DEF byte
      <4>3. value' = t
        BY <1>1, <4>1, <4>2 DEF Word
      <4>4. Append(value, "\\") \in Word /\ OneLine(Append(value, "\\"))
        BY <1>1, <4>1, AddChar
      <4>5. t \in Word /\ OneLine(t)
        BY <4>1, <4>4, AddChar
      <4>. QED
        BY <4>3, <4>5
    <3>. QED
      BY <3>1, <3>2
  <2>2. OneLine(value)'
    BY <2>1 DEF OneLine
  <2>. QED
    BY <1>1, <1>3, <1>4, <1>5, <1>7, <2>1, <2>2 DEF CfInv
<1>8. CASE /\ ch \notin {NL, "\\"} /\ pos' = After(pos) /\ value' = Append(value, ch)
           /\ UNCHANGED <<loop, sec>>
  <2>1. value' \in Word /\ OneLine(value')
    BY <1>1, <1>2, <1>8, AddChar
  <2>2. OneLine(value)'
    BY <2>1 DEF OneLine
  <2>. QED
    BY <1>1, <1>2, <1>4, <1>5, <1>8, <2>1, <2>2 DEF CfInv
<1>. QED
  BY <1>6, <1>7, <1>8 DEF ValueChar

\* Every step keeps the invariant.
LEMMA CfNextInv == CfInv /\ [CfNext]_cfvars => CfInv'
<1>1. SUFFICES ASSUME CfInv, [CfNext]_cfvars PROVE CfInv'
  OBVIOUS
<1>2. CASE UNCHANGED cfvars
  BY <1>1, <1>2 DEF cfvars, CfInv, KeyBegun, GoodKey, Plain, Trimmed, OneLine, fgetc
<1>. QED
  BY <1>1, <1>2, AddTextOK, TextCharOK, NameCharOK, KeyCharOK, SkipSpaceOK, ValueCharOK
     DEF CfNext, Parse

-----------------------------------------------------------------------------
(* Theorems *)

\* The invariant holds in every state.
LEMMA CfAlways == CfSpec => []CfInv
BY CfInitInv, CfNextInv, PTL DEF CfSpec

\* The reader stays in its text.
THEOREM CfTypeCorrect == CfSpec => []CfTypeOK
<1>1. CfInv => CfTypeOK
  BY DEF CfInv, CfTypeOK
<1>. QED
  BY <1>1, CfAlways, PTL

\* What the reader keeps is usable, whatever it reads.
THEOREM CfKeepsUsable == CfSpec => []UsableEntries
<1>1. ASSUME CfInv PROVE UsableEntries
  <2>1. SUFFICES ASSUME NEW e \in Kept
                 PROVE  /\ e.key # << >>
                        /\ Chars(e.key) \cap {NL, "=", "[", "]"} = {}
                        /\ NL \notin Chars(e.value)
                        /\ \A s \in {e.key, e.value} : s # << >> => ~isspace(s[Len(s)])
    BY DEF UsableEntries
  <2>2. e \in GoodEntry
    <3>1. PICK i \in DOMAIN sections : e \in Chars(sections[i].entries)
      BY <2>1 DEF Kept
    <3>2. sections[i] \in GoodSection
      BY <1>1, <3>1 DEF CfInv
    <3>3. sections[i].entries \in Seq(GoodEntry)
      BY <3>2 DEF GoodSection
    <3>. QED
      BY <3>1, <3>3 DEF Chars
  <2>3. GoodKey(e.key) /\ GoodValue(e.value)
    BY <2>2 DEF GoodEntry
  <2>4. DOMAIN e.key = 1..Len(e.key) /\ DOMAIN e.value = 1..Len(e.value)
    BY <2>3 DEF GoodKey, GoodValue, Word
  <2>5. Chars(e.key) \cap {NL, "=", "[", "]"} = {}
    BY <2>3, <2>4 DEF GoodKey, Plain, Chars
  <2>6. NL \notin Chars(e.value)
    BY <2>3, <2>4 DEF GoodValue, OneLine, Chars
  <2>7. \A s \in {e.key, e.value} : s # << >> => ~isspace(s[Len(s)])
    BY <2>3 DEF GoodKey, GoodValue, Trimmed
  <2>. QED
    BY <2>3, <2>5, <2>6, <2>7 DEF GoodKey
<1>. QED
  BY <1>1, CfAlways, PTL
=============================================================================
