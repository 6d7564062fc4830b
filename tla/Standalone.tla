------------------------------ MODULE Standalone ------------------------------
(***************************************************************************)
(* The command-line program (src/standalone.c): it reads its arguments,    *)
(* creates one composer and prints the pathnames of its combinations, all  *)
(* or the first, any or those that exist, and may create directories.      *)
(*                                                                         *)
(* An option is [opt |-> letter, arg |-> argument or NULL]; "?" and ":"    *)
(* are what getopt returns for a wrong option and a missing argument.  An  *)
(* operand is the text <key>[+][=<value>], taken apart:                    *)
(* [key, plus, eq, value].  getopt moves the operands behind the options.  *)
(***************************************************************************)
EXTENDS Pathcomp, Filesystem

CONSTANTS Args,         \* command lines: [options, operands]
          FromConfig,   \* attributes by configuration file and class
          Systems       \* file systems to begin with

\* A value in a configuration file or on the command line is a text or a Lua block.
ValueType == [type : {"string"}, text : Seq(Atom)] \cup [type : {"lua"}, refs : Seq(Names)]

AttType ==
  [name : STRING, alternatives : Seq(ValueType), current : Nat, origin : STRING \cup {NULL}]

\* Lists in which the cursor of every attribute stands at an alternative.
AttLists ==
  {atts \in Seq(AttType) : \A i \in 1..Len(atts) : atts[i].current \in 1..Len(atts[i].alternatives)}

OptionType ==
  [opt : {"a", "c", "e", "f", "h", "m", "x", "?", ":"}, arg : STRING \cup {NULL}]

OperandType == [key : STRING, plus : BOOLEAN, eq : BOOLEAN, value : ValueType \cup {NULL}]

\* A class has attributes in every file, if only the empty list.
IsClass(class) == \A file \in DOMAIN FromConfig : class \in DOMAIN FromConfig[file]

ASSUME NamesAssumption == {"root", "compose"} \subseteq Names

ASSUME FromConfigAssumption ==
  /\ ".pathcomprc" \in DOMAIN FromConfig
  /\ \A file \in DOMAIN FromConfig : \A class \in DOMAIN FromConfig[file] :
       FromConfig[file][class] \in AttLists

ASSUME ArgsAssumption ==
  \A a \in Args :
    /\ a.options \in Seq(OptionType)
    /\ \A i \in 1..Len(a.options) :
         /\ a.options[i].opt = "c" => IsClass(a.options[i].arg)
         /\ a.options[i].opt = "f" => a.options[i].arg \in DOMAIN FromConfig
    /\ a.operands \in Seq(OperandType)
    /\ \A i \in 1..Len(a.operands) : a.operands[i].eq => a.operands[i].value # NULL

ASSUME SystemsAssumption == \A s \in Systems : s \in FileSystems /\ Sound(s)

\* The null pointer points at nothing.
ASSUME NullAssumption ==
  NULL \notin ValueType \cup [name : STRING, attributes : AttLists, done : BOOLEAN, started : BOOLEAN]

VARIABLES args,         \* the command line
          read,         \* how much of it has been read: [options, operands]
          options,      \* opt_t
          composer,
          fs,
          pc,
          path,         \* the pathname of this turn of the loop
          at,           \* how far pathcomp_mkdir has come in it
          output,       \* what has been printed
          logged        \* an error has been logged

vars == <<args, read, options, composer, fs, pc, path, at, output, logged>>

NoOptions ==
  [class |-> NULL, attributes |-> << >>, print_all |-> FALSE, only_existing |-> FALSE,
   config_file |-> ".pathcomprc", do_mkdir |-> FALSE, eval_att |-> NULL]

Init ==
  /\ args \in Args
  /\ fs \in Systems
  /\ read = [options |-> 0, operands |-> 0]
  /\ options = NoOptions
  /\ composer = NULL
  /\ pc = "getopt"
  /\ path = NULL
  /\ at = 0
  /\ output = << >>
  /\ logged = FALSE

-----------------------------------------------------------------------------
(* opt_new *)

Option == args.options[read.options + 1]

SetOption(o) ==
  CASE o.opt = "a" -> [options EXCEPT !.print_all = TRUE]
    [] o.opt = "c" -> [options EXCEPT !.class = o.arg]
    [] o.opt = "e" -> [options EXCEPT !.only_existing = TRUE]
    [] o.opt = "f" -> [options EXCEPT !.config_file = o.arg]
    [] o.opt = "m" -> [options EXCEPT !.do_mkdir = TRUE]
    [] o.opt = "x" -> [options EXCEPT !.eval_att = o.arg]
    [] o.opt \in {"h", "?", ":"} -> options

GetOption ==
  /\ pc = "getopt"
  /\ read.options < Len(args.options)
  /\ read' = [read EXCEPT !.options = @ + 1]
  /\ options' = SetOption(Option)
  /\ pc' = CASE Option.opt = "h"          -> "success"
             [] Option.opt \in {"?", ":"} -> "failure"
             [] OTHER                     -> "getopt"
  /\ logged' = (logged \/ Option.opt \in {"?", ":"})
  /\ UNCHANGED <<args, composer, fs, path, at, output>>

\* Option -c is mandatory.
EndOptions ==
  /\ pc = "getopt"
  /\ read.options = Len(args.options)
  /\ pc' = IF options.class = NULL THEN "failure" ELSE "operands"
  /\ logged' = (logged \/ options.class = NULL)
  /\ UNCHANGED <<args, read, options, composer, fs, path, at, output>>

\* An operand without "=" fails an assertion, one with an empty key another.
kv_new_ok(kv) == kv.eq /\ (kv.key # "" \/ kv.plus)

GetOperand ==
  /\ pc = "operands"
  /\ read.operands < Len(args.operands)
  /\ read' = [read EXCEPT !.operands = @ + 1]
  /\ LET kv == args.operands[read.operands + 1]
     IN  IF kv_new_ok(kv)
         THEN /\ options' = [options EXCEPT !.attributes = Append(@, kv)]
              /\ UNCHANGED <<pc, logged>>
         ELSE /\ pc' = "aborted"
              /\ logged' = (logged \/ kv.eq)
              /\ UNCHANGED options
  /\ UNCHANGED <<args, composer, fs, path, at, output>>

-----------------------------------------------------------------------------
(* main *)

kv_add_to_composer(comp, kv) ==
  IF kv.plus THEN pathcomp_add(comp, kv.key, kv.value)
             ELSE pathcomp_set(comp, kv.key, kv.value)

\* The composer for a class, with the attributes of the command line.
Composed(file, class, kvs) ==
  LET C[k \in 0..Len(kvs)] ==
        IF k = 0 THEN pathcomp_new(class, FromConfig[file][class])
                 ELSE kv_add_to_composer(C[k - 1], kvs[k])
  IN  C[Len(kvs)]

NewComposer ==
  /\ pc = "operands"
  /\ read.operands = Len(args.operands)
  /\ composer' = Composed(options.config_file, options.class, options.attributes)
  /\ pc' = "loop"
  /\ UNCHANGED <<args, read, options, fs, path, at, output, logged>>

\* The head of the loop, up to the pathname; pathcomp_find goes on in FindTry.
Loop ==
  /\ pc = "loop"
  /\ pc' = IF composer.done THEN "free"
           ELSE IF options.only_existing THEN "find" ELSE "path"
  /\ path' = IF composer.done \/ options.only_existing THEN path ELSE pathcomp_yield(composer)
  /\ UNCHANGED <<args, read, options, composer, fs, at, output, logged>>

\* Defective: does not ask whether the pathname exists.
FindTry_any ==
  /\ pc = "find"
  /\ composer' = FindMove(composer)
  /\ path' = IF composer'.done THEN NULL ELSE pathcomp_yield(composer')
  /\ pc' = "path"
  /\ UNCHANGED <<args, read, options, fs, at, output, logged>>

FindTry ==
  /\ pc = "find"
  /\ composer' = FindMove(composer)
  /\ LET found == pathcomp_yield(composer')
     IN  IF composer'.done THEN path' = NULL /\ pc' = "path"
         ELSE IF found # NULL /\ path_exists(fs, found) THEN path' = found /\ pc' = "path"
         ELSE UNCHANGED <<path, pc>>
  /\ UNCHANGED <<args, read, options, fs, at, output, logged>>

\* There is a pathname, and pathcomp_mkdir is called if it should be.
Path ==
  /\ pc = "path"
  /\ pc' = IF path = NULL THEN "next"
           ELSE IF options.do_mkdir THEN "mkdir" ELSE "print"
  /\ UNCHANGED <<args, read, options, composer, fs, path, at, output, logged>>

\* One iteration of pathcomp_mkdir, which asks for the pathname again.
MkdirNext ==
  /\ pc = "mkdir"
  /\ LET name == pathcomp_yield(composer)
         k    == Seek(name, at)
     IN  /\ Stops(name, at) # {}
         /\ fs' = mkdir(fs, Cut(name, k))
         /\ IF Fails(fs, Cut(name, k))
            THEN at' = 0 /\ pc' = "print" /\ logged' = TRUE
            ELSE at' = k /\ UNCHANGED <<pc, logged>>
  /\ UNCHANGED <<args, read, options, composer, path, output>>

MkdirReturn ==
  /\ pc = "mkdir"
  /\ Stops(pathcomp_yield(composer), at) = {}
  /\ pc' = "print"
  /\ at' = 0
  /\ UNCHANGED <<args, read, options, composer, fs, path, output, logged>>

\* What a combination with a pathname prints: the pathname or the attribute.
Line(comp, text, att) ==
  IF att = NULL THEN <<text>>
  ELSE IF pathcomp_eval(comp, att) = NULL THEN << >>
  ELSE <<pathcomp_eval(comp, att)>>

PrintPath ==
  /\ pc = "print"
  /\ output' = output \o Line(composer, path, options.eval_att)
  /\ pc' = "next"
  /\ UNCHANGED <<args, read, options, composer, fs, path, at, logged>>

\* Defective: calls pathcomp_next although pathcomp_find does.
Advance_twice ==
  /\ pc = "next"
  /\ pc' = IF options.print_all THEN "loop" ELSE "free"
  /\ composer' = IF options.print_all THEN pathcomp_next(composer) ELSE composer
  /\ UNCHANGED <<args, read, options, fs, path, at, output, logged>>

\* The end of the loop.
Advance ==
  /\ pc = "next"
  /\ pc' = IF options.print_all THEN "loop" ELSE "free"
  /\ composer' = IF options.print_all /\ ~options.only_existing
                 THEN pathcomp_next(composer) ELSE composer
  /\ UNCHANGED <<args, read, options, fs, path, at, output, logged>>

FreeAll ==
  /\ pc = "free"
  /\ composer' = NULL
  /\ pc' = "success"
  /\ UNCHANGED <<args, read, options, fs, path, at, output, logged>>

Next ==
  \/ GetOption \/ EndOptions \/ GetOperand \/ NewComposer
  \/ Loop \/ FindTry \/ Path \/ MkdirNext \/ MkdirReturn \/ PrintPath \/ Advance \/ FreeAll

Ended == pc \in {"success", "failure", "aborted"}

\* The program keeps running until it has ended.  This is weak fairness of Next,
\* which is enabled in all other states, in a form that TLC evaluates faster.
Spec == Init /\ [][Next]_vars /\ ([]<>Ended \/ []<><<Next>>_vars)

-----------------------------------------------------------------------------
(* What a command line asks for *)

HasOpt(letter) == \E i \in DOMAIN args.options : args.options[i].opt = letter

\* The argument of an option, the last one if it is repeated.
OptArg(letter, default) ==
  LET given == SelectSeq(args.options, LAMBDA o : o.opt = letter)
  IN  IF given = << >> THEN default ELSE given[Len(given)].arg

\* The numbers of combinations of the attributes before each attribute.
Weight(atts) ==
  LET W[i \in 1..(Len(atts) + 1)] ==
        IF i = 1 THEN 1 ELSE W[i - 1] * Len(atts[i - 1].alternatives)
  IN  W

\* The combination with a given number, the first attribute varying fastest.
Nth(comp, k) ==
  LET atts  == comp.attributes
      pick(i) == ((k \div Weight(atts)[i]) % Len(atts[i].alternatives)) + 1
  IN  [comp EXCEPT !.attributes =
         [i \in DOMAIN atts |-> [atts[i] EXCEPT !.current = pick(i)]]]

\* All combinations, in this order.
Combinations(comp) ==
  [k \in 1..Weight(comp.attributes)[Len(comp.attributes) + 1] |-> Nth(comp, k - 1)]

\* A pathname that can be printed.
Wanted(name) == name # NULL /\ (HasOpt("e") => path_exists(fs, name))

\* Without -a, it is the first that exists, or else the first combination's.
Requested ==
  LET Tried(all)   == SubSeq(all, 1, IF HasOpt("a") \/ HasOpt("e") THEN Len(all) ELSE 1)
      Shown(found) == [i \in {i \in DOMAIN found : HasOpt("a") \/ i = 1} |-> found[i]]
      comp         == Composed(OptArg("f", ".pathcomprc"), OptArg("c", NULL), args.operands)
  IN  Shown(SelectSeq(Tried(Combinations(comp)), LAMBDA c : Wanted(pathcomp_yield(c))))

-----------------------------------------------------------------------------
(* Properties *)

\* Type invariant: main has a composer from its creation until it is freed, and a
\* pathname whenever it makes directories or prints.
TypeOK ==
  /\ pc \in {"getopt", "operands", "loop", "find", "path", "mkdir", "print", "next",
             "free", "success", "failure", "aborted"}
  /\ pc \in {"loop", "find", "path", "mkdir", "print", "next", "free"} <=> composer # NULL
  /\ pc \in {"mkdir", "print"} => path # NULL
  /\ at > 0 => pc = "mkdir"

Ran == pc = "success" /\ ~HasOpt("h")

\* The program prints exactly what was asked for, in the order of the
\* alternatives: each pathname, or attribute, of a matching combination once.
\* That holds for -a -e as well, where only pathcomp_find moves the composer
\* (standalone.c:235).
PrintsRequested ==
  LET Lines(combinations) ==
        Concat([i \in DOMAIN combinations |->
          Line(combinations[i], pathcomp_yield(combinations[i]), OptArg("x", NULL))])
  IN  Ran => output = Lines(Requested)

\* With -m, the leading directories of all these pathnames have been made when
\* the program ends without an error, unless a file has the last one's name.
MakesDirectories ==
  LET Made(dirs) ==
        \A d \in dirs : IsDir(fs, d) \/ (d \in fs.files /\ \A e \in dirs : Parent(e) # d)
      AllMade(combinations) ==
        \A i \in DOMAIN combinations : Made(Leading(pathcomp_yield(combinations[i])))
  IN  Ran /\ HasOpt("m") /\ ~logged => AllMade(Requested)

\* With -e, -m finds all directories there already and makes none.
ExistingNeedNoMkdir ==
  [][options.only_existing => fs' = fs]_vars

\* The program ends: with -a, the loop relies on pathcomp_next or
\* pathcomp_find to raise done.
Ends == <>Ended
=============================================================================
