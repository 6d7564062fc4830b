# A formal model of libpathcomp

Libpathcomp composes pathnames from attributes. A *composer* belongs to a class,
takes the attributes of its class from configuration files, and gets others at
run time. An attribute may have several alternative values; the composer is an
iterator over all combinations of them, and each combination stands for a
pathname.

This directory holds TLA+ modules that model the library and its command-line
program, configurations for the model checker TLC, and proofs for the proof
system TLAPS. Source lines are given as `file:line` relative to the repository.

## The system

| part | state | operations |
|---|---|---|
| attributes (`att.c`) | name, list of alternatives, cursor, origin | new, clone, replace, add, rewind, next, eval |
| composer objects (`pathcomp.c`) | class, attributes, `done`, `started` | new, clone, free, set, add, rewind |
| iteration and search (`pathcomp.c`) | cursors, `done`, `started` | next, done, rewind, find |
| loading (`pathcomp.c`) | call stack, attributes so far | add_atts_from_sections / _from_entries, copy-from |
| evaluation (`pathcomp.c`, `value.c`) | cached results, Lua stack | eval, yield |
| directories (`pathcomp.c`) | the file system | mkdir |
| configuration reader (`cf.c`) | sections, text, position, open section | add_from_string, add_from_file |
| string buffers (`buf.c`) | struct, block, shared initial buffer | the whole of `buf.h` |
| program (`standalone.c`) | options, one composer | option parsing, main loop |
| interpreter, global configuration | two global pointers | get_state, add_config, cleanup |
| embedded Lua 5.1 (`liblua/`) | tables, heap, stacks, code | tables, collector, compiler, machine |

The reader takes its characters from a buffer and fills the global
configuration; `pathcomp_new` copies from it what a class inherits; the client
then changes and iterates the composer; `find` and `mkdir` connect it to the
file system; the program is one client. Attributes that are Lua blocks are
compiled and run by the embedded interpreter, which calls back into the composer
for the attributes they read.

The library has one thread. What is hard in it is not concurrency but sequences
of calls: iterating is stateful, and `set`, `add`, `clone`, `rewind`, `next` and
`find` may be mixed in any order. The file system is shared with other
processes, and Lua's collector runs in steps between those of the program; there
interleavings matter. The hazards in `PROJECT.json` list the lines where this
bites.

## Modules

| module | models | state and actions |
|---|---|---|
| `Att` | `att.c` | functions on attribute records; the cursor is a position, 0 the null pointer |
| `Pathcomp` | `pathcomp.c`, `value.c` | functions on composer records, named as in the code |
| `Composer` | public operations of `pathcomp.h` | composers by pointer; one action per call, `FindTry` one iteration of `pathcomp_find` |
| `ComposerHistory` | the same, watched | what has been visited, tested and found since the last restart |
| `Enumerator` | the promise of an iterator | abstract specification that `ComposerHistory` implements |
| `LoadConfig` | loading with inheritance | the recursion with an explicit stack; one action per section found, entry added, section left, return |
| `Filesystem` | stat(2) and mkdir(2) (external), the scan of `pathcomp_mkdir` | functions on a record of directories, files and locked directories |
| `Mkdir` | `pathcomp_mkdir` | several processes; one action per system call; others create files and remove directories |
| `Cf` | `cf.c` | one action per character taken by the loop that is running |
| `CfDocument` | configuration text as written | documents of lines, their rendering and their meaning; `Cf` must find the meaning |
| `Buf` | `buf.c` | functions on a memory of blocks and structs |
| `BufUse` | buffers in use | one action per operation; a read is several system calls, each short, repeated or failing |
| `Eval` | `value.c`, `interpreter.c`, evaluation in `pathcomp.c` | functions on a memory: results that values own, the interpreter's stack |
| `EvalUse` | a client that evaluates | one action per call, `pathcomp_cleanup` at any time |
| `Standalone` | `standalone.c` | options, operands, main loop; `pathcomp_find` and `pathcomp_mkdir` step by step |
| `LuaTable`, `LuaTableUse` | `ltable.c`, `ltm.c` | both parts of a table; assignments, dead keys, traversal |
| `LuaGC`, `LuaGCUse` | `lgc.c`, `lstring.c`, `lfunc.c` | the collector's steps, and programs between them |
| `LuaCode`, `LuaParser` | `lcode.c`, `lparser.c`, `luaG_checkcode` | the compiler, as functions from tokens to code |
| `LuaValues`, `LuaDo`, `LuaVM`, `LuaBase` | `ldo.c`, `lvm.c`, `lbaselib.c` | one action per instruction, call, return, error and C function |
| `LuaMeaning`, `LuaRun` | what programs mean; text to end | an evaluator of syntax trees to compare with; the run of one program |
| `ComposerProofs`, `LoadConfigProofs`, `MkdirProofs`, `StandaloneProofs`, `CfProofs`, `BufProofs`, `BufUseProofs`, `Indices` | | theorems |
| `MC...` | | instances for TLC |

Operators whose comment begins with *Defective* are variants of the definition
below them with a plausible mistake. No specification uses them; substituting
one for the original must make a property fail, which shows that the property
depends on that code.

### Abstractions

- A value is a string, an integer, or a Lua block that concatenates attributes
  (`self.a .. self.b`); an attribute that is missing makes it fail. Nested Lua
  calls fail at depth `MaxCalls`, as Lua's limit on C calls does.
- Texts are sequences of atoms or characters. In `Cf` a space stands for all
  white space but newline, and `HIGH` for all bytes from 0x80 on; `char` is
  taken to be signed, as it is on x86. Null bytes are left out.
- `Cf` reads from a sequence and a position; that the buffers of `buf.c` are
  such a thing is what `BufUse` is about.
- Memory is taken not to run out, and the assertions on arguments to hold.
- In `Composer` the existing files are chosen once and do not change while the
  client searches.
- In `Pathcomp` an evaluation has a value and no effect; `Eval` has the results
  that values cache, who owns them, and when they are freed.
- `LuaVM` takes tables for maps and numbers for small integers; `LuaTable` has
  the tables. When the collector runs is left open: any time between two steps
  of the program.

## Runs

Parts that do not share state are checked in one run where a behaviour
exercises one of them; `part` in `MCConfiguration`, `MCProgram` and `MCLuaHeap`,
and the class of the composer in `MCComposer`, say which.

| run | shows | bounds |
|---|---|---|
| `composer` | `VisitsAll`, `NeverTwice`, `Enumerates` (refinement); `FindComplete`, `TestsOnce`, `FindReturns`; `TypeOK` | iteration: 1 composer, 3 attributes, 3 alternatives; search and clones: 2 attributes, 2 alternatives, every set of 3 pathnames, 2 composers |
| `configuration` | buffers: `HoldsText`, `OneOwner`; reader: `ReadsDocuments`, `UsableEntries`; loading: `LoadsExpected`, `NeverMixed`, `OwnValuesStay`; all: `CallsReturn`, `AllTypeOK` | 2 buffers, texts of 2 bytes of 2 kinds, 6 cells; two documents of 2 lines of 9 kinds, chosen ones of 3, unreadable files, all texts of 3 characters of 9 sorts and of 4 after a header; all configurations of 3 sections with up to 2 entries |
| `program` | program: `PrintsRequested`, `MakesDirectories`, `ExistingNeedNoMkdir`; processes: `MakesAll`, `FailsForCause`, `OnlyLeading`; evaluation: `NothingLeft`, `EvalAgrees`; all: `AllReturn`, `AllTypeOK` | all option combinations, up to 2 operands of 9, 4 file systems; 2 processes, 3 pathnames and none, every file system over 4 names; 2 composers with 3 attributes, 5 values |
| `lua_heap` | tables: `AnswersRight`, `TraversalComplete`; collector: `FreesInTime`, `Interned`, `FinalizesInOrder`, `CollectsGarbage`, `Reclaims`; both: `AllTypeOK` | 5 keys that collide, arrays of up to 3; 11 kinds of heap, 7 objects, 2 stack slots, 4 operations of the program |
| `lua_run` | `RunsAsWritten`, `AssertionsHold`, `UpvaluesInFrames`, `CallsCounted`, `Terminates`, `TypeOK` | the programs of `MCLuaRun`: all conditions of up to three atoms, and all statements, operators and limits; stacks and limits of 8 to 20 |

Three attributes with three alternatives have carries that stop at, and pass
through, a middle digit; that is all `pathcomp_next` distinguishes. Three
sections give two levels of inheritance, diamonds, repeated sections and cycles.
Two processes suffice for a race, as `pathcomp_mkdir` keeps no state between
system calls but its position. With growth constants of 0 and 1 every operation
on a buffer allocates, and sometimes does not, within two bytes. Two buffers
share the initial one. The theorems below remove these bounds for the properties
they are about. Lua's limits are scaled down, so that programs of a few lines
reach each of them.

The bounds `MaxAlts`, `MaxLen`, `MaxCells`, `MaxAdds`, `MaxDepth`, `MaxOps`,
`MaxObjects`, `MaxStack` and `MaxSize` are guards on what clients do or, in the
case of `MaxDepth`, the size of the C stack.

All five are checked for deadlock. In `configuration` and `program` a client may
stop between calls, and the program when it has ended (`Stopped`); a call that
has begun and cannot go on would be a deadlock.

### Fairness

Every fairness condition is weak and says that a call in progress goes on: an
iteration of `pathcomp_find`, of the loops of loading and reading, a system call
of `pathcomp_mkdir`, a step of `main`, of Lua's compiler or machine; that
read(2) does not report EAGAIN for ever (the only file that is read is opened
without O_NONBLOCK) and that files end; and that a program which allocates calls
the collector. The MC modules, `Standalone` and `LuaRun`
write it as "infinitely often returned or infinitely often a step", which is
weak fairness because a step is possible, and changes the state, until the call
has returned; evaluating ENABLED for it takes TLC too long. That a step is
possible is what the deadlock check shows, but for two parts where others may
move too: while a file is read `ReadEnd` is always possible, and while
`pathcomp_mkdir` runs one of `MakeNext` and `Finish`, whose guards are
complementary. Nothing is assumed
of clients, of which calls they make, or of other processes.

### Disagreements

Seven runs check what the documentation or a comment says and find a
counterexample.

- `load_config_override`: values of a parent and a grandparent are combined,
  because origins are only compared with the composer's own class
  (`pathcomp.c:115`); `README.md:237` says that never happens. `NeverMixed` is
  the weaker property that does hold.
- `load_config_cycle`: a copy-from cycle recurses without end (`pathcomp.c:140`).
- `mkdir_file`: `pathcomp_mkdir` takes EEXIST for success even when the name is
  a regular file, and returns 0 without a directory (`pathcomp.c:390`). Before
  the last component this surfaces in the next mkdir(2), hence the exception in
  `MakesAll`.
- `mkdir_no_path`: `pathcomp_mkdir` dereferences NULL when `pathcomp_yield` has
  no pathname (`pathcomp.c:384`).
- `cf_comment`: a byte from 0x80 on ends the reading of the text, in a comment
  too (`cf.c:201`, `buf.c:328`).
- `eval_yield`: `pathcomp_yield` keeps a pointer to the result of `root` while
  it evaluates `compose` (`pathcomp.c:271`); when `compose` reads a `root` that
  is a Lua block, the result is freed before it is joined. The passing run
  leaves this case out (`EvalReadable`).
- `lua_conditions`: `((nil and nil) or false) and true` gives nil instead of
  false, because the compiler takes the constant `false` for a jump that needs
  no value (`lcode.c:547`).

The documents disagree about `pathcomp_yield` when `compose` cannot be
evaluated: by `README.md:525` "the `root` attribute is returned", by
`pathcomp.h:135` it is "followed by a directory separator". The code appends the
slash (`pathcomp.c:275`) and `test_yield.c:69` expects it; `Promised`, the
reference of `YieldJoins`, and with it `EvalAgrees` follow `pathcomp.h`. So the
sentence of `README.md` is false of the code.

A backslash at the end of the text adds byte 0xff to the value (`cf.c:171`).
The model does the same; nothing says what such a text should mean, so no run
checks it.

## Proofs

All theorems hold for every value of the constants that satisfies the named
assumptions of the modules; TLC evaluates these assumptions in the runs.

### Composers and iteration

`ComposerProofs` proves `Spec => []TypeOK` (`TypeCorrect`). Assumptions: NULL is
no composer (`NullAssumption`), there is room for one alternative
(`BoundAssumption`), and the attributes from the configuration have different
names and cursors on their first alternatives (`FromConfigAssumption`), which is
what `LoadTypeCorrect` below shows of loading. The inductive invariant `CInv` is
`TypeOK` and the bound on alternatives, which the iteration proofs need to name
the set of combinations. There is one lemma per operation on a composer and one
step per action.

Its second half proves for any number of composers, attributes, alternatives and
files, and any sequence of calls:

- `IterationIsComplete`: `HSpec => []VisitsAll`
- `IterationNeverRepeats`: `HSpec => NeverTwice`
- `FindTestsOnce`: `HSpec => TestsOnce`
- `FindIsComplete`: `HSpec => []FindComplete`
- `ComposersEnumerate`: `HSpec => Enumerates`, the refinement of `Enumerator`

The argument is that of an odometer. `Before` orders combinations by the last
attribute in which they differ. `pathcomp_next` is a carry (`TurnCarries`), a
carry moves forward (`CarryAdvances`) and skips nothing (`NothingBetween`), and
the last combination is greatest. The inductive invariant `HInv` says of every
composer (`Follows`)

- that what it has seen lies at or before its position, and, when its history is
  clean, that everything before the position has been seen (`Covers`); appending
  an alternative or an attribute keeps the first half, which is why properties
  that promise less after a change still hold;
- that while only `pathcomp_find` moves it, what has been tested is what has
  been seen, and what has been found is what was tested and exists, in terms of
  the pathname that each combination *has now* (`Finds`, `Hits`). A step moves
  only cursors, so it does not change the pathname of any combination
  (`TurnKeepsHits`); a change of attributes ends the claim unless the search has
  not begun.

The refinement maps the position of a composer to the element the abstract
iterator stands on and the set of combinations to its space. One lemma per
action shows to which abstract step it corresponds (`StartMaps`, `AdoptMaps` for
clones, `NextMaps`, `SpoilMaps`, `RestMaps`), and `EnumStep` puts them together;
the two cases of `NextMaps`, moving to something not seen before and reporting
the end only when all has been seen, are `CarryAdvances` and `Covers`.

### Loading

`LoadConfigProofs` proves `LoadTypeCorrect` (`[]TypeOK`), `LoadNeverMixes`
(`[]NeverMixed`) and `LoadKeepsOwn` (`OwnValuesStay`) for any classes and
configurations, cyclic ones included. Assumptions: sections and entries have
their types, and a copy-from names a class (`ConfigsAssumption`,
`ClassesAssumption`). `LoadInv` adds to `TypeOK` that an attribute's origin is
the class itself exactly when all its values are the class' own, and that an
activation that adds entries is in a section.

### Directories

`MkdirProofs` proves `DirTypeCorrect`, `MkdirMakesAll`, `MkdirFailsForCause` and
`MkdirOnlyLeading` for any processes, pathnames and file systems in which
everything is in a directory (`PathsAssumption`, `DisksAssumption`). The first
half is about pathnames: where the scan of `pathcomp_mkdir` stops, and that
consecutive stops name a directory and its parent whatever slashes lie between.
The invariant `DirInv` says of a call that what it has passed are directories,
except that the last may be a file (`Passed`). A call gets behind a file only if
the next name exists or can be made, and both need a directory: so a file
survives only in the last place, which is the exception in `MakesAll`.

### Program

`StandaloneProofs` proves `ProgramTypeCorrect` (`[]TypeOK`) and
`ExistingMakesNone` (`ExistingNeedNoMkdir`) for any command lines,
configurations and file systems. Assumptions: `root` and `compose` are names
(`NamesAssumption`), attributes from the configuration have their cursors at an
alternative (`FromConfigAssumption`, again what loading is shown to do), options
and operands have their types and a class its attributes in every file
(`ArgsAssumption`), everything is in a directory (`SystemsAssumption`), and NULL
is no object (`NullAssumption`).

The argument goes through all layers. Evaluation gives every attribute a text or
NULL, by recursion over nested Lua calls (`TextsType`), so `pathcomp_yield`
returns a pathname or NULL (`YieldType`). `ProgramInv` says that the pathname of
a turn is that of the composer, and that with `-e` it exists, as long as
`pathcomp_mkdir` has not returned. A pathname that exists has all its leading
directories (`ExistingIsReached` in `MkdirProofs`): what is found is in the
directory at the last stop, which is in the one at the stop before, and so on,
wherever slashes are repeated or end the pathname. So every mkdir(2) finds its
directory and leaves the file system alone, which in turn keeps the pathname
existing for the next one (`MkdirStep`).

### Reader

`CfProofs` proves `CfTypeCorrect` and `CfKeepsUsable` (`[]UsableEntries`) for any
texts (`InputsAssumption`). `CfInv` says of each loop what the key and the value
read so far look like: a key does not begin with white space or an equals sign
because `cf_parse_text` has looked at the character, which `buf_ungetc` put
back; for that the position has to be what it was, hence the conjunct on `pos`
and `fgetc`. That trimming a sequence leaves one that does not end in white
space is the lemma about `rtrim`.

### Buffers

`BufProofs` and `BufUseProofs` prove `BufTypeCorrect`, `BufHoldsText` and
`BufOneOwner` for any set of buffers, any bytes and any growth constants
(`SizesAssumption`, `BufferAssumption`). Every function of `buf.c` comes down to
three ways to change memory: allocate, write in a block, change a struct.
`Only(x, y, b)` says that at most buffer `b` and its block have changed, `Memory`
that structs agree with blocks and no two buffers share one; that a change
which is `Only` about one buffer and leaves that one in order keeps `Memory` is
shown once. On top of it each operation has a lemma that says what text it
leaves (`Spells`) and that the null is still behind it (`Ends`). `BufInv`
relates memory to the texts the buffers should hold; during a read, where text
and promise differ, `Restorable` says that the buffer holds the old text and
behind it the bytes that the system calls have delivered so far (`io.got`), and
what has to be undone if there was no allocation.

`Indices` has the facts about positions that these proofs share: a nonempty set
of numbers has a least element, a nonempty finite one a greatest, the ranks of
the elements of a set of positions, and that a recursion over numbers whose steps
stay in a set defines a function into that set (`RecursionExists`,
`RecursionStays`).

### Only model-checked

- Liveness (`FindReturns`, `CallsReturn`, `AllReturn`, `Reclaims`,
  `Terminates`): fairness and ENABLED are out of the prover's reach.
- `LoadsExpected`, `ReadsDocuments`, `PrintsRequested`, `MakesDirectories`: they
  compare the code with a recursive definition of its result, the expansion of
  a class, the meaning of a document, or the combinations a command line asks
  for. That the code computes the same is an induction over data that follows
  the whole of that definition, and is not attempted.
- `NothingLeft`, `EvalAgrees` and all of Lua: `Eval` and the Lua modules use
  recursive operators, as the code they model is recursive.

The invariants `AllTypeOK` of the combined runs are the conjunctions of the type
invariants of their parts; those of composers, buffers, reader, loading,
directories and the program are proved.

## Not modelled

- `errno` after `pathcomp_mkdir`, which free(3) and the logging function may
  change: its readers (`standalone.c:222`, `test_mkdir.c:44`) only print it.
- The cells of lists (`list.c`): lists are sequences.
- How `value_new_auto` recognises a Lua block in a text: a value is one or the
  other from the start.
- Failing allocation, which the code does not check.
- `log.c` (writes messages) and the dump functions (format a description for
  debugging).
- Of Lua: the lexer and binary chunks (conversions), the standard libraries but
  the functions of `LuaBase` (data, not control), when the collector is due
  (any time, here), floating-point arithmetic, and texts of error messages.
