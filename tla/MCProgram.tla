------------------------------ MODULE MCProgram ------------------------------
(***************************************************************************)
(* The command-line program and what it calls, on small instances.  A      *)
(* behaviour exercises one part: the program itself, processes that call   *)
(* pathcomp_mkdir at the same time, or a client that evaluates attributes. *)
(* The variables of the other parts keep the value they have at first.     *)
(***************************************************************************)
EXTENDS MCStandalone, MCMkdir

CONSTANTS EvalNames, Composers, Classes, EvalFromConfig, Values, SetNames, Readable(_, _), MaxAtts

VARIABLES part, m, config

E == INSTANCE MCEval WITH Names <- EvalNames, FromConfig <- EvalFromConfig

\* The values of the constants of Eval.
GivenE == INSTANCE MCEval WITH Names <- {}, FromConfig <- << >>, Values <- {},
                               Readable <- LAMBDA name, val : TRUE
EvalValues == GivenE!MCValues
EvalMCFromConfig == GivenE!MCFromConfig
EvalReadable(name, val) == GivenE!ReadsExt(name, val)

client == <<m, config>>
allvars == <<part, vars, dirvars, client>>

AllInit ==
  /\ part \in {"program", "mkdir", "eval"}
  /\ E!Init
  /\ IF part = "program" THEN Init
     ELSE /\ args = NULL /\ read = NULL /\ options = NoOptions /\ composer = NULL
          /\ fs = [dirs |-> {}, files |-> {}, locked |-> {}]
          /\ pc = "aborted" /\ path = NULL /\ at = 0 /\ output = << >> /\ logged = FALSE
  /\ IF part = "mkdir" THEN DirInit
     ELSE /\ disk = [dirs |-> {}, files |-> {}, locked |-> {}]
          /\ call = [p \in Procs |-> Idle]
          /\ removed = [p \in Procs |-> FALSE]

Busy ==
  CASE part = "program" -> ~Ended
    [] part = "mkdir"   -> \E p \in Procs : call[p].state = "running"
    [] part = "eval"    -> FALSE

\* The program has ended, or the client may stop between calls; that a call stops
\* is a deadlock.
Stopped == ~Busy /\ UNCHANGED <<vars, dirvars, client>>

AllNext ==
  /\ UNCHANGED part
  /\ \/ part = "program" /\ Next /\ UNCHANGED <<dirvars, client>>
     \/ part = "mkdir" /\ DirNext /\ UNCHANGED <<vars, client>>
     \/ part = "eval" /\ E!Next /\ UNCHANGED <<vars, dirvars>>
     \/ Stopped

\* The fairness of Standalone and Mkdir: the program keeps taking steps until it
\* has ended, and a process that has called pathcomp_mkdir until that returns.
\* All steps that change their variables are their own.
AllSpec ==
  /\ AllInit /\ [][AllNext]_allvars
  /\ []<>Ended \/ []<><<TRUE>>_vars
  /\ \A p \in Procs : []<>(call[p].state # "running") \/ []<><<TRUE>>_(call[p])

-----------------------------------------------------------------------------
(* Properties; those of Standalone and Mkdir are used as they are *)

\* Type invariant of the parts.  Program: its options and the state of its loop
\* fit together (standalone.c:212).  Processes: each stands behind a slash of its
\* pathname (pathcomp.c:384), and files are in directories.  Evaluation: without
\* an interpreter (interpreter.c:44) there are no metatables.
AllTypeOK ==
  CASE part = "program" -> TypeOK
    [] part = "mkdir"   -> DirTypeOK
    [] part = "eval"    -> E!TypeOK

\* Every block of memory belongs to the cached result of one value of one
\* composer, whatever was cloned, replaced, evaluated or freed (value.c:167): none
\* is lost and none is freed twice.  Nor is anything left on the Lua stack between
\* calls, whatever path evaluations took, through errors and nested blocks, which
\* interpreter.c:48 asserts.
NothingLeft == part = "eval" => E!OneOwner /\ E!StackEmpty

\* pathcomp_eval returns what the attribute stands for now, after any calls: a
\* cached result is never a stale one, and a failed evaluation leaves none
\* (value.c:144).  pathcomp_yield joins what root and compose stand for with a slash,
\* as long as compose does not read a root that is a Lua block itself
\* (pathcomp.c:264); with one of them it returns what pathcomp.h:134-137 says:
\* compose alone, or root with a slash after it, which README.md:525 leaves out.
EvalAgrees == part = "eval" => E!EvalAgrees /\ E!YieldJoins

\* The program ends, whatever the options, and pathcomp_mkdir returns, whatever
\* the other processes do (standalone.c:215, pathcomp.c:384).
AllReturn == Ends /\ MkdirReturns
=============================================================================
