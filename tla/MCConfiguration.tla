---------------------------- MODULE MCConfiguration ----------------------------
(***************************************************************************)
(* What happens to a configuration on its way into a composer, on small    *)
(* instances.  A behaviour exercises one part: the string buffers, the     *)
(* reader of configuration text, or the loading of its sections.  The      *)
(* variables of the other parts keep the value they have at first.         *)
(***************************************************************************)
EXTENDS MCLoadConfig, MCCfDocument, BufUse

VARIABLE part

allvars == <<part, vars, dvars, bufvars>>

AllInit ==
  /\ part \in {"buf", "cf", "load"}
  /\ DInit /\ BufInit
  /\ IF part = "load" THEN Init
     ELSE /\ config = << >>
          /\ class = CHOOSE c \in Classes : TRUE
          /\ attributes = << >> /\ stack = << >> /\ crashed = FALSE

Busy ==
  CASE part = "buf"  -> ~Idle
    [] part = "cf"   -> loop # "idle"
    [] part = "load" -> Running

\* The client may stop between calls; that a call stops is a deadlock.
Stopped == ~Busy /\ UNCHANGED <<vars, dvars, bufvars>>

AllNext ==
  /\ UNCHANGED part
  /\ \/ part = "buf" /\ BufNext /\ UNCHANGED <<vars, dvars>>
     \/ part = "cf" /\ DNext /\ UNCHANGED <<vars, bufvars>>
     \/ part = "load" /\ Next /\ UNCHANGED <<dvars, bufvars>>
     \/ Stopped

\* The steps that go on with a call that has begun; one of them can be taken as
\* long as the part is busy.
GoesOn ==
  \/ part = "buf" /\ Answered
  \/ part = "cf" /\ Read
  \/ part = "load" /\ Next

Pending == IF part = "load" THEN Acyclic(config) /\ ~Returned ELSE Busy

\* The fairness of BufUse, CfDocument and LoadConfig: such a call keeps running.
AllSpec ==
  AllInit /\ [][AllNext]_allvars /\ ([]<>~Busy \/ []<><<GoesOn>>_allvars)

-----------------------------------------------------------------------------
(* Properties; those of LoadConfig, Cf, CfDocument and BufUse are used as they are *)

\* Type invariant of the parts.  Buffers: each has room for its text and the
\* terminating null (buf.c:130).  Reader: it stays in its text, also after
\* buf_ungetc (cf.c:145).  Loading: attributes have different names, each a value
\* and its cursor on the first (pathcomp.c:111).
AllTypeOK ==
  CASE part = "buf"  -> BufTypeOK
    [] part = "cf"   -> CfTypeOK
    [] part = "load" -> TypeOK

\* Every call returns: a read when the file ends, however the system cuts it up
\* and however often it has to be tried again (buf.c:220); the reader at the end
\* of every text, where buf_ungetc does not make it go round in circles
\* (cf.c:145); loading, without exhausting the stack, when no class inherits from
\* itself (pathcomp.c:140).
CallsReturn == Pending ~> ~Pending
=============================================================================
