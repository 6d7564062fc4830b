-------------------------------- MODULE Mkdir --------------------------------
(***************************************************************************)
(* Processes that call pathcomp_mkdir (src/pathcomp.c) at the same time on *)
(* one file system, in which others create files and remove directories.   *)
(* One action is one iteration of the loop of pathcomp_mkdir, since each   *)
(* makes one system call.                                                  *)
(***************************************************************************)
EXTENDS Filesystem

CONSTANTS Procs,
          Paths,        \* pathnames that pathcomp_yield returns; NoPath is one
          Disks,        \* file systems to begin with
          NoPath

ASSUME PathsAssumption == Paths \ {NoPath} \subseteq Seq(Atom)

ASSUME DisksAssumption == \A s \in Disks : s \in FileSystems /\ Sound(s)

VARIABLES disk,
          call,         \* per process: state, pathname, characters passed, result
          removed       \* per process: a directory has gone since its call began

dirvars == <<disk, call, removed>>

Asked == UNION {Leading(path) : path \in Paths \ {NoPath}}

Idle == [state |-> "idle", path |-> NoPath, at |-> 0, rc |-> 0]

DirInit ==
  /\ disk \in Disks
  /\ call = [p \in Procs |-> Idle]
  /\ removed = [p \in Procs |-> FALSE]

\* pathcomp_mkdir is called and has its pathname; *p with a null pointer ends
\* the process.
Begin(p, path) ==
  /\ call[p].state \in {"idle", "returned"}
  /\ call' = [call EXCEPT ![p] =
       [state |-> IF path = NoPath THEN "crashed" ELSE "running",
        path  |-> path,
        at    |-> 0,
        rc    |-> 0]]
  /\ removed' = [removed EXCEPT ![p] = FALSE]
  /\ UNCHANGED disk

\* Defective: skips a character after the slash.
MakeNext_skip(p) ==
  /\ call[p].state = "running"
  /\ Stops(call[p].path, call[p].at) # {}
  /\ LET k == Seek(call[p].path, call[p].at)
         q == Cut(call[p].path, k)
     IN  /\ disk' = mkdir(disk, q)
         /\ call' = IF Fails(disk, q)
                    THEN [call EXCEPT ![p].state = "returned", ![p].rc = -1]
                    ELSE [call EXCEPT ![p].at = k + 1]
  /\ UNCHANGED removed

MakeNext(p) ==
  /\ call[p].state = "running"
  /\ Stops(call[p].path, call[p].at) # {}
  /\ LET k == Seek(call[p].path, call[p].at)
         q == Cut(call[p].path, k)
     IN  /\ disk' = mkdir(disk, q)
         /\ call' = IF Fails(disk, q)
                    THEN [call EXCEPT ![p].state = "returned", ![p].rc = -1]
                    ELSE [call EXCEPT ![p].at = k]
  /\ UNCHANGED removed

\* Defective: begins again at the end of the pathname.
Finish_again(p) ==
  /\ call[p].state = "running"
  /\ Stops(call[p].path, call[p].at) = {}
  /\ call' = [call EXCEPT ![p].at = 0]
  /\ UNCHANGED <<disk, removed>>

\* The end of the pathname.
Finish(p) ==
  /\ call[p].state = "running"
  /\ Stops(call[p].path, call[p].at) = {}
  /\ call' = [call EXCEPT ![p].state = "returned"]
  /\ UNCHANGED <<disk, removed>>

\* Others create a file, or remove an empty directory.
Touch(q) ==
  /\ ~IsDir(disk, q) /\ q \notin disk.files
  /\ IsDir(disk, Parent(q))
  /\ disk' = [disk EXCEPT !.files = @ \cup {q}]
  /\ UNCHANGED <<call, removed>>

Rmdir(q) ==
  /\ q \in disk.dirs
  /\ \A r \in disk.dirs \cup disk.files : Parent(r) # q
  /\ disk' = [disk EXCEPT !.dirs = @ \ {q}]
  /\ removed' = [p \in Procs |-> TRUE]
  /\ UNCHANGED call

DirNext ==
  \/ \E p \in Procs :
       \/ \E path \in Paths : Begin(p, path)
       \/ MakeNext(p)
       \/ Finish(p)
  \/ \E q \in Asked : Touch(q) \/ Rmdir(q)

DirSpec == DirInit /\ [][DirNext]_dirvars /\ \A p \in Procs : WF_dirvars(MakeNext(p) \/ Finish(p))

-----------------------------------------------------------------------------
(* Properties *)

\* Type invariant: every directory and file is in a directory, and a call of
\* pathcomp_mkdir stands at the beginning of its pathname or behind a slash.
DirTypeOK ==
  /\ disk \in FileSystems /\ Sound(disk)
  /\ call \in [Procs -> [state : {"idle", "running", "returned", "crashed"},
                         path : Paths \cup {NoPath}, at : Nat, rc : {0, -1}]]
  /\ removed \in [Procs -> BOOLEAN]
  /\ \A p \in Procs :
       /\ call[p].state \in {"running", "returned"} => call[p].path # NoPath
       /\ call[p].at > 0 => call[p].at <= Len(call[p].path) /\ call[p].path[call[p].at] = "/"

Returned(p, rc) == call[p].state = "returned" /\ call[p].rc = rc

\* A call that returned 0 has made or found every leading directory, however
\* many others were making the same ones, as long as none was removed; but the
\* last of them may be a file (pathcomp.c:388 takes any EEXIST for success).
MakesAll ==
  \A p \in Procs :
    Returned(p, 0) /\ ~removed[p] =>
      LET dirs == Leading(call[p].path)
      IN  \A d \in dirs : IsDir(disk, d) \/ (d \in disk.files /\ \A e \in dirs : Parent(e) # d)

\* A call fails only when something is in the way: a file, a directory in which
\* nothing can be created, or a removal.  That another process makes the same
\* directory first is no failure (README.md:618).
FailsForCause ==
  \A p \in Procs :
    Returned(p, -1) /\ ~removed[p] =>
      \E d \in Leading(call[p].path) : d \in disk.files \/ Parent(d) \in disk.locked

\* Only directories before the last slash are made (README.md:624).
OnlyLeading ==
  [][\A p \in Procs : MakeNext(p) => disk'.dirs \ disk.dirs \subseteq Leading(call[p].path)]_dirvars

\* Every call returns.
MkdirReturns == \A p \in Procs : call[p].state = "running" ~> call[p].state = "returned"

\* include/pathcomp.h: "0 if the directory has been made successfully".
ZeroMeansMade ==
  \A p \in Procs :
    Returned(p, 0) /\ ~removed[p] => \A d \in Leading(call[p].path) : IsDir(disk, d)

\* README.md: "returns 0 if the directory was made successfully, and -1
\* otherwise": no call ends in any other way.
AlwaysReturns == \A p \in Procs : call[p].state # "crashed"
=============================================================================
