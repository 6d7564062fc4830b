------------------------------ MODULE Filesystem ------------------------------
(***************************************************************************)
(* The file system as the library sees it through stat(2) and mkdir(2),    *)
(* and the scan of a pathname by pathcomp_mkdir (src/pathcomp.c).          *)
(*                                                                         *)
(* A pathname is a sequence of atoms, "/" among them.  A file system is a  *)
(* record: the directories, the other files, and the directories in which  *)
(* nothing can be created.  Both sets hold normal pathnames.               *)
(***************************************************************************)
EXTENDS Integers, Sequences, FiniteSets

\* A slash, or a part of a name.
Atom == {"/"} \cup STRING

\* The positions of a pathname that matter: slashes at the end do not, and of
\* several in a row one does.
Kept(path) ==
  {i \in DOMAIN path :
     \/ path[i] # "/"
     \/ i = 1
     \/ path[i - 1] # "/" /\ \E j \in i..Len(path) : path[j] # "/"}

\* The i-th element of a set of numbers.
NthOf(K, i) == CHOOSE k \in K : Cardinality({j \in K : j <= k}) = i

Normal(path) == [i \in 1..Cardinality(Kept(path)) |-> path[NthOf(Kept(path), i)]]

\* The directory that a normal pathname is in: the part before its last slash,
\* the root directory, or the working directory.
Parent(q) ==
  LET slashes == {i \in DOMAIN q : q[i] = "/"}
  IN  IF slashes = {} THEN << >>
      ELSE IF slashes = {1} THEN <<"/">>
      ELSE SubSeq(q, 1, (CHOOSE i \in slashes : \A j \in slashes : j <= i) - 1)

IsDir(fs, q) == q \in {<< >>, <<"/">>} \cup fs.dirs

FileSystems ==
  [dirs : SUBSET Seq(Atom), files : SUBSET Seq(Atom), locked : SUBSET Seq(Atom)]

\* Nothing is both a file and a directory, and everything is in a directory.
Sound(fs) ==
  /\ \A q \in fs.files : ~IsDir(fs, q)
  /\ \A q \in fs.dirs \cup fs.files : IsDir(fs, Parent(q))

\* stat(2) finds something; with a slash at the end, only a directory.
path_exists(fs, path) ==
  \/ IsDir(fs, Normal(path))
  \/ Normal(path) \in fs.files /\ path[Len(path)] # "/"

\* What mkdir(2) says, for a normal pathname.
mkdir_errno(fs, q) ==
  CASE IsDir(fs, q) \/ q \in fs.files -> "EEXIST"
    [] /\ ~IsDir(fs, q) /\ q \notin fs.files
       /\ IsDir(fs, Parent(q)) /\ Parent(q) \notin fs.locked -> "OK"
    [] OTHER -> "ENOENT, ENOTDIR or EACCES"

\* What it does.
mkdir(fs, q) ==
  IF mkdir_errno(fs, q) = "OK" THEN [fs EXCEPT !.dirs = @ \cup {q}] ELSE fs

-----------------------------------------------------------------------------
(* The loop of pathcomp_mkdir *)

\* Defective: takes the end of the pathname for a slash.
Stops_whole(path, at) ==
  {k \in (at + 2)..(Len(path) + 1) : path[k - 1] # "/" /\ (k > Len(path) \/ path[k] = "/")}

\* Defective: stops after the first directory.
Stops_first(path, at) ==
  {k \in 2..Len(path) : at = 0 /\ path[k] = "/" /\ path[k - 1] # "/"}

\* The slashes that end a component, after the first at characters.
Stops(path, at) == {k \in (at + 2)..Len(path) : path[k] = "/" /\ path[k - 1] # "/"}

\* The loop skips slashes, and then goes to the slash after the component.
Seek(path, at) == CHOOSE k \in Stops(path, at) : \A j \in Stops(path, at) : k <= j

\* The pathname up to a slash, as mkdir(2) takes it.
Cut(path, k) == Normal(SubSeq(path, 1, k - 1))

\* Defective: ignores all errors.
Fails_never(fs, q) == FALSE

\* Defective: takes EEXIST for an error.
Fails_strict(fs, q) == mkdir_errno(fs, q) # "OK"

\* mkdir(2) fails, and not because the name exists.
Fails(fs, q) == mkdir_errno(fs, q) \notin {"OK", "EEXIST"}

\* The directories up to the last slash.
Leading(path) ==
  {Cut(path, k) : k \in {k \in 2..Len(path) : path[k] = "/"}} \ {<<"/">>}
=============================================================================
