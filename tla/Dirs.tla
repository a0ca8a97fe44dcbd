-------------------------------- MODULE Dirs --------------------------------
(***************************************************************************)
(* Gathering the files below a directory, src/src/mod/base/io/dir.c:       *)
(* Dir_Climb hands every entry readdir() gives, in whatever order, to one  *)
(* function for directories and one for files, and keeps what they return  *)
(* in the flags of the directory it is in.  Four uses of it: all of it     *)
(* (Dir_Gather), by extension (Dir_GatherByExt), by extension with the     *)
(* time of the latest file (Dir_GatherSel), and that with directories      *)
(* filtered (Dir_GatherFilterDir), the way the build tool does it: once    *)
(* without the directory of options, once with some below it only.         *)
(***************************************************************************)
EXTENDS Integers, Sequences, SequencesExt

CONSTANTS
  Folders,  (* path of a directory, the root aside, |-> that of its parent *)
  Entries,  (* the files: [dir, name, match (has the extension), time]     *)
  Skip,     (* the path of the directory the first pass leaves out         *)
  Only      (* that of the one the second pass goes into                   *)

Root == <<>>
Everything == {Root} \union DOMAIN Folders

(* A tree: what has the root, and what is in every directory it has, is    *)
(* everything.                                                             *)
ASSUME DirsAssumption ==
  /\ Root \notin DOMAIN Folders
  /\ \A x \in DOMAIN Folders : Folders[x] \in Everything
  /\ \A ds \in SUBSET Everything :
       Root \in ds /\ (\A x \in DOMAIN Folders : Folders[x] \in ds => x \in ds) => ds = Everything
  /\ \A f \in Entries : f.dir \in Everything /\ f.match \in BOOLEAN /\ f.time \in Nat

Uses == {"all", "ext", "sel", "filter"}

VARIABLES
  use,    (* which of the four                                             *)
  pass,   (* the pass of a filtered one                                    *)
  climb,  (* the directories being climbed: their entries left, and flags  *)
  got,    (* dest: what was gathered, in order                             *)
  time    (* sel->time                                                     *)

dirvars == <<use, pass, climb, got, time>>

Listing(d) ==
  {[kind |-> "dir", path |-> c] : c \in {x \in DOMAIN Folders : Folders[x] = d}}
    \union {[kind |-> "file", file |-> f] : f \in {x \in Entries : x.dir = d}}

Frame(d) == [dir |-> d, left |-> Listing(d), noop |-> FALSE]

DirInit ==
  /\ use \in Uses
  /\ pass = 1 /\ climb = <<Frame(Root)>> /\ got = <<>> /\ time = 0

Top == Last(climb)

(* fileIsDescendedOrNot: one of the two texts begins with the other.       *)
StartMatch(a, b) == IsPrefix(a, b) \/ IsPrefix(b, a)

Accepts(n, d) == IF n = 1 THEN ~StartMatch(Skip, d) ELSE StartMatch(Only, d)

(* gatherDir: NOOP for a directory that is filtered out.  The selection of *)
(* the build tool takes no directories (DIR_SELECTOR_NODIRS), that of      *)
(* Dir_GatherSel none either here.                                         *)
Rejected(d) == use = "filter" /\ ~Accepts(pass, d)

(* The next entry is a directory: the flag of the entries before it goes.  *)
OpenDir_Climbs(e) ==
  /\ e.kind = "dir"
  /\ LET here == [Top EXCEPT !.left = @ \ {e}, !.noop = Rejected(e.path)]
     IN  climb' = Append(Front(climb), here) \o <<Frame(e.path)>>
  /\ got' = IF use = "all" THEN Append(got, e) ELSE got
  /\ UNCHANGED <<use, pass, time>>

OpenDir(e) ==
  /\ e.kind = "dir"
  /\ LET here == [Top EXCEPT !.left = @ \ {e}, !.noop = Rejected(e.path)]
     IN  climb' = Append(Front(climb), here) \o IF here.noop THEN <<>> ELSE <<Frame(e.path)>>
  /\ got' = IF use = "all" THEN Append(got, e) ELSE got
  /\ UNCHANGED <<use, pass, time>>

(* gatherFile, gatherFileFiltered (NOOP for one without the extension) and *)
(* gatherFileSel (the time of every file it is given counts).  With NOOP   *)
(* set a file is not given to any.                                         *)
Takes(f) == use = "all" \/ f.match

SeeFile(e) ==
  /\ e.kind = "file"
  /\ LET seen == ~Top.noop
     IN  /\ climb' = Append(Front(climb),
                            [Top EXCEPT !.left = @ \ {e},
                                        !.noop = @ \/ (use = "ext" /\ ~e.file.match)])
         /\ got' = IF seen /\ Takes(e.file) THEN Append(got, e) ELSE got
         /\ time' = IF seen /\ use \in {"sel", "filter"} /\ e.file.time > time
                    THEN e.file.time ELSE time
  /\ UNCHANGED <<use, pass>>

(* The end of a directory: what it came to is not looked at.               *)
CloseDir ==
  /\ climb # <<>> /\ Top.left = {}
  /\ climb' = Front(climb)
  /\ UNCHANGED <<use, pass, got, time>>

(* BuildCtx_ParseDependencies gathers a second time, into the same list.   *)
SecondPass ==
  /\ climb = <<>> /\ use = "filter" /\ pass = 1
  /\ pass' = 2 /\ climb' = <<Frame(Root)>>
  /\ UNCHANGED <<use, got, time>>

DirNext ==
  \/ climb # <<>> /\ \E e \in Top.left : OpenDir(e) \/ SeeFile(e)
  \/ CloseDir
  \/ SecondPass

DirSpec == DirInit /\ [][DirNext]_dirvars
-----------------------------------------------------------------------------
Gathered == ToSet(got)
FilesIn(ds) == {[kind |-> "file", file |-> f] : f \in {x \in Entries : x.dir \in ds}}
Twice(e) == \E i, j \in DOMAIN got : i # j /\ got[i] = e /\ got[j] = e

Latest(es) == CHOOSE t \in {0} \union {e.file.time : e \in es} : \A e \in es : t >= e.file.time

(* Whatever the order of the entries: without a filter everything there is *)
(* to be gathered is, once, and the time is that of the latest file, by    *)
(* which the build tool decides whether a library is old.  With one,       *)
(* nothing is gathered from within a directory the filter leaves out, at   *)
(* any depth, and the time is not older than that of a file gathered.      *)
GatherExact ==
  /\ climb = <<>> /\ use \in {"all", "sel"} =>
       /\ Gathered = {e \in FilesIn(Everything) : Takes(e.file)}
                       \union IF use = "all" THEN UNION {{e \in Listing(d) : e.kind = "dir"} : d \in Everything}
                              ELSE {}
       /\ \A e \in Gathered : ~Twice(e)
       /\ use = "sel" => time = Latest(FilesIn(Everything))
  /\ use = "filter" =>
       \A e \in Gathered :
         /\ e.file.dir = Root \/ Accepts(1, e.file.dir) \/ (pass = 2 /\ Accepts(2, e.file.dir))
         /\ time >= e.file.time

(* The first pass of the build tool finds every source file that is not    *)
(* below the directory it leaves out.                                      *)
FilesFound ==
  use = "filter" /\ pass = 1 /\ climb = <<>> =>
    \A e \in FilesIn({Root} \union {d \in DOMAIN Folders : Accepts(1, d)}) :
      e.file.match => e \in Gathered
=============================================================================
