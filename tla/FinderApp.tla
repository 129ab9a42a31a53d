----------------------------- MODULE FinderApp -----------------------------
(***************************************************************************)
(* finder-app: finder-test.sh writes NUMFILES files with writer (writer.c), *)
(* counts files and matches with finder.sh and compares.                    *)
(*                                                                         *)
(* One run follows the other, and finds what those before left behind when  *)
(* they failed or were killed.  A file is a path and its bytes.  The script *)
(* makes the directory, as assignment.txt names a later assignment than the *)
(* first.                                                                   *)
(***************************************************************************)
EXTENDS Integers, FiniteSets, SequencesExt, Functions

CONSTANTS
  ROOT,        \* /tmp/aeld-data, the default WRITEDIR
  Subdirs,     \* the directories in it a run may be given instead, with names
               \* of one word for the shell
  Strings,     \* the WRITESTRs, sequences of characters
  Plain,       \* those grep takes as they are: no pattern, no option
  MAXFILES,    \* bound: the largest NUMFILES
  FileFaults   \* among "OPEN", "WRITE", "KILL"

ASSUME FinderAssumption ==
  /\ ROOT \notin Subdirs /\ MAXFILES \in Nat \ {0}
  /\ \A str \in Strings : str \in Seq(Range(str)) \ {<<>>}
  /\ Plain \subseteq Strings

VARIABLES
  dirs,        \* the directories that exist
  tree,        \* the files that exist, and their bytes
  assignment4_result, \* the result file: the counts written last
  run,         \* the shells of the run: where they are, and their variables
  faulted      \* history: a file of this run could not be opened or written

disk       == <<dirs, tree>>
finderVars == <<disk, assignment4_result, run, faulted>>

Dirs  == Subdirs \union {ROOT}
Paths == Dirs \X (1 .. MAXFILES)

(* Between two runs no variable has a value. *)
Finished(code) ==
  [stage |-> "ended", exit |-> code, WRITEDIR |-> ROOT, WRITESTR |-> <<>>,
   NUMFILES |-> 0, i |-> 1, Total_files |-> 0, todo |-> {},
   Lines_matching |-> 0]

Exit(code) == run' = Finished(code)

Proceed(from, to) == run.stage = from /\ run' = [run EXCEPT !.stage = to]

(* The script goes on if the condition holds, and exits with status 1 if it *)
(* does not.                                                                *)
ProceedIf(condition, from, to) ==
  \/ condition /\ Proceed(from, to)
  \/ ~ condition /\ run.stage = from /\ Exit("failure")

-----------------------------------------------------------------------------
(* Files *)

(* A directory and those in it. *)
Below(d) == IF d = ROOT THEN Dirs ELSE {d}

FilesIn(d) == {p \in DOMAIN tree : p[1] \in Below(d)}

(* rm -rf: file by file, and then the directories. *)
RmRf(d, from, to) ==
  /\ \/ /\ run.stage = from
        /\ \E p \in FilesIn(d) : tree' = Restrict(tree, DOMAIN tree \ {p})
        /\ UNCHANGED <<dirs, run>>
     \/ /\ FilesIn(d) = {}
        /\ dirs' = dirs \ Below(d)
        /\ Proceed(from, to)
        /\ UNCHANGED tree
  /\ UNCHANGED <<assignment4_result, faulted>>

(* write at the start of a file: what was longer keeps its end. *)
Overwrite(old, new) == new \o SubSeq(old, Len(new) + 1, Len(old))

(* grep -q: the string anywhere in the file.  One that is not plain, such   *)
(* as "[" or "^a$", is a pattern, an error or an option to it, and may be   *)
(* found or not.                                                            *)
Found(str, bytes) ==
  \E k \in 0 .. Len(bytes) - Len(str) :
    SubSeq(bytes, k + 1, k + Len(str)) = str

GrepAnswers(str, bytes) ==
  IF str \in Plain THEN {Found(str, bytes)} ELSE BOOLEAN

-----------------------------------------------------------------------------
(* finder-test.sh, up to the writing *)

Start ==
  /\ run.stage = "ended"
  /\ \E d \in Dirs, str \in Strings, n \in 1 .. MAXFILES :
       run' = [run EXCEPT !.stage = "remove", !.exit = "none",
                 !.WRITEDIR = d, !.WRITESTR = str, !.NUMFILES = n]
  /\ faulted' = FALSE
  /\ UNCHANGED <<disk, assignment4_result>>

(* rm -rf "${WRITEDIR}".  Faulty variant: it is left out. *)
RemoveForgotten ==
  /\ Proceed("remove", "mkdir")
  /\ UNCHANGED <<disk, assignment4_result, faulted>>

RemoveOld == RmRf(run.WRITEDIR, "remove", "mkdir")

(* mkdir -p "$WRITEDIR" *)
Mkdir ==
  /\ Proceed("mkdir", "test")
  /\ dirs' = dirs \union {ROOT, run.WRITEDIR}
  /\ UNCHANGED <<tree, assignment4_result, faulted>>

(* [ -d "$WRITEDIR" ] *)
TestDirectory ==
  /\ ProceedIf(run.WRITEDIR \in dirs, "test", "open")
  /\ UNCHANGED <<disk, assignment4_result, faulted>>

-----------------------------------------------------------------------------
(* writer, for one file after the other; set -e ends the script with it *)

Writerfile == <<run.WRITEDIR, run.i>>

(* open(writerfile, O_CREAT | O_WRONLY, ...): an old file keeps its bytes.  *)
WriterOpen ==
  /\ \/ /\ run.WRITEDIR \in dirs
        /\ tree' = [p \in DOMAIN tree \union {Writerfile} |->
                      IF p \in DOMAIN tree THEN tree[p] ELSE <<>>]
        /\ Proceed("open", "write")
        /\ UNCHANGED faulted
     \/ /\ "OPEN" \in FileFaults
        /\ ProceedIf(FALSE, "open", "write")
        /\ faulted' = TRUE
        /\ UNCHANGED tree
  /\ UNCHANGED <<dirs, assignment4_result>>

(* What write returns is an error if it is not all that was asked for (-1   *)
(* counts as none).  Faulty variant: only -1 is.                            *)
CompleteIfAny(count) == count > 0

Complete(count) == count = Len(run.WRITESTR)

(* for i in $(seq 1 $NUMFILES).  Faulty variant: one file more. *)
OneMoreFile == run.i <= run.NUMFILES

MoreFiles == run.i < run.NUMFILES

(* write, close *)
WriterWrite ==
  /\ run.stage = "write"
  /\ \E count \in IF "WRITE" \in FileFaults THEN 0 .. Len(run.WRITESTR)
                  ELSE {Len(run.WRITESTR)} :
       /\ tree' = [tree EXCEPT
            ![Writerfile] = Overwrite(@, SubSeq(run.WRITESTR, 1, count))]
       /\ faulted' = (count < Len(run.WRITESTR))
       /\ \/ ~ Complete(count) /\ Exit("failure")
          \/ /\ Complete(count) /\ MoreFiles
             /\ run' = [run EXCEPT !.stage = "open", !.i = @ + 1]
          \/ Complete(count) /\ ~ MoreFiles /\ Proceed("write", "check")
  /\ UNCHANGED <<dirs, assignment4_result>>

-----------------------------------------------------------------------------
(* finder.sh *)

CheckDirectory ==
  /\ ProceedIf(run.WRITEDIR \in dirs, "check", "count")
  /\ UNCHANGED <<disk, assignment4_result, faulted>>

(* Total_files=$(find $filesdir -type f | wc -l) *)
CountFiles ==
  /\ run.stage = "count"
  /\ run' = [run EXCEPT !.stage = "list",
               !.Total_files = Cardinality(FilesIn(run.WRITEDIR))]
  /\ UNCHANGED <<disk, assignment4_result, faulted>>

(* The second find: its list is what the loop goes through. *)
ListFiles ==
  /\ run.stage = "list"
  /\ run' = [run EXCEPT !.stage = "grep", !.todo = FilesIn(run.WRITEDIR)]
  /\ UNCHANGED <<disk, assignment4_result, faulted>>

Grep ==
  /\ run.stage = "grep"
  /\ \E p \in run.todo : \E found \in GrepAnswers(run.WRITESTR, tree[p]) :
       run' = [run EXCEPT !.todo = @ \ {p},
                 !.Lines_matching = IF found THEN @ + 1 ELSE @]
  /\ UNCHANGED <<disk, assignment4_result, faulted>>

Counts == <<run.Total_files, run.Lines_matching>>

(* echo "$OUTPUTSTRING" > /tmp/assignment4-result.txt *)
SaveResult ==
  /\ run.todo = {}
  /\ Proceed("grep", "cleanup")
  /\ assignment4_result' = Counts
  /\ UNCHANGED <<disk, faulted>>

-----------------------------------------------------------------------------
(* finder-test.sh, to its end *)

(* rm -rf /tmp/aeld-data.  Faulty variant: it removes WRITEDIR only. *)
LeftOverOwn == run.WRITEDIR

LeftOver == ROOT

CleanUp == RmRf(LeftOver, "cleanup", "compare")

(* grep "${MATCHSTR}": the number at the end of the string may go on. *)
Matches(n, counts) ==
  counts[1] = n /\ (counts[2] = n \/ counts[2] \div 10 = n)

Compare ==
  /\ run.stage = "compare"
  /\ Exit(IF Matches(run.NUMFILES, Counts) THEN "success" ELSE "failure")
  /\ UNCHANGED <<disk, assignment4_result, faulted>>

(* The run is killed, or the power fails, anywhere. *)
Kill ==
  /\ "KILL" \in FileFaults /\ run.stage # "ended"
  /\ Exit("killed")
  /\ UNCHANGED <<disk, assignment4_result, faulted>>

-----------------------------------------------------------------------------

FinderInit ==
  /\ dirs = {} /\ tree = <<>>
  /\ assignment4_result = <<0, 0>>
  /\ run = Finished("none")
  /\ faulted = FALSE

FinderNext ==
  \/ Start \/ RemoveOld \/ Mkdir \/ TestDirectory \/ WriterOpen \/ WriterWrite
  \/ CheckDirectory \/ CountFiles \/ ListFiles \/ Grep \/ SaveResult
  \/ CleanUp \/ Compare \/ Kill

FinderSpec == FinderInit /\ [][FinderNext]_finderVars

-----------------------------------------------------------------------------
(* Properties *)

Stages ==
  {"remove", "mkdir", "test", "open", "write", "check", "count", "list",
   "grep", "cleanup", "compare", "ended"}

FinderTypeOK ==
  /\ dirs \subseteq Dirs /\ (dirs # {} => ROOT \in dirs)
  /\ DOMAIN tree \subseteq Paths
  /\ \A p \in DOMAIN tree : p[1] \in dirs
  /\ run.stage \in Stages
  /\ run.exit \in {"none", "success", "failure", "killed"}
  /\ run.i \in 1 .. MAXFILES /\ run.todo \subseteq Paths
  /\ run.Lines_matching <= run.Total_files
  /\ faulted \in BOOLEAN

(* A run with a plain string whose files can be written succeeds, whatever  *)
(* the runs before it left behind when they were killed or failed, and in   *)
(* whatever directory.                                                      *)
RunSucceeds ==
  [][run'.exit = "failure" => faulted' \/ run.WRITESTR \notin Plain]_run

(* When a run has written its files they hold its string and nothing else,  *)
(* though the writer does not truncate, and there are no others.            *)
FilesExact ==
  run.stage = "check" =>
    /\ FilesIn(run.WRITEDIR) = {run.WRITEDIR} \X (1 .. run.NUMFILES)
    /\ \A p \in FilesIn(run.WRITEDIR) : tree[p] = run.WRITESTR

(* A success leaves the counts it was about in the result file, and no file *)
(* or directory of any run, be it killed.                                   *)
SuccessCleansUp ==
  [][run'.exit = "success" =>
       /\ dirs' = {} /\ tree' = <<>>
       /\ assignment4_result' = <<run.NUMFILES, run.NUMFILES>>]_run
=============================================================================
