-------------------------- MODULE FinderAppProofs --------------------------
(***************************************************************************)
(* For every directory, string, number of files and fault: what a run of    *)
(* finder-test.sh does to the files, how it ends and what it leaves.        *)
(*                                                                         *)
(* Nothing is assumed of what the runs before left behind: all that is kept *)
(* of it is that every file is in a directory that exists.  From the        *)
(* removal on, the files of WRITEDIR are those this run made.               *)
(***************************************************************************)
EXTENDS FinderApp, FiniteSetTheorems, SequenceTheorems, TLAPS

Characters == UNION {Range(str) : str \in Strings}

RunSet ==
  [stage : Stages, exit : {"none", "success", "failure", "killed"},
   WRITEDIR : Dirs, WRITESTR : Strings \union {<<>>},
   NUMFILES : 0 .. MAXFILES, i : 1 .. MAXFILES, Total_files : Nat,
   todo : SUBSET Paths, Lines_matching : Nat]

DiskOK ==
  /\ dirs \subseteq Dirs /\ (dirs # {} => ROOT \in dirs)
  /\ tree = [p \in DOMAIN tree |-> tree[p]]
  /\ DOMAIN tree \subseteq Paths
  /\ \A p \in DOMAIN tree : p[1] \in dirs

(* Between two runs no variable has a value; in a run all of them have. *)
RunOK ==
  /\ run \in RunSet
  /\ run.stage = "ended" => run = Finished(run.exit)
  /\ run.stage # "ended" =>
       /\ run.exit = "none"
       /\ run.WRITESTR \in Strings /\ run.NUMFILES # 0
  /\ run.stage \in {"remove", "mkdir", "test"} => run.i = 1
  /\ run.stage \in {"open", "write"} => run.i <= run.NUMFILES

(* The files of WRITEDIR are the first n, and those before the m-th hold    *)
(* the string.                                                              *)
Holds(n, m) ==
  /\ FilesIn(run.WRITEDIR) = {run.WRITEDIR} \X (1 .. n)
  /\ \A j \in 1 .. n : j < m => tree[<<run.WRITEDIR, j>>] = run.WRITESTR

FilesOK ==
  /\ run.stage \in {"mkdir", "test"} => FilesIn(run.WRITEDIR) = {}
  /\ run.stage \in {"test", "open", "write", "check"} => run.WRITEDIR \in dirs
  /\ run.stage = "open" => Holds(run.i - 1, run.i)
  /\ run.stage = "write" => /\ Holds(run.i, run.i)
                            /\ tree[Writerfile] = <<>>
  /\ run.stage \in {"check", "count", "list", "grep"} =>
       Holds(run.NUMFILES, run.NUMFILES + 1)
  /\ run.stage = "compare" => dirs = {} /\ DOMAIN tree = {}

(* Every file is counted, and if the string is plain every file that is     *)
(* still to be searched will be found to match.                             *)
CountsOK ==
  /\ run.stage \in {"remove", "mkdir", "test", "open", "write", "check", "count"} =>
       run.Total_files = 0
  /\ run.stage \in {"remove", "mkdir", "test", "open", "write", "check", "count", "list"} =>
       run.Lines_matching = 0
  /\ run.stage \in {"list", "grep", "cleanup", "compare"} =>
       run.Total_files = run.NUMFILES
  /\ run.stage = "grep" =>
       /\ run.todo \subseteq FilesIn(run.WRITEDIR)
       /\ run.Lines_matching + Cardinality(run.todo) <= run.NUMFILES
       /\ run.WRITESTR \in Plain =>
            run.Lines_matching + Cardinality(run.todo) = run.NUMFILES
  /\ run.stage \in {"cleanup", "compare"} =>
       /\ run.Lines_matching <= run.NUMFILES
       /\ run.WRITESTR \in Plain => run.Lines_matching = run.NUMFILES
       /\ assignment4_result = <<run.NUMFILES, run.Lines_matching>>

FinderInv ==
  /\ DiskOK /\ RunOK /\ FilesOK /\ CountsOK
  /\ faulted \in BOOLEAN

-----------------------------------------------------------------------------
(* Lemmas about the operators *)

LEMMA StringsAreSequences == Strings \subseteq Seq(Characters) \ {<<>>}
<1> SUFFICES ASSUME NEW str \in Strings
             PROVE  str \in Seq(Characters) \ {<<>>}
  OBVIOUS
<1>1. str \in Seq(Range(str)) \ {<<>>}
  BY FinderAssumption
<1>2. Range(str) \subseteq Characters
  BY DEF Characters
<1> QED
  BY <1>1, <1>2

(* A string written to an empty file is its contents, and grep finds it.    *)
LEMMA WrittenWhole ==
  ASSUME NEW S, NEW str \in Seq(S)
  PROVE  /\ Overwrite(<<>>, SubSeq(str, 1, Len(str))) = str
         /\ Found(str, str)
<1>1. SubSeq(str, 1, Len(str)) = str /\ Len(str) \in Nat
  OBVIOUS
<1>2. SubSeq(<<>>, Len(str) + 1, 0) = <<>>
  BY <1>1
<1>3. str \o <<>> = str
  OBVIOUS
<1>4. Overwrite(<<>>, str) = str
  BY <1>1, <1>2, <1>3 DEF Overwrite
<1>5. /\ 0 \in 0 .. Len(str) - Len(str)
      /\ SubSeq(str, 0 + 1, 0 + Len(str)) = str
  BY <1>1
<1>6. Found(str, str)
  BY <1>5 DEF Found
<1> QED
  BY <1>1, <1>4, <1>6

(* Files are counted as they are numbered. *)
LEMMA FilesCounted ==
  ASSUME NEW d, NEW n \in Nat
  PROVE  /\ IsFiniteSet({d} \X (1 .. n))
         /\ Cardinality({d} \X (1 .. n)) = n
<1>1. IsFiniteSet({d}) /\ Cardinality({d}) = 1
  BY FS_Singleton
<1>2. IsFiniteSet(1 .. n) /\ Cardinality(1 .. n) = n
  BY FS_Interval
<1>3. /\ IsFiniteSet({d} \X (1 .. n))
      /\ Cardinality({d} \X (1 .. n)) = Cardinality({d}) * Cardinality(1 .. n)
  BY <1>1, <1>2, FS_Product
<1> QED
  BY <1>1, <1>2, <1>3

(* rm -rf of ROOT removes every file. *)
LEMMA AllFiles ==
  ASSUME DiskOK
  PROVE  FilesIn(ROOT) = DOMAIN tree
BY DEF DiskOK, FilesIn, Below

LEMMA FilesTyped ==
  ASSUME NEW d \in Dirs, DiskOK
  PROVE  FilesIn(d) \subseteq Paths
BY DEF DiskOK, FilesIn

LEMMA SameFiles ==
  ASSUME UNCHANGED disk, run'.WRITEDIR = run.WRITEDIR
  PROVE  /\ DiskOK => DiskOK'
         /\ FilesIn(run.WRITEDIR)' = FilesIn(run.WRITEDIR)
<1>1. dirs' = dirs /\ tree' = tree
  BY DEF disk
<1> QED
  BY <1>1 DEF DiskOK, FilesIn

-----------------------------------------------------------------------------
(* Every step preserves the invariant *)

LEMMA InvInit == FinderInit => FinderInv
<1> SUFFICES ASSUME FinderInit
             PROVE  FinderInv
  OBVIOUS
<1> USE DEF FinderInit
<1>1. DOMAIN tree = {} /\ tree = [p \in DOMAIN tree |-> tree[p]]
  OBVIOUS
<1>2. DiskOK
  BY <1>1 DEF DiskOK
<1>3. RunOK
  BY FinderAssumption DEF RunOK, RunSet, Finished, Stages, Dirs
<1>4. FilesOK /\ CountsOK
  BY DEF FilesOK, CountsOK, Finished
<1> QED
  BY <1>2, <1>3, <1>4 DEF FinderInv

(* A run that ends leaves no variable behind. *)
LEMMA InvExit ==
  ASSUME FinderInv, NEW code \in {"success", "failure", "killed"}, Exit(code),
         DiskOK', faulted' \in BOOLEAN
  PROVE  FinderInv'
<1> USE DEF Exit
<1>1. run' = Finished(code) /\ run'.stage = "ended" /\ run'.exit = code
  BY DEF Finished
<1>2. RunOK'
  BY <1>1, FinderAssumption DEF RunOK, RunSet, Finished, Stages, Dirs
<1>3. FilesOK' /\ CountsOK'
  BY <1>1 DEF FilesOK, CountsOK
<1> QED
  BY <1>2, <1>3 DEF FinderInv

LEMMA InvStart ==
  ASSUME FinderInv, Start
  PROVE  FinderInv'
<1>1. PICK d \in Dirs, str \in Strings, n \in 1 .. MAXFILES :
        run' = [run EXCEPT !.stage = "remove", !.exit = "none",
                  !.WRITEDIR = d, !.WRITESTR = str, !.NUMFILES = n]
  BY DEF Start
<1>2. /\ run = Finished(run.exit) /\ run \in RunSet
      /\ UNCHANGED disk /\ faulted' = FALSE
  BY DEF Start, FinderInv, RunOK
<1>3. /\ run'.stage = "remove" /\ run'.exit = "none" /\ run'.i = 1
      /\ run'.WRITEDIR = d /\ run'.WRITESTR = str /\ run'.NUMFILES = n
      /\ run'.Total_files = 0 /\ run'.Lines_matching = 0
  BY <1>1, <1>2 DEF Finished
<1>4. DiskOK'
  BY <1>2 DEF disk, FinderInv, DiskOK
<1>5. run' \in RunSet
  <2>1. /\ str \in Strings \union {<<>>} /\ n \in 0 .. MAXFILES
        /\ "remove" \in Stages
    BY FinderAssumption DEF Stages
  <2> QED
    BY <1>1, <1>2, <2>1 DEF RunSet
<1>6. RunOK'
  BY <1>3, <1>5 DEF RunOK
<1>7. FilesOK' /\ CountsOK'
  BY <1>3 DEF FilesOK, CountsOK
<1> QED
  BY <1>2, <1>4, <1>6, <1>7 DEF FinderInv

(* One file less: nothing is said of the files while they are removed. *)
LEMMA RemoveOneFile ==
  ASSUME FinderInv, run.stage \in {"remove", "cleanup"},
         NEW p, tree' = Restrict(tree, DOMAIN tree \ {p}),
         UNCHANGED <<dirs, run, assignment4_result, faulted>>
  PROVE  FinderInv'
<1>1. /\ DOMAIN tree' = DOMAIN tree \ {p}
      /\ tree' = [q \in DOMAIN tree \ {p} |-> tree[q]]
  BY DEF Restrict
<1>2. DiskOK'
  BY <1>1 DEF DiskOK, FinderInv
<1>3. RunOK' /\ CountsOK'
  BY DEF FinderInv, RunOK, CountsOK
<1>4. FilesOK'
  BY DEF FilesOK
<1> QED
  BY <1>2, <1>3, <1>4 DEF FinderInv

(* The directories, when there is no file in them any more. *)
LEMMA DirectoriesRemoved ==
  ASSUME DiskOK, NEW d \in Dirs, FilesIn(d) = {},
         dirs' = dirs \ Below(d), UNCHANGED tree
  PROVE  DiskOK'
<1>1. \A p \in DOMAIN tree : p[1] \in dirs \ Below(d)
  BY DEF DiskOK, FilesIn
<1>2. dirs' # {} => ROOT \in dirs'
  BY DEF DiskOK, Below
<1> QED
  BY <1>1, <1>2 DEF DiskOK

LEMMA InvRemoveOld ==
  ASSUME FinderInv, RemoveOld
  PROVE  FinderInv'
<1>1. UNCHANGED <<assignment4_result, faulted>>
  BY DEF RemoveOld, RmRf
<1>2. run \in RunSet /\ DiskOK
  BY DEF FinderInv, RunOK
<1>3. CASE /\ run.stage = "remove"
           /\ \E p \in FilesIn(run.WRITEDIR) :
                tree' = Restrict(tree, DOMAIN tree \ {p})
           /\ UNCHANGED <<dirs, run>>
  BY <1>1, <1>3, RemoveOneFile
<1>4. CASE /\ FilesIn(run.WRITEDIR) = {}
           /\ dirs' = dirs \ Below(run.WRITEDIR)
           /\ Proceed("remove", "mkdir")
           /\ UNCHANGED tree
  <2>1. /\ run.stage = "remove" /\ run' = [run EXCEPT !.stage = "mkdir"]
        /\ run'.stage = "mkdir" /\ run'.WRITEDIR = run.WRITEDIR
        /\ run' \in RunSet
    BY <1>2, <1>4 DEF Proceed, RunSet, Stages
  <2>2. DiskOK'
    BY <1>2, <1>4, DirectoriesRemoved DEF RunSet
  <2>3. RunOK' /\ CountsOK'
    BY <1>1, <1>2, <2>1 DEF FinderInv, RunOK, CountsOK, RunSet
  <2>4. FilesIn(run.WRITEDIR)' = {}
    BY <1>4, <2>1 DEF FilesIn
  <2>5. FilesOK'
    BY <2>1, <2>4 DEF FilesOK
  <2> QED
    BY <1>1, <2>2, <2>3, <2>5 DEF FinderInv
<1> QED
  BY <1>3, <1>4 DEF RemoveOld, RmRf

LEMMA InvMkdir ==
  ASSUME FinderInv, Mkdir
  PROVE  FinderInv'
<1>1. run \in RunSet /\ DiskOK
  BY DEF FinderInv, RunOK
<1>2. /\ run.stage = "mkdir" /\ run' = [run EXCEPT !.stage = "test"]
      /\ run'.stage = "test" /\ run'.WRITEDIR = run.WRITEDIR
      /\ run' \in RunSet
      /\ dirs' = dirs \union {ROOT, run.WRITEDIR}
      /\ UNCHANGED <<tree, assignment4_result, faulted>>
  BY <1>1 DEF Mkdir, Proceed, RunSet, Stages
<1>3. DiskOK'
  BY <1>1, <1>2 DEF DiskOK, Dirs, RunSet
<1>4. RunOK' /\ CountsOK'
  BY <1>1, <1>2 DEF FinderInv, RunOK, CountsOK, RunSet
<1>5. FilesIn(run.WRITEDIR)' = {}
  BY <1>2 DEF FilesIn, FinderInv, FilesOK
<1>6. FilesOK'
  BY <1>2, <1>5 DEF FilesOK
<1> QED
  BY <1>2, <1>3, <1>4, <1>6 DEF FinderInv

(* The directory was made, so the test finds it. *)
LEMMA InvTestDirectory ==
  ASSUME FinderInv, TestDirectory
  PROVE  FinderInv'
<1>1. /\ run \in RunSet /\ DiskOK /\ run.stage = "test"
      /\ UNCHANGED <<dirs, tree, assignment4_result, faulted>>
  BY DEF FinderInv, RunOK, TestDirectory, ProceedIf, Proceed, disk
<1>2. /\ run.WRITEDIR \in dirs /\ FilesIn(run.WRITEDIR) = {}
      /\ run.i = 1 /\ run.NUMFILES \in 1 .. MAXFILES
  BY <1>1 DEF FinderInv, FilesOK, RunOK, RunSet
<1>3. /\ run' = [run EXCEPT !.stage = "open"]
      /\ run'.stage = "open" /\ run'.WRITEDIR = run.WRITEDIR
      /\ run'.i = 1 /\ run'.NUMFILES = run.NUMFILES
      /\ run' \in RunSet
  BY <1>1, <1>2 DEF TestDirectory, ProceedIf, Proceed, RunSet, Stages
<1>4. DiskOK'
  BY <1>1 DEF DiskOK
<1>5. RunOK'
  BY <1>1, <1>2, <1>3 DEF FinderInv, RunOK, RunSet
<1>6. CountsOK'
  BY <1>1, <1>3 DEF FinderInv, CountsOK, RunSet
<1>7. Holds(run.i - 1, run.i)'
  <2>1. FilesIn(run.WRITEDIR)' = {}
    BY <1>1, <1>2, <1>3 DEF FilesIn
  <2>2. {run.WRITEDIR} \X (1 .. 0) = {}
    OBVIOUS
  <2> QED
    BY <1>3, <2>1, <2>2 DEF Holds
<1>8. FilesOK'
  BY <1>1, <1>2, <1>3, <1>7 DEF FilesOK
<1> QED
  BY <1>1, <1>4, <1>5, <1>6, <1>8 DEF FinderInv

-----------------------------------------------------------------------------
(* The files are written *)

LEMMA InvWriterOpen ==
  ASSUME FinderInv, WriterOpen
  PROVE  FinderInv'
<1>1. /\ run \in RunSet /\ DiskOK /\ run.stage = "open"
      /\ UNCHANGED <<dirs, assignment4_result>>
  BY DEF FinderInv, RunOK, WriterOpen, ProceedIf, Proceed
<1>2. CASE /\ run.WRITEDIR \in dirs
           /\ tree' = [p \in DOMAIN tree \union {Writerfile} |->
                         IF p \in DOMAIN tree THEN tree[p] ELSE <<>>]
           /\ Proceed("open", "write")
           /\ UNCHANGED faulted
  <2>1. /\ run' = [run EXCEPT !.stage = "write"]
        /\ run'.stage = "write" /\ run'.WRITEDIR = run.WRITEDIR
        /\ run'.WRITESTR = run.WRITESTR
        /\ run'.i = run.i /\ run'.NUMFILES = run.NUMFILES
        /\ run' \in RunSet
    BY <1>1, <1>2 DEF Proceed, RunSet, Stages
  <2>2. /\ Holds(run.i - 1, run.i)
        /\ run.i \in 1 .. MAXFILES /\ run.i <= run.NUMFILES
        /\ run.WRITEDIR \in Dirs
    BY <1>1 DEF FinderInv, FilesOK, RunOK, RunSet
  (* The file is a new one: those there are have smaller numbers. *)
  <2>3. /\ Writerfile \notin DOMAIN tree /\ Writerfile \in Paths
        /\ Writerfile[1] = run.WRITEDIR
    <3>1. Writerfile \notin {run.WRITEDIR} \X (1 .. run.i - 1)
      BY <2>2 DEF Writerfile
    <3>2. Writerfile[1] \in Below(run.WRITEDIR)
      BY <2>2 DEF Writerfile, Below, Dirs
    <3> QED
      BY <2>2, <3>1, <3>2 DEF Holds, FilesIn, Writerfile, Paths
  <2>4. /\ DOMAIN tree' = DOMAIN tree \union {Writerfile}
        /\ tree' = [p \in DOMAIN tree \union {Writerfile} |->
                      IF p = Writerfile THEN <<>> ELSE tree[p]]
    BY <1>2, <2>3
  <2>5. DiskOK'
    BY <1>1, <1>2, <2>3, <2>4 DEF DiskOK
  <2>6. RunOK' /\ CountsOK'
    BY <1>1, <1>2, <2>1 DEF FinderInv, RunOK, CountsOK, RunSet
  <2>7. FilesIn(run.WRITEDIR)' = {run.WRITEDIR} \X (1 .. run.i)
    <3>1. FilesIn(run.WRITEDIR)' = FilesIn(run.WRITEDIR) \union {Writerfile}
      BY <1>1, <2>1, <2>2, <2>3, <2>4 DEF FilesIn, Below, Dirs
    <3>2. \A d, n : n \in Nat \ {0} =>
            ({d} \X (1 .. n - 1)) \union {<<d, n>>} = {d} \X (1 .. n)
      <4> SUFFICES ASSUME NEW d, NEW n \in Nat \ {0}
                   PROVE  ({d} \X (1 .. n - 1)) \union {<<d, n>>} = {d} \X (1 .. n)
        OBVIOUS
      <4>1. 1 .. n = (1 .. n - 1) \union {n}
        OBVIOUS
      <4> QED
        BY <4>1
    <3> QED
      BY <2>2, <3>1, <3>2 DEF Holds, Writerfile
  <2>8. /\ tree'[<<run.WRITEDIR, run.i>>] = <<>>
        /\ \A j \in 1 .. run.i - 1 : tree'[<<run.WRITEDIR, j>>] = run.WRITESTR
    <3>1. \A j \in 1 .. run.i - 1 :
            /\ tree[<<run.WRITEDIR, j>>] = run.WRITESTR
            /\ <<run.WRITEDIR, j>> \in DOMAIN tree
            /\ <<run.WRITEDIR, j>> # Writerfile
      BY <2>2 DEF Holds, FilesIn, Writerfile
    <3> QED
      BY <2>4, <3>1 DEF Writerfile
  <2>9. Holds(run.i, run.i)' /\ (tree[Writerfile] = <<>>)'
    <3>1. \A j \in 1 .. run.i : j < run.i => j \in 1 .. run.i - 1
      BY <2>2
    <3> QED
      BY <2>1, <2>7, <2>8, <3>1 DEF Holds, Writerfile
  <2>10. FilesOK'
    BY <1>1, <1>2, <2>1, <2>9 DEF FilesOK
  <2> QED
    BY <1>2, <2>5, <2>6, <2>10 DEF FinderInv
<1>3. CASE /\ ProceedIf(FALSE, "open", "write")
           /\ faulted' = TRUE
           /\ UNCHANGED tree
  <2>1. Exit("failure")
    BY <1>3 DEF ProceedIf
  <2>2. DiskOK'
    BY <1>1, <1>3 DEF DiskOK
  <2> QED
    BY <1>3, <2>1, <2>2, InvExit
<1> QED
  BY <1>2, <1>3 DEF WriterOpen

LEMMA InvWriterWrite ==
  ASSUME FinderInv, WriterWrite
  PROVE  FinderInv'
<1>1. /\ run \in RunSet /\ DiskOK /\ run.stage = "write"
      /\ UNCHANGED <<dirs, assignment4_result>>
  BY DEF FinderInv, RunOK, WriterWrite
<1>2. /\ Holds(run.i, run.i) /\ tree[Writerfile] = <<>>
      /\ run.WRITEDIR \in dirs
      /\ run.i \in 1 .. MAXFILES /\ run.NUMFILES \in 1 .. MAXFILES
      /\ run.i <= run.NUMFILES
      /\ run.WRITESTR \in Seq(Characters) \ {<<>>}
  BY <1>1, StringsAreSequences DEF FinderInv, FilesOK, RunOK, RunSet
<1>3. Len(run.WRITESTR) \in Nat
  BY <1>2
<1>4. PICK count \in 0 .. Len(run.WRITESTR) :
       /\ tree' = [tree EXCEPT
            ![Writerfile] = Overwrite(@, SubSeq(run.WRITESTR, 1, count))]
       /\ faulted' = (count < Len(run.WRITESTR))
       /\ \/ ~ Complete(count) /\ Exit("failure")
          \/ /\ Complete(count) /\ MoreFiles
             /\ run' = [run EXCEPT !.stage = "open", !.i = @ + 1]
          \/ Complete(count) /\ ~ MoreFiles /\ Proceed("write", "check")
  <2>1. /\ Len(run.WRITESTR) \in 0 .. Len(run.WRITESTR)
        /\ (IF "WRITE" \in FileFaults THEN 0 .. Len(run.WRITESTR)
            ELSE {Len(run.WRITESTR)}) \subseteq 0 .. Len(run.WRITESTR)
    BY <1>3
  <2> QED
    BY <2>1 DEF WriterWrite
<1>5. DOMAIN tree' = DOMAIN tree /\ DiskOK'
  BY <1>1, <1>4 DEF DiskOK
<1>6. faulted' \in BOOLEAN
  BY <1>4
<1>7. CASE ~ Complete(count) /\ Exit("failure")
  BY <1>5, <1>6, <1>7, InvExit
(* All of the string is in the file, and the files before it are as they    *)
(* were.                                                                    *)
<1>8. ASSUME Complete(count)
      PROVE  \A j \in 1 .. run.i :
               tree'[<<run.WRITEDIR, j>>] = run.WRITESTR
  <2>1. tree' = [tree EXCEPT ![Writerfile] = run.WRITESTR]
    <3>1. Overwrite(<<>>, SubSeq(run.WRITESTR, 1, count)) = run.WRITESTR
      BY <1>2, <1>8, WrittenWhole DEF Complete
    <3> QED
      BY <1>2, <1>4, <3>1
  <2>2. \A j \in 1 .. run.i : <<run.WRITEDIR, j>> \in DOMAIN tree
    BY <1>2 DEF Holds, FilesIn
  <2> QED
    BY <1>2, <2>1, <2>2 DEF Holds, Writerfile
<1>9. run'.WRITEDIR = run.WRITEDIR => FilesIn(run.WRITEDIR)' = FilesIn(run.WRITEDIR)
  BY <1>5 DEF FilesIn
<1>10. CASE /\ Complete(count) /\ run.i < run.NUMFILES
            /\ run' = [run EXCEPT !.stage = "open", !.i = @ + 1]
  <2>1. /\ run'.stage = "open" /\ run'.i = run.i + 1
        /\ run'.WRITEDIR = run.WRITEDIR /\ run'.WRITESTR = run.WRITESTR
        /\ run'.NUMFILES = run.NUMFILES /\ run'.exit = run.exit
        /\ run'.Total_files = run.Total_files
        /\ run'.Lines_matching = run.Lines_matching
    BY <1>1, <1>10 DEF RunSet
  <2>2. run.i + 1 \in 1 .. MAXFILES /\ "open" \in Stages
    BY <1>2, <1>10, FinderAssumption DEF Stages
  <2>3. run' \in RunSet
    BY <1>1, <1>10, <2>2 DEF RunSet
  <2>4. RunOK'
    BY <1>1, <1>2, <1>10, <2>1, <2>3 DEF FinderInv, RunOK
  <2>5. CountsOK'
    BY <1>1, <2>1 DEF FinderInv, CountsOK
  <2>6. Holds(run.i - 1, run.i)'
    BY <1>2, <1>8, <1>9, <1>10, <2>1 DEF Holds
  <2>7. FilesOK'
    BY <1>1, <1>2, <2>1, <2>6 DEF FilesOK
  <2> QED
    BY <1>5, <1>6, <2>4, <2>5, <2>7 DEF FinderInv
<1>11. CASE /\ Complete(count) /\ run.i = run.NUMFILES
            /\ Proceed("write", "check")
  <2>1. /\ run' = [run EXCEPT !.stage = "check"]
        /\ run'.stage = "check" /\ run'.i = run.i
        /\ run'.WRITEDIR = run.WRITEDIR /\ run'.WRITESTR = run.WRITESTR
        /\ run'.NUMFILES = run.NUMFILES /\ run'.exit = run.exit
        /\ run'.Total_files = run.Total_files
        /\ run'.Lines_matching = run.Lines_matching
    BY <1>1, <1>11 DEF Proceed, RunSet
  <2>2. run' \in RunSet
    BY <1>1, <2>1 DEF RunSet, Stages
  <2>3. RunOK'
    BY <1>1, <2>1, <2>2 DEF FinderInv, RunOK
  <2>4. CountsOK'
    BY <1>1, <2>1 DEF FinderInv, CountsOK
  <2>5. Holds(run.NUMFILES, run.NUMFILES + 1)'
    BY <1>2, <1>8, <1>9, <1>11, <2>1 DEF Holds
  <2>6. FilesOK'
    BY <1>1, <1>2, <2>1, <2>5 DEF FilesOK
  <2> QED
    BY <1>5, <1>6, <2>3, <2>4, <2>6 DEF FinderInv
<1> QED
  BY <1>2, <1>4, <1>7, <1>10, <1>11 DEF MoreFiles

-----------------------------------------------------------------------------
(* The files are counted and searched *)

LEMMA InvCheckDirectory ==
  ASSUME FinderInv, CheckDirectory
  PROVE  FinderInv'
<1>1. /\ run \in RunSet /\ run.stage = "check"
      /\ UNCHANGED <<disk, assignment4_result, faulted>>
  BY DEF FinderInv, RunOK, CheckDirectory, ProceedIf, Proceed
<1>2. run.WRITEDIR \in dirs
  BY <1>1 DEF FinderInv, FilesOK
<1>3. /\ run' = [run EXCEPT !.stage = "count"]
      /\ run'.stage = "count" /\ run'.WRITEDIR = run.WRITEDIR
      /\ run'.WRITESTR = run.WRITESTR /\ run'.NUMFILES = run.NUMFILES
      /\ run' \in RunSet
  BY <1>1, <1>2 DEF CheckDirectory, ProceedIf, Proceed, RunSet, Stages
<1>4. DiskOK'
  BY <1>1, <1>3, SameFiles DEF FinderInv
<1>5. RunOK' /\ CountsOK'
  BY <1>1, <1>3 DEF FinderInv, RunOK, CountsOK, RunSet
<1>6. Holds(run.NUMFILES, run.NUMFILES + 1)'
  BY <1>1, <1>3 DEF FinderInv, FilesOK, Holds, FilesIn, disk
<1>7. FilesOK'
  BY <1>3, <1>6 DEF FilesOK
<1> QED
  BY <1>1, <1>4, <1>5, <1>7 DEF FinderInv

LEMMA InvCountFiles ==
  ASSUME FinderInv, CountFiles
  PROVE  FinderInv'
<1>1. /\ run \in RunSet /\ run.stage = "count"
      /\ UNCHANGED <<disk, assignment4_result, faulted>>
      /\ run' = [run EXCEPT !.stage = "list",
                   !.Total_files = Cardinality(FilesIn(run.WRITEDIR))]
  BY DEF FinderInv, RunOK, CountFiles
<1>2. run.NUMFILES \in Nat /\ Holds(run.NUMFILES, run.NUMFILES + 1)
  BY <1>1 DEF FinderInv, FilesOK, RunSet
<1>3. Cardinality(FilesIn(run.WRITEDIR)) = run.NUMFILES
  BY <1>2, FilesCounted DEF Holds
<1>4. /\ run'.stage = "list" /\ run'.WRITEDIR = run.WRITEDIR
      /\ run'.WRITESTR = run.WRITESTR /\ run'.NUMFILES = run.NUMFILES
      /\ run'.Total_files = run.NUMFILES
      /\ run'.Lines_matching = run.Lines_matching /\ run'.exit = run.exit
      /\ run' \in RunSet
  BY <1>1, <1>2, <1>3 DEF RunSet, Stages
<1>5. DiskOK'
  BY <1>1, <1>4, SameFiles DEF FinderInv
<1>6. RunOK' /\ CountsOK'
  BY <1>1, <1>4 DEF FinderInv, RunOK, CountsOK
<1>7. Holds(run.NUMFILES, run.NUMFILES + 1)'
  BY <1>1, <1>2, <1>4 DEF Holds, FilesIn, disk
<1>8. FilesOK'
  BY <1>4, <1>7 DEF FilesOK
<1> QED
  BY <1>1, <1>5, <1>6, <1>8 DEF FinderInv

LEMMA InvListFiles ==
  ASSUME FinderInv, ListFiles
  PROVE  FinderInv'
<1>1. /\ run \in RunSet /\ run.stage = "list" /\ DiskOK
      /\ UNCHANGED <<disk, assignment4_result, faulted>>
      /\ run' = [run EXCEPT !.stage = "grep",
                   !.todo = FilesIn(run.WRITEDIR)]
  BY DEF FinderInv, RunOK, ListFiles
<1>2. run.NUMFILES \in Nat /\ Holds(run.NUMFILES, run.NUMFILES + 1)
  BY <1>1 DEF FinderInv, FilesOK, RunSet
<1>3. Cardinality(FilesIn(run.WRITEDIR)) = run.NUMFILES
  BY <1>2, FilesCounted DEF Holds
<1>4. FilesIn(run.WRITEDIR) \subseteq Paths
  BY <1>1, FilesTyped DEF RunSet
<1>5. /\ run'.stage = "grep" /\ run'.WRITEDIR = run.WRITEDIR
      /\ run'.WRITESTR = run.WRITESTR /\ run'.NUMFILES = run.NUMFILES
      /\ run'.Total_files = run.Total_files
      /\ run'.todo = FilesIn(run.WRITEDIR)
      /\ run'.Lines_matching = run.Lines_matching /\ run'.exit = run.exit
      /\ run' \in RunSet
  BY <1>1, <1>4 DEF RunSet, Stages
<1>6. DiskOK'
  BY <1>1, <1>5, SameFiles
<1>7. RunOK'
  BY <1>1, <1>5 DEF FinderInv, RunOK
<1>8. CountsOK'
  <2>1. FilesIn(run.WRITEDIR)' = FilesIn(run.WRITEDIR)
    BY <1>1, <1>5, SameFiles
  <2>2. run.Lines_matching = 0 /\ run.Total_files = run.NUMFILES
    BY <1>1 DEF FinderInv, CountsOK
  <2> QED
    BY <1>2, <1>3, <1>5, <2>1, <2>2 DEF CountsOK
<1>9. Holds(run.NUMFILES, run.NUMFILES + 1)'
  BY <1>1, <1>2, <1>5 DEF Holds, FilesIn, disk
<1>10. FilesOK'
  BY <1>5, <1>9 DEF FilesOK
<1> QED
  BY <1>1, <1>6, <1>7, <1>8, <1>10 DEF FinderInv

(* Each file searched is one less to search, and one match more if the      *)
(* string is plain.                                                         *)
LEMMA InvGrep ==
  ASSUME FinderInv, Grep
  PROVE  FinderInv'
<1>1. /\ run \in RunSet /\ run.stage = "grep" /\ DiskOK
      /\ UNCHANGED <<disk, assignment4_result, faulted>>
  BY DEF FinderInv, RunOK, Grep
<1>0. PICK p \in run.todo : \E found \in GrepAnswers(run.WRITESTR, tree[p]) :
        run' = [run EXCEPT !.todo = @ \ {p},
                  !.Lines_matching = IF found THEN @ + 1 ELSE @]
  BY DEF Grep
<1>2. PICK found \in GrepAnswers(run.WRITESTR, tree[p]) :
        run' = [run EXCEPT !.todo = @ \ {p},
                  !.Lines_matching = IF found THEN @ + 1 ELSE @]
  BY <1>0
<1>3. /\ run.NUMFILES \in Nat /\ Holds(run.NUMFILES, run.NUMFILES + 1)
      /\ run.WRITESTR \in Seq(Characters)
      /\ run.todo \subseteq FilesIn(run.WRITEDIR)
      /\ run.Lines_matching + Cardinality(run.todo) <= run.NUMFILES
      /\ run.WRITESTR \in Plain =>
           run.Lines_matching + Cardinality(run.todo) = run.NUMFILES
      /\ run.Lines_matching \in Nat
  BY <1>1, StringsAreSequences DEF FinderInv, FilesOK, CountsOK, RunOK, RunSet
<1>4. run.WRITESTR \in Plain => found
  <2>1. PICK j \in 1 .. run.NUMFILES : p = <<run.WRITEDIR, j>>
    BY <1>3 DEF Holds
  <2>2. j < run.NUMFILES + 1
    BY <1>3
  <2>3. tree[p] = run.WRITESTR
    BY <1>3, <2>1, <2>2 DEF Holds
  <2>4. Found(run.WRITESTR, tree[p])
    BY <1>3, <2>3, WrittenWhole
  <2> QED
    BY <1>2, <2>4 DEF GrepAnswers
<1>5. Cardinality(run.todo \ {p}) = Cardinality(run.todo) - 1
      /\ Cardinality(run.todo) \in Nat
  <2>1. IsFiniteSet(FilesIn(run.WRITEDIR))
    <3>1. IsFiniteSet({run.WRITEDIR} \X (1 .. run.NUMFILES))
      BY <1>3, FilesCounted
    <3> QED
      BY <1>3, <3>1 DEF Holds
  <2>2. IsFiniteSet(run.todo)
    BY <1>3, <2>1, FS_Subset
  <2> QED
    BY <2>2, FS_RemoveElement, FS_CardinalityType
<1>6. /\ run'.stage = "grep" /\ run'.WRITEDIR = run.WRITEDIR
      /\ run'.WRITESTR = run.WRITESTR /\ run'.NUMFILES = run.NUMFILES
      /\ run'.Total_files = run.Total_files
      /\ run'.todo = run.todo \ {p}
      /\ run'.Lines_matching =
           IF found THEN run.Lines_matching + 1 ELSE run.Lines_matching
      /\ run'.exit = run.exit
      /\ run' \in RunSet
  <2>1. /\ run.todo \ {p} \in SUBSET Paths
        /\ (IF found THEN run.Lines_matching + 1 ELSE run.Lines_matching)
             \in Nat
    BY <1>1, <1>3 DEF RunSet
  <2> QED
    BY <1>1, <1>2, <2>1 DEF RunSet
<1>7. DiskOK'
  BY <1>1, <1>6, SameFiles
<1>8. RunOK'
  BY <1>1, <1>6 DEF FinderInv, RunOK
<1>9. CountsOK'
  <2>1. FilesIn(run.WRITEDIR)' = FilesIn(run.WRITEDIR)
    BY <1>1, <1>6, SameFiles
  <2>2. run.Total_files = run.NUMFILES
    BY <1>1 DEF FinderInv, CountsOK
  <2>3. run'.todo \subseteq FilesIn(run.WRITEDIR)'
    BY <1>3, <1>6, <2>1
  <2>4. /\ run'.Lines_matching + Cardinality(run'.todo) <= run.NUMFILES
        /\ run.WRITESTR \in Plain =>
             run'.Lines_matching + Cardinality(run'.todo) = run.NUMFILES
    BY <1>3, <1>4, <1>5, <1>6
  <2> QED
    BY <1>6, <2>2, <2>3, <2>4 DEF CountsOK
<1>10. Holds(run.NUMFILES, run.NUMFILES + 1)'
  BY <1>1, <1>3, <1>6 DEF Holds, FilesIn, disk
<1>11. FilesOK'
  BY <1>6, <1>10 DEF FilesOK
<1> QED
  BY <1>1, <1>7, <1>8, <1>9, <1>11 DEF FinderInv

LEMMA InvSaveResult ==
  ASSUME FinderInv, SaveResult
  PROVE  FinderInv'
<1>1. /\ run \in RunSet /\ run.stage = "grep" /\ run.todo = {}
      /\ run' = [run EXCEPT !.stage = "cleanup"]
      /\ assignment4_result' = Counts
      /\ UNCHANGED <<disk, faulted>>
  BY DEF FinderInv, RunOK, SaveResult, Proceed
<1>2. /\ run'.stage = "cleanup" /\ run'.WRITEDIR = run.WRITEDIR
      /\ run'.WRITESTR = run.WRITESTR /\ run'.NUMFILES = run.NUMFILES
      /\ run'.Total_files = run.Total_files
      /\ run'.Lines_matching = run.Lines_matching /\ run'.exit = run.exit
      /\ run' \in RunSet
  BY <1>1 DEF RunSet, Stages
<1>3. /\ run.Lines_matching <= run.NUMFILES
      /\ run.WRITESTR \in Plain => run.Lines_matching = run.NUMFILES
      /\ run.Total_files = run.NUMFILES
  <2>1. Cardinality(run.todo) = 0
    BY <1>1, FS_EmptySet
  <2> QED
    BY <1>1, <2>1 DEF FinderInv, CountsOK, RunSet
<1>4. DiskOK'
  BY <1>1, <1>2, SameFiles DEF FinderInv
<1>5. RunOK' /\ FilesOK'
  BY <1>1, <1>2 DEF FinderInv, RunOK, FilesOK
<1>6. CountsOK'
  BY <1>1, <1>2, <1>3 DEF CountsOK, Counts
<1> QED
  BY <1>1, <1>4, <1>5, <1>6 DEF FinderInv

-----------------------------------------------------------------------------
(* The end *)

LEMMA InvCleanUp ==
  ASSUME FinderInv, CleanUp
  PROVE  FinderInv'
<1>1. UNCHANGED <<assignment4_result, faulted>> /\ LeftOver = ROOT
  BY DEF CleanUp, RmRf, LeftOver
<1>2. run \in RunSet /\ DiskOK /\ ROOT \in Dirs
  BY DEF FinderInv, RunOK, Dirs
<1>3. CASE /\ run.stage = "cleanup"
           /\ \E p \in FilesIn(ROOT) :
                tree' = Restrict(tree, DOMAIN tree \ {p})
           /\ UNCHANGED <<dirs, run>>
  BY <1>1, <1>3, RemoveOneFile
<1>4. CASE /\ FilesIn(ROOT) = {}
           /\ dirs' = dirs \ Below(ROOT)
           /\ Proceed("cleanup", "compare")
           /\ UNCHANGED tree
  <2>1. /\ run.stage = "cleanup" /\ run' = [run EXCEPT !.stage = "compare"]
        /\ run'.stage = "compare" /\ run'.NUMFILES = run.NUMFILES
        /\ run'.Total_files = run.Total_files
        /\ run'.Lines_matching = run.Lines_matching
        /\ run'.exit = run.exit /\ run'.WRITESTR = run.WRITESTR
        /\ run' \in RunSet
    BY <1>2, <1>4 DEF Proceed, RunSet, Stages
  <2>2. DiskOK'
    BY <1>2, <1>4, DirectoriesRemoved
  <2>3. RunOK' /\ CountsOK'
    BY <1>1, <2>1 DEF FinderInv, RunOK, CountsOK
  <2>4. dirs' = {} /\ DOMAIN tree' = {}
    BY <1>2, <1>4, AllFiles DEF DiskOK, Below
  <2>5. FilesOK'
    BY <2>1, <2>4 DEF FilesOK
  <2> QED
    BY <1>1, <2>2, <2>3, <2>5 DEF FinderInv
<1> QED
  BY <1>1, <1>3, <1>4 DEF CleanUp, RmRf

(* The comparison succeeds exactly if every file was found to match, and    *)
(* with a plain string it does.                                             *)
LEMMA ComparedCounts ==
  ASSUME FinderInv, Compare
  PROVE  /\ \/ Exit("success") /\ run.Lines_matching = run.NUMFILES
            \/ Exit("failure") /\ run.WRITESTR \notin Plain
         /\ assignment4_result = <<run.NUMFILES, run.Lines_matching>>
<1>1. run.stage = "compare" /\ run \in RunSet /\ run.NUMFILES # 0
  BY DEF Compare, FinderInv, RunOK
<1>2. /\ run.Total_files = run.NUMFILES
      /\ run.NUMFILES \in Nat \ {0} /\ run.Lines_matching \in Nat
      /\ run.Lines_matching <= run.NUMFILES
      /\ run.WRITESTR \in Plain => run.Lines_matching = run.NUMFILES
      /\ assignment4_result = <<run.NUMFILES, run.Lines_matching>>
  BY <1>1 DEF FinderInv, CountsOK, RunSet
<1>3. \A n, k \in Nat : n # 0 /\ k <= n => k \div 10 # n
  OBVIOUS
<1>4. Matches(run.NUMFILES, Counts) <=> run.Lines_matching = run.NUMFILES
  BY <1>2, <1>3 DEF Matches, Counts
<1>5. Exit(IF Matches(run.NUMFILES, Counts) THEN "success" ELSE "failure")
  BY DEF Compare
<1> QED
  BY <1>2, <1>4, <1>5

LEMMA InvCompare ==
  ASSUME FinderInv, Compare
  PROVE  FinderInv'
<1>1. UNCHANGED disk /\ UNCHANGED faulted
  BY DEF Compare
<1>2. DiskOK'
  BY <1>1 DEF disk, FinderInv, DiskOK
<1>3. faulted' \in BOOLEAN
  BY <1>1 DEF FinderInv
<1> QED
  BY <1>2, <1>3, ComparedCounts, InvExit

LEMMA InvKill ==
  ASSUME FinderInv, Kill
  PROVE  FinderInv'
<1>1. UNCHANGED disk /\ UNCHANGED faulted /\ Exit("killed")
  BY DEF Kill
<1>2. DiskOK'
  BY <1>1 DEF disk, FinderInv, DiskOK
<1>3. faulted' \in BOOLEAN
  BY <1>1 DEF FinderInv
<1> QED
  BY <1>1, <1>2, <1>3, InvExit

LEMMA InvNext == FinderInv /\ [FinderNext]_finderVars => FinderInv'
<1> SUFFICES ASSUME FinderInv, [FinderNext]_finderVars
             PROVE  FinderInv'
  OBVIOUS
<1>1. CASE FinderNext
  BY <1>1, InvStart, InvRemoveOld, InvMkdir, InvTestDirectory, InvWriterOpen,
     InvWriterWrite, InvCheckDirectory, InvCountFiles, InvListFiles, InvGrep,
     InvSaveResult, InvCleanUp, InvCompare, InvKill
     DEF FinderNext
<1>2. CASE UNCHANGED finderVars
  <2>1. UNCHANGED <<dirs, tree, assignment4_result, run, faulted>>
    BY <1>2 DEF finderVars, disk
  <2> QED
    BY <2>1 DEF FinderInv, DiskOK, RunOK, FilesOK, CountsOK,
                Holds, FilesIn, Writerfile
<1> QED
  BY <1>1, <1>2

LEMMA InvAlways == FinderSpec => []FinderInv
BY InvInit, InvNext, PTL DEF FinderSpec

-----------------------------------------------------------------------------
(* The theorems *)

(* Every file is in a directory that exists, and what the shells of a run   *)
(* hold has its type, for every number of files, directory and fault.       *)
THEOREM FinderTypeCorrect == FinderSpec => []FinderTypeOK
<1>1. FinderInv => FinderTypeOK
  <2> SUFFICES ASSUME FinderInv
               PROVE  FinderTypeOK
    OBVIOUS
  <2>1. DiskOK /\ run \in RunSet /\ faulted \in BOOLEAN
    BY DEF FinderInv, RunOK
  <2>2. run.Lines_matching <= run.Total_files
    <3>1. CASE run.stage = "ended"
      <4>1. run.Lines_matching = 0 /\ run.Total_files = 0
        BY <3>1 DEF FinderInv, RunOK, Finished
      <4> QED
        BY <4>1
    <3>2. CASE run.stage = "grep"
      <4>1. /\ run.todo \subseteq FilesIn(run.WRITEDIR)
            /\ Holds(run.NUMFILES, run.NUMFILES + 1)
            /\ run.Lines_matching + Cardinality(run.todo) <= run.NUMFILES
            /\ run.Total_files = run.NUMFILES
            /\ run.NUMFILES \in Nat /\ run.Lines_matching \in Nat
        BY <2>1, <3>2 DEF FinderInv, CountsOK, FilesOK, RunSet
      <4>2. Cardinality(run.todo) \in Nat
        <5>1. IsFiniteSet({run.WRITEDIR} \X (1 .. run.NUMFILES))
          BY <4>1, FilesCounted
        <5>2. IsFiniteSet(run.todo)
          BY <4>1, <5>1, FS_Subset DEF Holds
        <5> QED
          BY <5>2, FS_CardinalityType
      <4> QED
        BY <4>1, <4>2
    <3>3. CASE run.stage \notin {"ended", "grep"}
      BY <2>1, <3>3 DEF FinderInv, CountsOK, RunSet, Stages
    <3> QED
      BY <3>1, <3>2, <3>3
  <2> QED
    BY <2>1, <2>2 DEF DiskOK, RunSet, FinderTypeOK
<1> QED
  BY <1>1, InvAlways, PTL

(* Which steps end a run as failed.                                         *)
LEMMA FailedStep ==
  ASSUME FinderInv, FinderNext, run'.exit = "failure", run' # run
  PROVE  TestDirectory \/ CheckDirectory \/ WriterOpen \/ WriterWrite
         \/ Compare
<1>1. run \in RunSet /\ (run.stage # "ended" => run.exit = "none")
  BY DEF FinderInv, RunOK
<1>2. ~ Start
  BY <1>1 DEF Start, RunSet
<1>3. ~ Kill
  BY DEF Kill, Exit, Finished
<1>4. ~ (RemoveOld \/ Mkdir \/ CountFiles \/ ListFiles \/ Grep
         \/ SaveResult \/ CleanUp)
  BY <1>1 DEF RemoveOld, Mkdir, CountFiles, ListFiles, Grep,
     SaveResult, CleanUp, RmRf, Proceed, RunSet
<1> QED
  BY <1>2, <1>3, <1>4 DEF FinderNext

(* A run whose files can be written, and whose string grep takes as it is,  *)
(* succeeds, whatever the runs before it left behind.                       *)
THEOREM EveryRunSucceeds == FinderSpec => RunSucceeds
<1> DEFINE Excused ==
      run'.exit = "failure" => faulted' \/ run.WRITESTR \notin Plain
<1>1. FinderInv /\ [FinderNext]_finderVars => [Excused]_run
  <2> SUFFICES ASSUME FinderInv, FinderNext, run'.exit = "failure",
                      run' # run
               PROVE  faulted' \/ run.WRITESTR \notin Plain
    BY DEF finderVars
  <2>1. run \in RunSet /\ (run.stage # "ended" => run.exit = "none")
    BY DEF FinderInv, RunOK
  <2>2. CASE TestDirectory \/ CheckDirectory
    <3>1. run.WRITEDIR \in dirs
      BY <2>2 DEF TestDirectory, CheckDirectory, ProceedIf, Proceed,
                  FinderInv, FilesOK
    <3> QED
      BY <2>1, <2>2, <3>1 DEF TestDirectory, CheckDirectory, ProceedIf,
                              Proceed, RunSet
  <2>3. CASE WriterOpen
    BY <2>1, <2>3 DEF WriterOpen, ProceedIf, Proceed, RunSet
  <2>4. CASE WriterWrite
    <3>1. Len(run.WRITESTR) \in Nat
      <4>1. run.WRITESTR \in Seq(Characters)
        BY <2>4, StringsAreSequences DEF WriterWrite, FinderInv, RunOK
      <4> QED
        BY <4>1
    <3>2. PICK count \in 0 .. Len(run.WRITESTR) :
            /\ faulted' = (count < Len(run.WRITESTR))
            /\ \/ ~ Complete(count)
               \/ run' = [run EXCEPT !.stage = "open", !.i = @ + 1]
               \/ Proceed("write", "check")
      BY <2>4, <3>1 DEF WriterWrite
    <3>3. ~ Complete(count)
      BY <2>1, <2>4, <3>2 DEF WriterWrite, Proceed, RunSet
    <3>4. count < Len(run.WRITESTR)
      BY <3>1, <3>3 DEF Complete
    <3> QED
      BY <3>2, <3>4
  <2>5. CASE Compare
    BY <2>5, ComparedCounts DEF Exit, Finished
  <2> QED
    BY <2>2, <2>3, <2>4, <2>5, FailedStep
<1> QED
  BY <1>1, InvAlways, PTL DEF FinderSpec, RunSucceeds

(* The files of a run hold its string and nothing else, and there are no    *)
(* others.                                                                  *)
THEOREM FilesAreExact == FinderSpec => []FilesExact
<1>1. FinderInv => FilesExact
  <2> SUFFICES ASSUME FinderInv, run.stage = "check"
               PROVE  /\ FilesIn(run.WRITEDIR) =
                           {run.WRITEDIR} \X (1 .. run.NUMFILES)
                      /\ \A p \in FilesIn(run.WRITEDIR) : tree[p] = run.WRITESTR
    BY DEF FilesExact
  <2>1. Holds(run.NUMFILES, run.NUMFILES + 1) /\ run.NUMFILES \in Nat
    BY DEF FinderInv, FilesOK, RunOK, RunSet
  <2>2. \A j \in 1 .. run.NUMFILES : j < run.NUMFILES + 1
    BY <2>1
  <2> QED
    BY <2>1, <2>2 DEF Holds
<1> QED
  BY <1>1, InvAlways, PTL

(* A run that succeeds leaves the counts it was about in the result file,   *)
(* and no file or directory of any run.                                     *)
THEOREM SuccessLeavesNothing == FinderSpec => SuccessCleansUp
<1> DEFINE Clean ==
      run'.exit = "success" =>
        /\ dirs' = {} /\ tree' = <<>>
        /\ assignment4_result' = <<run.NUMFILES, run.NUMFILES>>
<1>1. FinderInv /\ [FinderNext]_finderVars => [Clean]_run
  <2> SUFFICES ASSUME FinderInv, FinderNext, run'.exit = "success",
                      run' # run
               PROVE  /\ dirs' = {} /\ tree' = <<>>
                      /\ assignment4_result' = <<run.NUMFILES, run.NUMFILES>>
    BY DEF finderVars
  <2>1. /\ run \in RunSet /\ DiskOK
        /\ run.stage # "ended" => run.exit = "none"
    BY DEF FinderInv, RunOK
  (* Only the comparison ends a run with success. *)
  <2>2. Compare
    <3>1. CASE Start
      BY <2>1, <3>1 DEF Start, RunSet
    <3>2. CASE Kill \/ TestDirectory \/ CheckDirectory
      BY <2>1, <3>2 DEF Kill, TestDirectory, CheckDirectory, ProceedIf,
                        Proceed, Exit, Finished, RunSet
    <3>3. CASE WriterOpen
      BY <2>1, <3>3 DEF WriterOpen, ProceedIf, Proceed, Exit, Finished, RunSet
    <3>4. CASE WriterWrite
      <4>1. \/ Exit("failure")
            \/ run' = [run EXCEPT !.stage = "open", !.i = @ + 1]
            \/ Proceed("write", "check")
        BY <3>4 DEF WriterWrite
      <4>2. run.stage = "write"
        BY <3>4 DEF WriterWrite
      <4>3. CASE Exit("failure")
        BY <4>3 DEF Exit, Finished
      <4>4. CASE run' = [run EXCEPT !.stage = "open", !.i = @ + 1]
        BY <2>1, <4>2, <4>4 DEF RunSet
      <4>5. CASE Proceed("write", "check")
        BY <2>1, <4>2, <4>5 DEF Proceed, RunSet
      <4> QED
        BY <4>1, <4>3, <4>4, <4>5
    <3>5. CASE RemoveOld \/ Mkdir \/ CountFiles \/ ListFiles \/ Grep \/ SaveResult \/ CleanUp
      BY <2>1, <3>5 DEF RemoveOld, Mkdir, CountFiles, ListFiles, Grep,
         SaveResult, CleanUp, RmRf, Proceed, RunSet
    <3> QED
      BY <3>1, <3>2, <3>3, <3>4, <3>5 DEF FinderNext
  <2>3. /\ dirs = {} /\ DOMAIN tree = {}
        /\ assignment4_result = <<run.NUMFILES, run.NUMFILES>>
    <3>1. dirs = {} /\ DOMAIN tree = {}
      BY <2>2 DEF Compare, FinderInv, FilesOK
    <3>2. run.Lines_matching = run.NUMFILES
      BY <2>2, ComparedCounts DEF Exit, Finished
    <3> QED
      BY <2>2, <3>1, <3>2, ComparedCounts
  <2>4. tree = <<>>
    BY <2>1, <2>3 DEF DiskOK
  <2> QED
    BY <2>2, <2>3, <2>4 DEF Compare, disk
<1> QED
  BY <1>1, InvAlways, PTL DEF FinderSpec, SuccessCleansUp
=============================================================================
