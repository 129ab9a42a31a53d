-------------------------- MODULE SystemCallsProofs --------------------------
(***************************************************************************)
(* For every number of threads and processes, and every fault the model     *)
(* knows: output_fd is closed by every call, do_system never claims a       *)
(* success its command did not have, and a call that meets no other child   *)
(* and no signal tells the truth.                                           *)
(***************************************************************************)
EXTENDS SystemCalls, FiniteSetTheorems, TLAPS

(* The history own is what a zombie's status will say. *)
OwnEnd ==
  \A c \in Callers :
    child[c] # NOCHILD =>
      /\ proc[child[c]] \in Ended => own[c] = proc[child[c]]
      /\ proc[child[c]] \in {"forked", "running"} => own[c] = "none"

(* What a call has done before it forked, and what only a redirecting one   *)
(* does.                                                                    *)
Stages ==
  \A c \in Callers :
    /\ at[c] \in {"open", "close"} \/ c \in openFds => kind[c] = "redirect"
    /\ at[c] \in {"open", "fork"} => own[c] = "none" /\ child[c] = NOCHILD
    /\ own[c] = "success" /\ kind[c] = "redirect" => outputfile[c] = "own"
    /\ child[c] = NOCHILD => own[c] = "none"

StageInv == CallsTypeOK /\ OwnEnd /\ Stages /\ OutputClosed

-----------------------------------------------------------------------------

LEMMA StageInit == CallsInit => StageInv
<1> SUFFICES ASSUME CallsInit
             PROVE  StageInv
  OBVIOUS
<1>1. result \in [Callers -> BOOLEAN] /\ disturbed \in [Callers -> BOOLEAN]
  BY Zenon DEF CallsInit
<1>2. CallsTypeOK
  BY <1>1 DEF CallsInit, CallsTypeOK
<1> QED
  BY <1>2 DEF CallsInit, StageInv, OwnEnd, Stages, OutputClosed

(* fork returns a number no child has and no call remembers. *)
LEMMA ForkedPid ==
  ASSUME Unused # {}
  PROVE  LET pid == CHOOSE p \in Unused : TRUE
         IN  /\ pid \in Pids
             /\ proc[pid] = "none"
             /\ \A c \in Callers : child[c] # pid
  BY DEF Unused

LEMMA CallStage ==
  ASSUME StageInv, NEW c \in Callers, Call(c)
  PROVE  StageInv'
<1> USE DEF StageInv, CallsTypeOK
<1>1. CallsTypeOK'
  BY DEF Call, Callable, Underway
<1>2. OwnEnd'
  BY DEF Call, OwnEnd
<1>3. PICK k \in {"system", "exec", "redirect"} :
        /\ kind' = [kind EXCEPT ![c] = k]
        /\ at' = [at EXCEPT ![c] = IF k = "redirect" THEN "open" ELSE "fork"]
  BY DEF Call, Callable
<1>4. c \notin openFds
  BY DEF Call, Underway, OutputClosed
<1>5. Stages' /\ OutputClosed'
  BY <1>3, <1>4 DEF Call, Underway, Stages, OutputClosed
<1> QED
  BY <1>1, <1>2, <1>5

LEMMA OpenStage ==
  ASSUME StageInv, NEW c \in Callers, OpenOutput(c) \/ CloseOutput(c)
  PROVE  StageInv'
<1> USE DEF StageInv, CallsTypeOK, OpenOutput, CloseOutput, Move, Answers
<1>1. CallsTypeOK'
  OBVIOUS
<1>2. OwnEnd' /\ Stages'
  BY DEF OwnEnd, Stages
<1>3. OutputClosed'
  BY DEF OutputClosed, Stages
<1> QED
  BY <1>1, <1>2, <1>3

LEMMA ForkStage ==
  ASSUME StageInv, NEW c \in Callers, Fork(c)
  PROVE  StageInv'
<1> USE DEF StageInv, CallsTypeOK
<1> DEFINE pid == CHOOSE p \in Unused : TRUE
<1>1. /\ pid \in Pids /\ proc[pid] = "none"
      /\ \A d \in Callers : child[d] # pid
  BY ForkedPid DEF Fork, MayFork
<1>2. /\ child' = [child EXCEPT ![c] = pid]
      /\ proc' = [proc EXCEPT ![pid] = "forked"]
      /\ at[c] = "fork" /\ at' = [at EXCEPT ![c] = "wait"]
      /\ UNCHANGED <<kind, result, openFds, outputfile, own>>
  BY DEF Fork, Move
<1>3. disturbed' \in [Callers -> BOOLEAN]
  BY DEF Fork
<1> HIDE DEF pid
<1>4. CallsTypeOK'
  BY <1>1, <1>2, <1>3, CallAssumption
<1>5. OwnEnd'
  BY <1>1, <1>2, CallAssumption DEF OwnEnd, Ended, Stages
<1>6. Stages' /\ OutputClosed'
  BY <1>1, <1>2, CallAssumption DEF Stages, OutputClosed
<1> QED
  BY <1>4, <1>5, <1>6

LEMMA ForkFailsStage ==
  ASSUME StageInv, NEW c \in Callers, ForkFails(c)
  PROVE  StageInv'
<1> USE DEF StageInv, CallsTypeOK, ForkFails, Move, Answers, AfterCommand
<1>1. CallsTypeOK'
  OBVIOUS
<1>2. OwnEnd' /\ Stages'
  BY DEF OwnEnd, Stages
<1>3. OutputClosed'
  BY DEF OutputClosed, Stages
<1> QED
  BY <1>1, <1>2, <1>3

(* Whichever way a call stops waiting, it reaps at most one zombie, and     *)
(* goes where calls go that have their result.                              *)
Waited(c) ==
  /\ at[c] = "wait" /\ at' = [at EXCEPT ![c] = AfterCommand(c)]
  /\ \E r \in BOOLEAN : result' = [result EXCEPT ![c] = r]
  /\ disturbed' \in [Callers -> BOOLEAN]
  /\ UNCHANGED proc \/ \E p \in Zombies : Reap(p)
  /\ UNCHANGED <<kind, child, openFds, outputfile, own>>

LEMMA AwaitIsWaited ==
  ASSUME StageInv, NEW c \in Callers, AwaitCommand(c) \/ Interrupted(c)
  PROVE  Waited(c)
<1>1. \A p : StatusTrue(p) \in BOOLEAN
  BY DEF StatusTrue
<1>2. CASE kind[c] = "system" /\ Waitpid(c)
  BY <1>1, <1>2 DEF AwaitCommand, Interrupted, Waitpid, Waited, Move,
                    Answers, AfterCommand, StageInv, CallsTypeOK
<1>3. CASE kind[c] # "system" /\ Wait(c)
  BY <1>1, <1>3 DEF AwaitCommand, Interrupted, Wait, NoStatus, Waited, Move,
                    Answers, StageInv, CallsTypeOK
<1>4. CASE Interrupted(c)
  BY <1>4 DEF Interrupted, NoStatus, Waited, Move, Answers, StageInv,
              CallsTypeOK
<1> QED
  BY <1>2, <1>3, <1>4 DEF AwaitCommand

LEMMA AwaitStage ==
  ASSUME StageInv, NEW c \in Callers, AwaitCommand(c) \/ Interrupted(c)
  PROVE  StageInv'
<1> USE DEF StageInv, CallsTypeOK, Waited, Reap, Zombies, AfterCommand
<1>0. Waited(c)
  BY AwaitIsWaited
<1>1. CallsTypeOK'
  BY <1>0
<1>2. OwnEnd' /\ Stages'
  BY <1>0 DEF OwnEnd, Stages, Ended
<1>3. OutputClosed'
  BY <1>0 DEF OutputClosed, Stages
<1> QED
  BY <1>1, <1>2, <1>3

(* A child's step: its pid is remembered by at most one call. *)
LEMMA ChildStage ==
  ASSUME StageInv, NEW p \in Pids, Child(p)
  PROVE  StageInv'
<1> USE DEF StageInv, CallsTypeOK
<1>1. PICK to \in {"running"} \union Ended :
        /\ proc[p] \in {"forked", "running"}
        /\ proc' = [proc EXCEPT ![p] = to]
        /\ own' = [c \in Callers |->
             IF child[c] = p /\ to \in Ended THEN to ELSE own[c]]
        /\ to = "success" => outputfile' = Written(p)
  BY DEF Child, Execv, CommandEnds, Becomes, Ended
<1>2. /\ outputfile' \in {outputfile, Written(p)}
      /\ UNCHANGED <<at, kind, child, result, openFds, disturbed>>
  BY DEF Child, Execv, CommandEnds
<1>3. CallsTypeOK'
  BY <1>1, <1>2 DEF Written, Ended
<1>4. OwnEnd'
  BY <1>1, <1>2 DEF OwnEnd, Ended
<1>5. Stages' /\ OutputClosed'
  BY <1>1, <1>2, CallAssumption DEF Stages, OutputClosed, Written, Ended
<1> QED
  BY <1>3, <1>4, <1>5

LEMMA StageStep ==
  ASSUME StageInv, [CallsNext]_callVars
  PROVE  StageInv'
<1>1. ASSUME NEW c \in Callers, CallStep(c) \/ Interrupted(c)
      PROVE  StageInv'
  BY <1>1, OpenStage, ForkStage, ForkFailsStage, AwaitStage DEF CallStep
<1>2. CASE UNCHANGED callVars
  BY <1>2 DEF callVars, StageInv, CallsTypeOK, OwnEnd, Stages, OutputClosed
<1> QED
  BY <1>1, <1>2, CallStage, ChildStage DEF CallsNext

(* Types, and the two facts the results rest on. *)
THEOREM StageInvariant == CallsSpec => []StageInv
<1>1. CallsInit => StageInv
  BY StageInit
<1>2. StageInv /\ [CallsNext]_callVars => StageInv'
  BY StageStep
<1> QED
  BY <1>1, <1>2, PTL DEF CallsSpec

(* The state keeps its types, and no two calls remember one child.          *)
THEOREM CallsTyped == CallsSpec => []CallsTypeOK
  BY StageInvariant, PTL DEF StageInv

(* do_exec_redirect closes output_fd on every path out of it.               *)
THEOREM OutputIsClosed == CallsSpec => []OutputClosed
  BY StageInvariant, PTL DEF StageInv

-----------------------------------------------------------------------------
(* do_system *)

LEMMA SystemStep ==
  ASSUME StageInv, SystemNeverLies, [CallsNext]_callVars
  PROVE  SystemNeverLies'
<1> USE DEF StageInv, CallsTypeOK, SystemNeverLies
<1>1. ASSUME NEW c \in Callers, Call(c) \/ Fork(c)
      PROVE  SystemNeverLies'
  BY <1>1 DEF Call, Fork, Move
<1>2. ASSUME NEW c \in Callers,
             OpenOutput(c) \/ ForkFails(c) \/ CloseOutput(c)
      PROVE  SystemNeverLies'
  BY <1>2 DEF OpenOutput, ForkFails, CloseOutput, Move, Answers, AfterCommand,
              Stages
<1>3. ASSUME NEW c \in Callers, AwaitCommand(c) \/ Interrupted(c)
      PROVE  SystemNeverLies'
  <2>1. CASE kind[c] = "system" /\ Waitpid(c)
    <3>1. result'[c] => own[c] = "success"
      BY <2>1 DEF Waitpid, Answers, Move, StatusTrue, OwnEnd, Ended
    <3> QED
      BY <1>3, <2>1, <3>1
      DEF AwaitCommand, Interrupted, Waitpid, Answers, Move
  <2>2. CASE kind[c] # "system" /\ Wait(c)
    BY <1>3, <2>2 DEF AwaitCommand, Interrupted, Wait, NoStatus, Answers, Move
  <2>3. CASE Interrupted(c)
    BY <2>3 DEF Interrupted, NoStatus, Answers, Move
  <2> QED
    BY <1>3, <2>1, <2>2, <2>3 DEF AwaitCommand
<1>4. ASSUME NEW p \in Pids, Child(p)
      PROVE  SystemNeverLies'
  <2>1. \A c \in Callers : own[c] = "success" => own'[c] = "success"
    BY <1>4, CallAssumption
    DEF Child, Execv, CommandEnds, Becomes, OwnEnd, Ended
  <2> QED
    BY <1>4, <2>1 DEF Child
<1>5. CASE UNCHANGED callVars
  BY <1>5 DEF callVars
<1> QED
  BY <1>1, <1>2, <1>3, <1>4, <1>5 DEF CallsNext, CallStep

(* A call of do_system that returns true ran a command that succeeded,      *)
(* whoever else waits for children.                                         *)
THEOREM SystemIsHonest == CallsSpec => []SystemNeverLies
<1>1. CallsInit => SystemNeverLies
  BY DEF CallsInit, SystemNeverLies
<1>2. StageInv /\ SystemNeverLies /\ [CallsNext]_callVars => SystemNeverLies'
  BY SystemStep
<1> QED
  BY <1>1, <1>2, StageInvariant, PTL DEF CallsSpec

-----------------------------------------------------------------------------
(* A call on its own *)

Waiting == {c \in Callers : at[c] = "wait"}

(* Whoever waits for a child has one to wait for, though it may not be his: *)
(* each call that stops waiting takes at most one away.                     *)
ChildForEach == Cardinality(Waiting) <= Cardinality(Children)

(* A call that nobody met so far is the only one that waits, and the only   *)
(* child is its own.                                                        *)
Alone ==
  \A c \in Waiting : ~ disturbed[c] => Children = {child[c]} /\ Waiting = {c}

Told ==
  \A c \in Callers :
    at[c] \in {"close", "returned"} /\ ~ disturbed[c] =>
      (result[c] <=> own[c] = "success") /\ child[c] \notin Children

LoneInv == ChildForEach /\ Alone /\ Told

LEMMA SetsFinite ==
  /\ IsFiniteSet(Waiting) /\ Cardinality(Waiting) \in Nat
  /\ IsFiniteSet(Children) /\ Cardinality(Children) \in Nat
<1>1. Waiting \in SUBSET Callers /\ Children \in SUBSET Pids
  BY DEF Waiting, Children
<1> QED
  BY <1>1, CallAssumption, FS_Subset, FS_CardinalityType

(* Steps that start no child, end no call's waiting and give no result.     *)
LEMMA LoneUnchanged ==
  ASSUME StageInv, LoneInv, Waiting' = Waiting, Children' = Children,
         UNCHANGED disturbed,
         \A c \in Waiting : UNCHANGED child[c],
         \A c \in Callers : at'[c] \in {"close", "returned"} =>
           \/ /\ at[c] \in {"close", "returned"}
              /\ UNCHANGED <<child[c], own[c], result[c]>>
           \/ ~ result'[c] /\ own'[c] = "none" /\ child'[c] = NOCHILD
  PROVE  LoneInv'
<1>1. ChildForEach'
  BY DEF LoneInv, ChildForEach
<1>2. Alone'
  BY DEF LoneInv, Alone
<1>3. NOCHILD \notin Children
  BY CallAssumption DEF Children
<1>4. Told'
  BY <1>3 DEF LoneInv, Told
<1> QED
  BY <1>1, <1>2, <1>4 DEF LoneInv

LEMMA ForkLone ==
  ASSUME StageInv, LoneInv, NEW c \in Callers, Fork(c)
  PROVE  LoneInv'
<1> USE DEF StageInv, CallsTypeOK
<1> DEFINE pid == CHOOSE p \in Unused : TRUE
<1>1. /\ pid \in Pids /\ proc[pid] = "none"
      /\ \A d \in Callers : child[d] # pid
  BY ForkedPid DEF Fork, MayFork
<1>2. /\ child' = [child EXCEPT ![c] = pid]
      /\ proc' = [proc EXCEPT ![pid] = "forked"]
      /\ at[c] = "fork" /\ at' = [at EXCEPT ![c] = "wait"]
      /\ UNCHANGED <<kind, result, openFds, outputfile, own>>
  BY DEF Fork, Move
<1>3. disturbed' = [d \in Callers |->
        IF d = c THEN Children # {} ELSE disturbed[d] \/ at[d] = "wait"]
  BY DEF Fork
<1> HIDE DEF pid
<1>4. Waiting' = Waiting \union {c} /\ c \notin Waiting
  BY <1>2 DEF Waiting
<1>5. Children' = Children \union {pid} /\ pid \notin Children
  BY <1>1, <1>2 DEF Children
<1>6. ChildForEach'
  <2>1. Cardinality(Waiting') = Cardinality(Waiting) + 1
    BY <1>4, SetsFinite, FS_AddElement
  <2>2. Cardinality(Children') = Cardinality(Children) + 1
    BY <1>5, SetsFinite, FS_AddElement
  <2> QED
    BY <2>1, <2>2, SetsFinite DEF LoneInv, ChildForEach
<1>7. Alone'
  <2>1. ASSUME NEW d \in Waiting, d # c
        PROVE  disturbed'[d]
    BY <1>3, <2>1 DEF Waiting
  <2>2. ASSUME ~ disturbed'[c]
        PROVE  Children = {} /\ Waiting = {}
    <3>1. Children = {}
      BY <1>3, <2>2
    <3>2. Cardinality(Waiting) = 0
      BY <3>1, SetsFinite, FS_EmptySet DEF LoneInv, ChildForEach
    <3> QED
      BY <3>1, <3>2, SetsFinite, FS_EmptySet
  <2>3. child'[c] = pid
    BY <1>2
  <2> QED
    BY <1>4, <1>5, <2>1, <2>2, <2>3 DEF Alone
<1>8. Told'
  <2> SUFFICES ASSUME NEW d \in Callers, at'[d] \in {"close", "returned"},
                      ~ disturbed'[d]
               PROVE  (result'[d] <=> own'[d] = "success")
                      /\ child'[d] \notin Children'
    BY DEF Told
  <2>1. d # c /\ at[d] \in {"close", "returned"} /\ ~ disturbed[d]
    BY <1>2, <1>3
  <2> QED
    BY <1>1, <1>2, <1>5, <2>1 DEF LoneInv, Told
<1> QED
  BY <1>6, <1>7, <1>8 DEF LoneInv

(* Of a call that stays undisturbed, its own child is the one reaped.       *)
LEMMA AwaitOwn ==
  ASSUME StageInv, LoneInv, NEW c \in Callers,
         AwaitCommand(c) \/ Interrupted(c), ~ disturbed'[c]
  PROVE  /\ result'[c] <=> own[c] = "success"
         /\ proc'[child[c]] = "none"
<1> USE DEF StageInv, CallsTypeOK
<1>0. AwaitCommand(c)
  BY DEF Interrupted, NoStatus
<1>1. at[c] = "wait" /\ child[c] \in Pids
  BY <1>0 DEF AwaitCommand, Wait, NoStatus, Waitpid, Move
<1>2. ~ disturbed[c]
  BY <1>0 DEF AwaitCommand, Wait, NoStatus, Waitpid
<1>3. Children = {child[c]}
  BY <1>1, <1>2 DEF LoneInv, Alone, Waiting
<1>4. PICK p \in Zombies : Reap(p) /\ Answers(c, StatusTrue(p))
  BY <1>0, <1>3 DEF AwaitCommand, Wait, NoStatus, Waitpid
<1>5. p = child[c]
  BY <1>3, <1>4 DEF Zombies, Children, Ended
<1>6. own[c] = proc[child[c]]
  BY <1>1, <1>4, <1>5, CallAssumption DEF OwnEnd, Zombies
<1> QED
  BY <1>1, <1>4, <1>5, <1>6 DEF Reap, Answers, StatusTrue

LEMMA AwaitLone ==
  ASSUME StageInv, LoneInv, NEW c \in Callers,
         AwaitCommand(c) \/ Interrupted(c)
  PROVE  LoneInv'
<1> USE DEF StageInv, CallsTypeOK
<1>0. Waited(c)
  BY AwaitIsWaited
<1>1. Waiting' = Waiting \ {c} /\ c \in Waiting
  BY <1>0 DEF Waited, Waiting, AfterCommand
<1>2. Children' = Children \/ \E p \in Children : Children' = Children \ {p}
  BY <1>0 DEF Waited, Reap, Zombies, Children, Ended
<1>3. ChildForEach'
  <2>1. Cardinality(Waiting') = Cardinality(Waiting) - 1
    BY <1>1, SetsFinite, FS_RemoveElement
  <2>2. Cardinality(Children') \in Nat
        /\ Cardinality(Children') >= Cardinality(Children) - 1
    <3>1. CASE Children' = Children
      BY <3>1, SetsFinite
    <3>2. ASSUME NEW p \in Children, Children' = Children \ {p}
          PROVE  Cardinality(Children') = Cardinality(Children) - 1
      BY <3>2, SetsFinite, FS_RemoveElement
    <3>3. ASSUME NEW p \in Children, Children' = Children \ {p}
          PROVE  Cardinality(Children') \in Nat
      BY <3>3, SetsFinite, FS_RemoveElement, FS_CardinalityType
    <3> QED
      BY <1>2, <3>1, <3>2, <3>3, SetsFinite
  <2> QED
    BY <2>1, <2>2, SetsFinite DEF LoneInv, ChildForEach
<1>4. \A d \in Callers \ {c} : disturbed'[d] = disturbed[d]
  BY DEF AwaitCommand, Interrupted, Wait, NoStatus, Waitpid
<1>5. Alone'
  BY <1>1, <1>4 DEF LoneInv, Alone, Waiting
<1>6. Told'
  <2> SUFFICES ASSUME NEW d \in Callers, at'[d] \in {"close", "returned"},
                      ~ disturbed'[d]
               PROVE  (result'[d] <=> own'[d] = "success")
                      /\ child'[d] \notin Children'
    BY DEF Told
  <2>1. CASE d = c
    BY <1>0, <2>1, AwaitOwn DEF Waited, Children
  <2>2. CASE d # c
    BY <1>0, <1>2, <1>4, <2>2 DEF Waited, LoneInv, Told
  <2> QED
    BY <2>1, <2>2
<1> QED
  BY <1>3, <1>5, <1>6 DEF LoneInv

LEMMA ChildLone ==
  ASSUME StageInv, LoneInv, NEW p \in Pids, Child(p)
  PROVE  LoneInv'
<1> USE DEF StageInv, CallsTypeOK
<1>1. PICK to \in {"running"} \union Ended :
        /\ proc[p] \in {"forked", "running"}
        /\ proc' = [proc EXCEPT ![p] = to]
        /\ own' = [c \in Callers |->
             IF child[c] = p /\ to \in Ended THEN to ELSE own[c]]
  BY DEF Child, Execv, CommandEnds, Becomes, Ended
<1>2. UNCHANGED <<at, child, result, disturbed>>
  BY DEF Child
<1>3. Waiting' = Waiting /\ Children' = Children /\ p \in Children
  BY <1>1, <1>2 DEF Waiting, Children, Ended
<1>4. ChildForEach' /\ Alone'
  BY <1>2, <1>3 DEF LoneInv, ChildForEach, Alone
<1>5. Told'
  BY <1>1, <1>2, <1>3 DEF LoneInv, Told
<1> QED
  BY <1>4, <1>5 DEF LoneInv

LEMMA LoneStep ==
  ASSUME StageInv, LoneInv, [CallsNext]_callVars
  PROVE  LoneInv'
<1> USE DEF StageInv, CallsTypeOK
<1>1. ASSUME NEW c \in Callers, Call(c)
      PROVE  LoneInv'
  <2>1. Waiting' = Waiting /\ c \notin Waiting /\ Children' = Children
    BY <1>1 DEF Call, Underway, Waiting, Children
  <2>2. ChildForEach'
    BY <2>1 DEF LoneInv, ChildForEach
  <2>3. \A d \in Callers \ {c} : UNCHANGED <<at[d], child[d], own[d],
                                         disturbed[d], result[d]>>
    BY <1>1 DEF Call
  <2>4. Alone'
    BY <2>1, <2>3 DEF LoneInv, Alone, Waiting
  <2>5. Told'
    BY <1>1, <2>1, <2>3 DEF Call, LoneInv, Told
  <2> QED
    BY <2>2, <2>4, <2>5 DEF LoneInv
<1>2. ASSUME NEW c \in Callers,
             OpenOutput(c) \/ ForkFails(c) \/ CloseOutput(c)
      PROVE  LoneInv'
  <2>1. Waiting' = Waiting /\ Children' = Children
    BY <1>2 DEF OpenOutput, ForkFails, CloseOutput, Move, Waiting, Children,
                AfterCommand
  <2>2. UNCHANGED <<disturbed, child, own>>
    BY <1>2 DEF OpenOutput, ForkFails, CloseOutput
  <2>3. ASSUME NEW d \in Callers, at'[d] \in {"close", "returned"}
        PROVE  \/ at[d] \in {"close", "returned"} /\ UNCHANGED result[d]
               \/ /\ ~ result'[d] /\ own'[d] = "none"
                  /\ child'[d] = NOCHILD
    BY <1>2, <2>2, <2>3
    DEF OpenOutput, ForkFails, CloseOutput, Move, Answers, Stages
  <2> QED
    BY <2>1, <2>2, <2>3, LoneUnchanged
<1>3. CASE UNCHANGED callVars
  <2>1. Waiting' = Waiting /\ Children' = Children
    BY <1>3 DEF callVars, Waiting, Children
  <2> QED
    BY <1>3, <2>1, LoneUnchanged DEF callVars
<1> QED
  BY <1>1, <1>2, <1>3, ForkLone, AwaitLone, ChildLone DEF CallsNext, CallStep

(* A call that neither another child nor a signal meets tells what became   *)
(* of its own command, leaves no zombie, and if it says so its output file  *)
(* holds the command's output.                                              *)
THEOREM LoneCallTells == CallsSpec => []LoneCallTruthful
<1>1. CallsInit => LoneInv
  <2> SUFFICES ASSUME CallsInit
               PROVE  LoneInv
    OBVIOUS
  <2>1. Waiting = {} /\ Children = {}
    BY DEF CallsInit, Waiting, Children
  <2> QED
    BY <2>1, FS_EmptySet DEF CallsInit, LoneInv, ChildForEach, Alone, Told
<1>2. StageInv /\ LoneInv /\ [CallsNext]_callVars => LoneInv'
  BY LoneStep
<1>3. StageInv /\ LoneInv => LoneCallTruthful
  BY DEF StageInv, CallsTypeOK, Stages, LoneInv, Told, LoneCallTruthful
<1> QED
  BY <1>1, <1>2, <1>3, StageInvariant, PTL DEF CallsSpec
=============================================================================
