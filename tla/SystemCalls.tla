---------------------------- MODULE SystemCalls ----------------------------
(***************************************************************************)
(* examples/systemcalls/systemcalls.c: do_system, do_exec and               *)
(* do_exec_redirect, called by the threads of one process.                  *)
(*                                                                         *)
(* do_system waits for its own child, inside the C library; the other two   *)
(* call wait, which takes any child of the process that has ended.  The     *)
(* result a call returns is therefore kept beside what became of the child  *)
(* it started.  A process number is used again only when no call remembers  *)
(* it any more.                                                             *)
(***************************************************************************)
EXTENDS Naturals, FiniteSets

CONSTANTS
  Callers,     \* the threads that call the three functions
  ExecOnly,    \* those of them that call do_exec only
  Pids,        \* the process numbers their children get
  NOCHILD,     \* not a process
  MAXCHILDREN, \* how many children the process may have (RLIMIT_NPROC)
  CallFaults   \* among "OPEN", "FORK", "DUP2", "EXEC", "SIGNAL"

ASSUME CallAssumption ==
  /\ NOCHILD \notin Pids
  /\ IsFiniteSet(Callers) /\ IsFiniteSet(Pids)

VARIABLES
  at,          \* where each thread is
  kind,        \* the function it called
  child,       \* the process its fork started
  result,      \* the value its call returns
  openFds,     \* the threads whose output_fd is open
  outputfile,  \* what is in the output file of each thread's call
  proc,        \* the state of each child, its end included
  own,         \* history: how the child of each thread's call ended
  disturbed    \* history: another child, or a signal, met the thread's call

callVars ==
  <<at, kind, child, result, openFds, outputfile, proc, own, disturbed>>

Ended == {"success", "failure", "killed"}

Zombies == {p \in Pids : proc[p] \in Ended}

Children == {p \in Pids : proc[p] # "none"}

Underway(c) == at[c] \notin {"idle", "returned"}

Move(c, from, to) == at[c] = from /\ at' = [at EXCEPT ![c] = to]

Answers(c, answer) == result' = [result EXCEPT ![c] = answer]

-----------------------------------------------------------------------------
(* The calls, up to fork *)

Callable(c) ==
  IF c \in ExecOnly THEN {"exec"} ELSE {"system", "exec", "redirect"}

Call(c) ==
  /\ ~ Underway(c)
  /\ \E k \in Callable(c) :
       /\ kind' = [kind EXCEPT ![c] = k]
       /\ at' = [at EXCEPT ![c] = IF k = "redirect" THEN "open" ELSE "fork"]
  /\ child' = [child EXCEPT ![c] = NOCHILD]
  /\ own' = [own EXCEPT ![c] = "none"]
  /\ disturbed' = [disturbed EXCEPT ![c] = FALSE]
  /\ result' = [result EXCEPT ![c] = FALSE]
  /\ outputfile' = [outputfile EXCEPT ![c] = "old"]
  /\ UNCHANGED <<openFds, proc>>

(* open(outputfile, O_WRONLY | O_CREAT | O_TRUNC, 0666) *)
OpenOutput(c) ==
  /\ \/ /\ Move(c, "open", "fork")
        /\ openFds' = openFds \union {c}
        /\ outputfile' = [outputfile EXCEPT ![c] = "empty"]
        /\ UNCHANGED result
     \/ /\ "OPEN" \in CallFaults
        /\ Move(c, "open", "returned")
        /\ Answers(c, FALSE)
        /\ UNCHANGED <<openFds, outputfile>>
  /\ UNCHANGED <<kind, child, proc, own, disturbed>>

(* Where a call goes when it has its result.  Faulty variant: output_fd is  *)
(* closed by calls that return true only.                                   *)
AfterCommandTrueOnly(c) ==
  IF kind[c] = "redirect" /\ result'[c] THEN "close" ELSE "returned"

AfterCommand(c) == IF kind[c] = "redirect" THEN "close" ELSE "returned"

Unused == {p \in Pids : proc[p] = "none" /\ \A c \in Callers : child[c] # p}

MayFork == Unused # {} /\ Cardinality(Children) < MAXCHILDREN

Fork(c) ==
  /\ MayFork
  /\ LET pid == CHOOSE p \in Unused : TRUE
     IN  /\ child' = [child EXCEPT ![c] = pid]
         /\ proc' = [proc EXCEPT ![pid] = "forked"]
  /\ disturbed' = [d \in Callers |->
       IF d = c THEN Children # {} ELSE disturbed[d] \/ at[d] = "wait"]
  /\ Move(c, "fork", "wait")
  /\ UNCHANGED <<kind, result, openFds, outputfile, own>>

(* Faulty variant: the parent's branch is taken, and waits. *)
ForkFailureIgnored(c) ==
  /\ "FORK" \in CallFaults \/ ~ MayFork
  /\ Move(c, "fork", "wait")
  /\ UNCHANGED <<kind, child, result, openFds, outputfile, proc, own,
                 disturbed>>

ForkFails(c) ==
  /\ "FORK" \in CallFaults \/ ~ MayFork
  /\ Answers(c, FALSE)
  /\ Move(c, "fork", AfterCommand(c))
  /\ UNCHANGED <<kind, child, openFds, outputfile, proc, own,
                 disturbed>>

-----------------------------------------------------------------------------
(* The child *)

Becomes(p, from, to) ==
  /\ proc[p] = from /\ proc' = [proc EXCEPT ![p] = to]
  /\ own' = [c \in Callers |->
       IF child[c] = p /\ to \in Ended THEN to ELSE own[c]]

(* dup2, for a call that redirects, and execv; either failing,              *)
(* exit(EXIT_FAILURE).                                                      *)
Redirects(p) == \E c \in Callers : child[c] = p /\ kind[c] = "redirect"

Execv(p) ==
  /\ \/ Becomes(p, "forked", "running")
     \/ /\ "EXEC" \in CallFaults \/ ("DUP2" \in CallFaults /\ Redirects(p))
        /\ Becomes(p, "forked", "failure")
  /\ UNCHANGED outputfile

(* The output files once the command has written its output.  Faulty        *)
(* variant: standard output was not redirected.                             *)
WrittenToTerminal(p) == outputfile

Written(p) ==
  [c \in Callers |->
     IF child[c] = p /\ kind[c] = "redirect" THEN "own" ELSE outputfile[c]]

(* The command ends, with status 0, another one, or by a signal; one that   *)
(* succeeds has written its output.                                         *)
CommandEnds(p) ==
  \/ Becomes(p, "running", "success") /\ outputfile' = Written(p)
  \/ /\ \E end \in Ended \ {"success"} : Becomes(p, "running", end)
     /\ outputfile' \in {outputfile, Written(p)}

Child(p) ==
  /\ Execv(p) \/ CommandEnds(p)
  /\ UNCHANGED <<at, kind, child, result, openFds, disturbed>>

-----------------------------------------------------------------------------
(* Waiting for it *)

Reap(p) == proc' = [proc EXCEPT ![p] = "none"]

(* WIFEXITED(status) && WEXITSTATUS(status) == 0.  Faulty variant: the      *)
(* status of a command that was killed is taken for an exit status.         *)
StatusTrueKilled(p) == proc[p] \in {"success", "killed"}

StatusTrue(p) == proc[p] = "success"

(* wait(&status).  Without a child it leaves status uninitialised, and      *)
(* nobody looks at what it returned.  Faulty variant: while (wait(&status)  *)
(* != child_pid).                                                           *)
WaitForOwn(c) ==
  \E p \in Zombies :
    /\ Reap(p)
    /\ IF p = child[c]
       THEN /\ Answers(c, StatusTrue(p))
            /\ Move(c, "wait", AfterCommand(c))
       ELSE at[c] = "wait" /\ UNCHANGED <<result, at>>
    /\ UNCHANGED disturbed

NoStatus(c) ==
  /\ \E garbage \in BOOLEAN : Answers(c, garbage)
  /\ Move(c, "wait", AfterCommand(c))
  /\ disturbed' = [disturbed EXCEPT ![c] = TRUE]
  /\ UNCHANGED proc

Wait(c) ==
  \/ \E p \in Zombies :
       /\ Reap(p)
       /\ Answers(c, StatusTrue(p))
       /\ Move(c, "wait", AfterCommand(c))
       /\ UNCHANGED disturbed
  \/ Children = {} /\ NoStatus(c)

(* system: waitpid for its own child, again after a signal; -1 if another   *)
(* thread's wait has taken that child.                                      *)
Waitpid(c) ==
  /\ \/ /\ child[c] \in Zombies
        /\ Reap(child[c])
        /\ Answers(c, StatusTrue(child[c]))
     \/ /\ child[c] \notin Children
        /\ Answers(c, FALSE)
        /\ UNCHANGED proc
  /\ Move(c, "wait", "returned")
  /\ UNCHANGED disturbed

AwaitCommand(c) ==
  /\ \/ kind[c] = "system" /\ Waitpid(c)
     \/ kind[c] # "system" /\ Wait(c)
  /\ UNCHANGED <<kind, child, openFds, outputfile, own>>

(* A signal ends wait in the same way.  It may come at any time, or never.  *)
Interrupted(c) ==
  /\ "SIGNAL" \in CallFaults /\ kind[c] # "system"
  /\ NoStatus(c)
  /\ UNCHANGED <<kind, child, openFds, outputfile, own>>

CloseOutput(c) ==
  /\ Move(c, "close", "returned")
  /\ openFds' = openFds \ {c}
  /\ UNCHANGED <<kind, child, result, outputfile, proc, own, disturbed>>

CallStep(c) ==
  \/ OpenOutput(c) \/ Fork(c) \/ ForkFails(c) \/ AwaitCommand(c)
  \/ CloseOutput(c)

-----------------------------------------------------------------------------

CallsInit ==
  /\ at = [c \in Callers |-> "idle"]
  /\ kind = [c \in Callers |-> "system"]
  /\ child = [c \in Callers |-> NOCHILD]
  /\ result = [c \in Callers |-> FALSE]
  /\ openFds = {}
  /\ outputfile = [c \in Callers |-> "old"]
  /\ proc = [p \in Pids |-> "none"]
  /\ own = [c \in Callers |-> "none"]
  /\ disturbed = [c \in Callers |-> FALSE]

CallsNext ==
  \/ \E c \in Callers : Call(c) \/ CallStep(c) \/ Interrupted(c)
  \/ \E p \in Pids : Child(p)

(* Threads are scheduled, and the commands the calls start end.  Nobody has *)
(* to call again, and no signal has to come.                                *)
CallsFairness ==
  /\ \A c \in Callers : WF_callVars(CallStep(c))
  /\ \A p \in Pids : WF_callVars(Child(p))

CallsSpec == CallsInit /\ [][CallsNext]_callVars

-----------------------------------------------------------------------------
(* Properties *)

CallsTypeOK ==
  /\ at \in [Callers -> {"idle", "open", "fork", "wait", "close", "returned"}]
  /\ kind \in [Callers -> {"system", "exec", "redirect"}]
  /\ child \in [Callers -> Pids \union {NOCHILD}]
  /\ result \in [Callers -> BOOLEAN] /\ disturbed \in [Callers -> BOOLEAN]
  /\ openFds \subseteq Callers
  /\ outputfile \in [Callers -> {"old", "empty", "own"}]
  /\ proc \in [Pids -> {"none", "forked", "running"} \union Ended]
  /\ own \in [Callers -> {"none"} \union Ended]
  /\ \A c \in Callers : at[c] = "wait" => child[c] # NOCHILD
  /\ \A c, d \in Callers : child[c] = child[d] => c = d \/ child[c] = NOCHILD

(* "true if the command ... were executed successfully ..., false if an     *)
(* error occurred" (systemcalls.c), for a call that no other child and no   *)
(* signal met: it tells what became of its own command, has taken away its  *)
(* child, and its output file holds the output of its command.              *)
LoneCallTruthful ==
  \A c \in Callers :
    at[c] = "returned" /\ ~ disturbed[c] =>
      /\ result[c] <=> own[c] = "success"
      /\ child[c] \notin Children
      /\ kind[c] = "redirect" /\ result[c] => outputfile[c] = "own"

(* do_system never claims a success its own command did not have, whatever  *)
(* else the process does at the time.                                       *)
SystemNeverLies ==
  \A c \in Callers :
    at[c] = "returned" /\ kind[c] = "system" /\ result[c] =>
      own[c] = "success"

(* "This file will be closed at completion of the function call"            *)
(* (systemcalls.c, do_exec_redirect), whichever step failed.                *)
OutputClosed == \A c \in openFds : at[c] \in {"fork", "wait", "close"}

(* Every call returns, though another may take its child away: then there   *)
(* is another child to wait for, or none.  Only if other threads go on      *)
(* starting children for ever may they take away every one of them that it  *)
(* could wait for, and not even then from do_system.                        *)
EveryCallReturns ==
  \A c \in Callers :
    \/ Underway(c) ~> ~ Underway(c)
    \/ []<><<kind[c] # "system"
             /\ \E d \in Callers \ {c} : Fork(d)>>_callVars

(* What the comments of do_exec and do_exec_redirect promise without any    *)
(* condition: true means that the call's own command succeeded.             *)
ResultIsOwn ==
  \A c \in Callers : at[c] = "returned" /\ result[c] => own[c] = "success"
=============================================================================
