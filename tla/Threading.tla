----------------------------- MODULE Threading -----------------------------
(***************************************************************************)
(* examples/threading/threading.c: start_thread_obtaining_mutex starts a    *)
(* thread that sleeps, obtains a mutex, sleeps again and releases it.       *)
(*                                                                         *)
(* Time passes in microseconds, by Tick, while some thread sleeps: a timer  *)
(* counts down what is left of its sleep, and waited and held count what a  *)
(* clock on the wall would show.  A sleep ends some time after its timer.   *)
(* The header's "joiner thread" is the caller's: it joins, looks at the     *)
(* flag and frees thread_data.                                              *)
(***************************************************************************)
EXTENDS Integers

CONSTANTS
  Threads,      \* the threads the caller wants started
  Milliseconds, \* the int arguments the caller may pass
  MS,           \* 1000, microseconds in a millisecond
  UINT,         \* 2^32, the number of values of an unsigned int
  NOBODY,       \* the owner of an unlocked mutex
  ThreadFaults  \* what may fail: among "MALLOC", "CREATE", "SLEEP", "MUTEX"

ASSUME ThreadingAssumption ==
  /\ NOBODY \notin Threads
  /\ Milliseconds \subseteq Int
  /\ MS \in Nat \ {0} /\ UINT \in Nat \ {0}

VARIABLES
  exited,              \* exit(1) was called
  pc,                  \* where each thread, or the call that starts it, is
  wait_to_obtain_ms,   \* the arguments, as the caller passed them
  wait_to_release_ms,
  thread_data,         \* the allocated struct: "none", "live", "freed"
  thread_complete_success,
  mutex,               \* its owner, or NOBODY
  timer,               \* what is left of the sleep under way
  waited, held         \* the time since the thread began, and since it locked

threadVars ==
  <<exited, pc, wait_to_obtain_ms, wait_to_release_ms, thread_data,
    thread_complete_success, mutex, timer, waited, held>>

arguments == <<wait_to_obtain_ms, wait_to_release_ms>>
clock     == <<timer, waited, held>>
struct    == <<arguments, thread_data, thread_complete_success>>

Goto(t, from, to) == pc[t] = from /\ pc' = [pc EXCEPT ![t] = to]

(* usleep(ms * 1000): the int becomes unsigned, and so does the product.    *)
Micros(ms) == ((ms % UINT) * MS) % UINT

-----------------------------------------------------------------------------
(* start_thread_obtaining_mutex *)

(* malloc, and the struct's initialisation: the flag is not initialised.    *)
(* Faulty variant: neither is wait_to_release_ms (the memory holds zeros).  *)
ReleaseForgotten(t) ==
  /\ Goto(t, "none", "create")
  /\ \E obtain \in Milliseconds, flag \in BOOLEAN :
       /\ wait_to_obtain_ms' = [wait_to_obtain_ms EXCEPT ![t] = obtain]
       /\ thread_complete_success' =
            [thread_complete_success EXCEPT ![t] = flag]
  /\ thread_data' = [thread_data EXCEPT ![t] = "live"]
  /\ UNCHANGED <<exited, wait_to_release_ms, mutex, clock>>

StartThread(t) ==
  /\ Goto(t, "none", "create")
  /\ \E obtain, release \in Milliseconds, flag \in BOOLEAN :
       /\ wait_to_obtain_ms' = [wait_to_obtain_ms EXCEPT ![t] = obtain]
       /\ wait_to_release_ms' = [wait_to_release_ms EXCEPT ![t] = release]
       /\ thread_complete_success' =
            [thread_complete_success EXCEPT ![t] = flag]
  /\ thread_data' = [thread_data EXCEPT ![t] = "live"]
  /\ UNCHANGED <<exited, mutex, clock>>

MallocFails(t) ==
  /\ "MALLOC" \in ThreadFaults /\ pc[t] = "none"
  /\ exited' = TRUE
  /\ UNCHANGED <<pc, struct, mutex, clock>>

(* pthread_create; if it fails the struct is freed.  Faulty variant: it is  *)
(* freed in any case.                                                       *)
CreateFrees(t) ==
  /\ Goto(t, "create", "begin")
  /\ thread_data' = [thread_data EXCEPT ![t] = "freed"]
  /\ UNCHANGED <<exited, arguments, thread_complete_success, mutex, clock>>

Create(t) ==
  /\ \/ Goto(t, "create", "begin") /\ UNCHANGED thread_data
     \/ /\ "CREATE" \in ThreadFaults
        /\ Goto(t, "create", "refused")
        /\ thread_data' = [thread_data EXCEPT ![t] = "freed"]
  /\ UNCHANGED <<exited, arguments, thread_complete_success, mutex, clock>>

-----------------------------------------------------------------------------
(* threadfunc *)

(* The two sleeps.  Faulty variant: each takes the other's argument. *)
TimeToSleepSwapped(t) == Micros(wait_to_release_ms[t])

TimeToSleep(t) == Micros(wait_to_obtain_ms[t])

TimeToHold(t) == Micros(wait_to_release_ms[t])

Begin(t) ==
  /\ Goto(t, "begin", "waiting")
  /\ timer' = [timer EXCEPT ![t] = TimeToSleep(t)]
  /\ waited' = [waited EXCEPT ![t] = 0]
  /\ UNCHANGED <<exited, struct, mutex, held>>

WaitDone(t) ==
  /\ timer[t] = 0
  /\ Goto(t, "waiting", "lock")
  /\ UNCHANGED <<exited, struct, mutex, clock>>

Lock(t) ==
  /\ mutex = NOBODY
  /\ mutex' = t
  /\ Goto(t, "lock", "holding")
  /\ timer' = [timer EXCEPT ![t] = TimeToHold(t)]
  /\ held' = [held EXCEPT ![t] = 0]
  /\ UNCHANGED <<exited, struct, waited>>

HoldDone(t) ==
  /\ timer[t] = 0
  /\ Goto(t, "holding", "unlock")
  /\ UNCHANGED <<exited, struct, mutex, clock>>

(* Faulty variant: the mutex stays locked. *)
UnlockForgotten(t) ==
  /\ Goto(t, "unlock", "success")
  /\ UNCHANGED <<exited, struct, mutex, clock>>

Unlock(t) ==
  /\ mutex' = NOBODY
  /\ Goto(t, "unlock", "success")
  /\ UNCHANGED <<exited, struct, clock>>

Succeed(t) ==
  /\ Goto(t, "success", "returned")
  /\ thread_complete_success' = [thread_complete_success EXCEPT ![t] = TRUE]
  /\ UNCHANGED <<exited, arguments, thread_data, mutex, clock>>

(* return NULL: a sleep cut short by a signal, or a mutex function that     *)
(* fails.  Nothing is unlocked.                                             *)
GiveUp(t) ==
  /\ \/ /\ "SLEEP" \in ThreadFaults
        /\ Goto(t, "waiting", "failed") \/ Goto(t, "holding", "failed")
     \/ /\ "MUTEX" \in ThreadFaults
        /\ Goto(t, "lock", "failed") \/ Goto(t, "unlock", "failed")
  /\ timer' = [timer EXCEPT ![t] = 0]
  /\ UNCHANGED <<exited, struct, mutex, waited, held>>

Threadfunc(t) ==
  \/ Begin(t) \/ WaitDone(t) \/ Lock(t) \/ HoldDone(t) \/ Unlock(t)
  \/ Succeed(t)

-----------------------------------------------------------------------------

(* The joiner gets the struct, or NULL, and frees what it gets.  With the   *)
(* thread its clocks are gone.                                              *)
Join(t) ==
  /\ \/ /\ Goto(t, "returned", "joined")
        /\ thread_data' = [thread_data EXCEPT ![t] = "freed"]
     \/ Goto(t, "failed", "lost") /\ UNCHANGED thread_data
  /\ waited' = [waited EXCEPT ![t] = 0] /\ held' = [held EXCEPT ![t] = 0]
  /\ UNCHANGED <<exited, arguments, thread_complete_success, mutex, timer>>

Tick ==
  /\ \E t \in Threads : timer[t] > 0
  /\ timer' = [t \in Threads |-> IF timer[t] > 0 THEN timer[t] - 1 ELSE 0]
  /\ waited' = [t \in Threads |->
       IF pc[t] = "waiting" THEN waited[t] + 1 ELSE waited[t]]
  /\ held' = [t \in Threads |->
       IF pc[t] = "holding" THEN held[t] + 1 ELSE held[t]]
  /\ UNCHANGED <<exited, pc, struct, mutex>>

ThreadingInit ==
  /\ exited = FALSE
  /\ pc = [t \in Threads |-> "none"]
  /\ wait_to_obtain_ms = [t \in Threads |-> 0]
  /\ wait_to_release_ms = [t \in Threads |-> 0]
  /\ thread_data = [t \in Threads |-> "none"]
  /\ thread_complete_success = [t \in Threads |-> FALSE]
  /\ mutex = NOBODY
  /\ timer = [t \in Threads |-> 0]
  /\ waited = [t \in Threads |-> 0] /\ held = [t \in Threads |-> 0]

ThreadStep(t) ==
  \/ StartThread(t) \/ MallocFails(t) \/ Create(t)
  \/ Threadfunc(t) \/ GiveUp(t) \/ Join(t)

ThreadingNext == ~ exited /\ (Tick \/ \E t \in Threads : ThreadStep(t))

ThreadingSpec == ThreadingInit /\ [][ThreadingNext]_threadVars

(* Time passes, threads are scheduled, and the caller joins them.  Each     *)
(* thread locks once, so a mutex that is free long enough will do.          *)
ThreadingFairness ==
  /\ WF_threadVars(~ exited /\ Tick)
  /\ \A t \in Threads : WF_threadVars(~ exited /\ (Threadfunc(t) \/ Join(t)))

-----------------------------------------------------------------------------
(* Properties *)

Labels ==
  {"none", "create", "refused", "begin", "waiting", "lock", "holding",
   "unlock", "success", "returned", "failed", "joined", "lost"}

ThreadingTypeOK ==
  /\ exited \in BOOLEAN
  /\ pc \in [Threads -> Labels]
  /\ wait_to_obtain_ms \in [Threads -> Milliseconds \union {0}]
  /\ wait_to_release_ms \in [Threads -> Milliseconds \union {0}]
  /\ \A t \in Threads : pc[t] # "none" =>
       {wait_to_obtain_ms[t], wait_to_release_ms[t]} \subseteq Milliseconds
  /\ thread_data \in [Threads -> {"none", "live", "freed"}]
  /\ thread_complete_success \in [Threads -> BOOLEAN]
  /\ mutex \in Threads \union {NOBODY}
  /\ timer \in [Threads -> 0 .. UINT - 1]
  /\ waited \in [Threads -> Nat] /\ held \in [Threads -> Nat]

Failed == {"failed", "lost"}

(* A thread that runs holds the mutex exactly from Lock to Unlock, and one  *)
(* that reports success has released it.  (One that gave up may keep it.)   *)
MutexHeldInside ==
  \A t \in Threads :
    pc[t] \notin Failed => (mutex = t <=> pc[t] \in {"holding", "unlock"})

Fits(ms) == ms >= 0 /\ ms * MS < UINT

(* The header's contract: the thread "sleeps wait_to_obtain_ms number of    *)
(* milliseconds, then obtains the mutex, then holds for wait_to_release_ms  *)
(* milliseconds": never less, unless the product leaves the unsigned int.   *)
TimesKept ==
  \A t \in Threads :
    /\ pc[t] \in {"lock", "holding", "unlock", "success", "returned"}
       /\ Fits(wait_to_obtain_ms[t])
         => waited[t] >= wait_to_obtain_ms[t] * MS
    /\ pc[t] \in {"unlock", "success", "returned"}
       /\ Fits(wait_to_release_ms[t])
         => held[t] >= wait_to_release_ms[t] * MS

(* The struct lives as long as its thread may use it, the joiner that gets  *)
(* it finds the flag set, and it is gone after that.                        *)
DataOutlivesThread ==
  \A t \in Threads :
    /\ pc[t] \in Labels \ {"none", "refused", "joined"} =>
         thread_data[t] = "live"
    /\ pc[t] \in {"refused", "joined"} => thread_data[t] = "freed"
    /\ pc[t] \in {"returned", "joined"} => thread_complete_success[t]

(* A thread has given up inside the critical section. *)
LeftLocked == \E t \in Threads : pc[t] \in Failed /\ mutex = t

(* Every thread created comes to its end and is joined, however the threads *)
(* queue for the mutex, unless one of them gave up holding it.              *)
ThreadsEnd ==
  \A t \in Threads :
    (pc[t] = "begin") ~>
      (pc[t] \in {"joined", "lost"} \/ LeftLocked \/ exited)
=============================================================================
