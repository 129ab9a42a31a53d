--------------------------- MODULE ThreadingProofs ---------------------------
(***************************************************************************)
(* For every number of threads, every argument, every width of the unsigned *)
(* int and every fault the model knows: mutual exclusion, the times of the  *)
(* header's contract, and the life of thread_data.                          *)
(***************************************************************************)
EXTENDS Threading, TLAPS

(* What TimesKept needs while the clock runs: the time shown and the time   *)
(* left make up the sleep that usleep was asked for.                        *)
WaitTime(t) ==
  /\ pc[t] = "waiting" => waited[t] + timer[t] >= TimeToSleep(t)
  /\ pc[t] \in {"lock", "holding", "unlock", "success", "returned"} =>
       waited[t] >= TimeToSleep(t)

HoldTime(t) ==
  /\ pc[t] = "holding" => held[t] + timer[t] >= TimeToHold(t)
  /\ pc[t] \in {"unlock", "success", "returned"} => held[t] >= TimeToHold(t)

TimeInv == \A t \in Threads : WaitTime(t) /\ HoldTime(t)

-----------------------------------------------------------------------------
(* Lemmas about the conversion to microseconds. *)

(* A remainder is one of the modulus's values. *)
LEMMA ModRange ==
  ASSUME NEW x \in Int
  PROVE  x % UINT \in 0 .. UINT - 1
  BY ThreadingAssumption

(* What usleep gets is an unsigned int. *)
LEMMA MicrosRange ==
  ASSUME NEW ms \in Int
  PROVE  Micros(ms) \in 0 .. UINT - 1
<1>1. ms % UINT \in Int
  BY ModRange
<1>2. (ms % UINT) * MS \in Int
  BY <1>1, ThreadingAssumption
<1> QED
  BY <1>2, ModRange DEF Micros

(* A number below the modulus is its own remainder. *)
LEMMA ModIdentity ==
  ASSUME NEW x \in Int, 0 <= x, x < UINT
  PROVE  x % UINT = x
  BY ThreadingAssumption

(* A product that fits is the number of microseconds asked for. *)
LEMMA MicrosExact ==
  ASSUME NEW ms \in Int, Fits(ms)
  PROVE  Micros(ms) = ms * MS
<1>1. ms >= 0 /\ ms * MS < UINT /\ MS >= 1 /\ MS \in Int
  BY ThreadingAssumption DEF Fits
<1>2. ms <= ms * MS /\ ms * MS \in Int
  BY <1>1
<1>3. ms % UINT = ms
  <2>1. ms < UINT
    BY <1>1, <1>2, ThreadingAssumption
  <2> QED
    BY <1>1, <2>1, ModIdentity
<1>4. (ms * MS) % UINT = ms * MS
  BY <1>1, <1>2, ModIdentity
<1> QED
  BY <1>3, <1>4 DEF Micros

(* Both sleeps fit a timer. *)
LEMMA SleepRange ==
  ASSUME ThreadingTypeOK, NEW t \in Threads
  PROVE  TimeToSleep(t) \in 0 .. UINT - 1 /\ TimeToHold(t) \in 0 .. UINT - 1
<1>0. Milliseconds \union {0} \subseteq Int
  BY ThreadingAssumption
<1>1. wait_to_obtain_ms[t] \in Int /\ wait_to_release_ms[t] \in Int
  BY <1>0 DEF ThreadingTypeOK
<1> QED
  BY <1>1, MicrosRange DEF TimeToSleep, TimeToHold

-----------------------------------------------------------------------------
(* Type correctness *)

LEMMA TypeInit == ThreadingInit => ThreadingTypeOK
<1> SUFFICES ASSUME ThreadingInit
             PROVE  ThreadingTypeOK
  OBVIOUS
<1>1. thread_complete_success \in [Threads -> BOOLEAN] /\ exited \in BOOLEAN
  BY Zenon DEF ThreadingInit
<1>2. timer \in [Threads -> 0 .. UINT - 1]
  BY ThreadingAssumption DEF ThreadingInit
<1> QED
  BY <1>1, <1>2 DEF ThreadingInit, ThreadingTypeOK, Labels

LEMMA TypeStep ==
  ThreadingTypeOK /\ [ThreadingNext]_threadVars => ThreadingTypeOK'
<1> SUFFICES ASSUME ThreadingTypeOK, [ThreadingNext]_threadVars
             PROVE  ThreadingTypeOK'
  OBVIOUS
<1> USE DEF ThreadingTypeOK, Labels
<1>1. ASSUME NEW t \in Threads, StartThread(t)
      PROVE  ThreadingTypeOK'
  BY <1>1, ThreadingAssumption DEF StartThread, Goto, clock
<1>2. ASSUME NEW t \in Threads, MallocFails(t)
      PROVE  ThreadingTypeOK'
  BY <1>2 DEF MallocFails, struct, arguments, clock
<1>3. ASSUME NEW t \in Threads, Create(t)
      PROVE  ThreadingTypeOK'
  BY <1>3 DEF Create, Goto, arguments, clock
<1>4. ASSUME NEW t \in Threads, Begin(t)
      PROVE  ThreadingTypeOK'
  <2>1. TimeToSleep(t) \in 0 .. UINT - 1
    BY SleepRange
  <2> QED
    BY <1>4, <2>1 DEF Begin, Goto, struct, arguments
<1>5. ASSUME NEW t \in Threads, WaitDone(t) \/ HoldDone(t) \/ Unlock(t)
      PROVE  ThreadingTypeOK'
  BY <1>5 DEF WaitDone, HoldDone, Unlock, Goto, struct, arguments, clock
<1>6. ASSUME NEW t \in Threads, Lock(t)
      PROVE  ThreadingTypeOK'
  <2>1. TimeToHold(t) \in 0 .. UINT - 1
    BY SleepRange
  <2> QED
    BY <1>6, <2>1 DEF Lock, Goto, struct, arguments
<1>7. ASSUME NEW t \in Threads, Succeed(t)
      PROVE  ThreadingTypeOK'
  BY <1>7 DEF Succeed, Goto, arguments, clock
<1>8. ASSUME NEW t \in Threads, GiveUp(t)
      PROVE  ThreadingTypeOK'
  BY <1>8, ThreadingAssumption DEF GiveUp, Goto, struct, arguments
<1>9. ASSUME NEW t \in Threads, Join(t)
      PROVE  ThreadingTypeOK'
  BY <1>9 DEF Join, Goto, arguments
<1>10. ASSUME Tick
       PROVE  ThreadingTypeOK'
  <2>1. timer' \in [Threads -> 0 .. UINT - 1]
    BY <1>10, ThreadingAssumption DEF Tick
  <2> QED
    BY <1>10, <2>1 DEF Tick, struct, arguments
<1>11. CASE UNCHANGED threadVars
  BY <1>11 DEF threadVars
<1> QED
  BY <1>1, <1>2, <1>3, <1>4, <1>5, <1>6, <1>7, <1>8, <1>9, <1>10, <1>11
  DEF ThreadingNext, ThreadStep, Threadfunc

(* The state keeps its types, and a sleep is always less than the width of  *)
(* the unsigned int.                                                        *)
THEOREM ThreadingTyped == ThreadingSpec => []ThreadingTypeOK
  BY TypeInit, TypeStep, PTL DEF ThreadingSpec

-----------------------------------------------------------------------------
(* Mutual exclusion: who holds the mutex follows from where the threads     *)
(* that did not give up are.                                                *)

LEMMA MutexStep ==
  ASSUME ThreadingTypeOK, MutexHeldInside, [ThreadingNext]_threadVars
  PROVE  MutexHeldInside'
<1> USE DEF MutexHeldInside, Failed, ThreadingTypeOK
<1>1. ASSUME NEW t \in Threads,
             StartThread(t) \/ Create(t) \/ Begin(t) \/ WaitDone(t)
               \/ HoldDone(t) \/ Succeed(t) \/ GiveUp(t) \/ Join(t)
      PROVE  MutexHeldInside'
  BY <1>1 DEF StartThread, Create, Begin, WaitDone, HoldDone, Succeed, GiveUp,
              Join, Goto, struct, clock, arguments
<1>2. ASSUME NEW t \in Threads, Lock(t)
      PROVE  MutexHeldInside'
  BY <1>2, ThreadingAssumption DEF Lock, Goto
<1>3. ASSUME NEW t \in Threads, Unlock(t)
      PROVE  MutexHeldInside'
  BY <1>3, ThreadingAssumption DEF Unlock, Goto
<1>4. ASSUME Tick \/ (\E t \in Threads : MallocFails(t))
             \/ UNCHANGED threadVars
      PROVE  MutexHeldInside'
  BY <1>4 DEF Tick, MallocFails, threadVars
<1> QED
  BY <1>1, <1>2, <1>3, <1>4 DEF ThreadingNext, ThreadStep, Threadfunc

(* threadfunc holds the mutex exactly between its lock and its unlock.      *)
THEOREM MutualExclusion == ThreadingSpec => []MutexHeldInside
<1>1. ThreadingInit => MutexHeldInside
  BY ThreadingAssumption DEF ThreadingInit, MutexHeldInside
<1>2. ThreadingTypeOK /\ MutexHeldInside /\ [ThreadingNext]_threadVars
        => MutexHeldInside'
  BY MutexStep
<1> QED
  BY <1>1, <1>2, ThreadingTyped, PTL DEF ThreadingSpec

-----------------------------------------------------------------------------
(* The struct's life *)

LEMMA DataStep ==
  ASSUME ThreadingTypeOK, DataOutlivesThread, [ThreadingNext]_threadVars
  PROVE  DataOutlivesThread'
<1> USE DEF DataOutlivesThread, Labels, ThreadingTypeOK
<1>1. ASSUME NEW t \in Threads, StartThread(t) \/ Create(t)
      PROVE  DataOutlivesThread'
  BY <1>1 DEF StartThread, Create, Goto
<1>2. ASSUME NEW t \in Threads,
             Begin(t) \/ WaitDone(t) \/ Lock(t) \/ HoldDone(t) \/ Unlock(t)
               \/ GiveUp(t)
      PROVE  DataOutlivesThread'
  BY <1>2 DEF Begin, WaitDone, Lock, HoldDone, Unlock, GiveUp, Goto, struct
<1>3. ASSUME NEW t \in Threads, Succeed(t) \/ Join(t)
      PROVE  DataOutlivesThread'
  BY <1>3 DEF Succeed, Join, Goto
<1>4. ASSUME Tick \/ (\E t \in Threads : MallocFails(t))
             \/ UNCHANGED threadVars
      PROVE  DataOutlivesThread'
  BY <1>4 DEF Tick, MallocFails, threadVars, struct
<1> QED
  BY <1>1, <1>2, <1>3, <1>4 DEF ThreadingNext, ThreadStep, Threadfunc

(* The struct is there as long as its thread, and freed once.               *)
THEOREM DataLives == ThreadingSpec => []DataOutlivesThread
<1>1. ThreadingInit => DataOutlivesThread
  BY DEF ThreadingInit, DataOutlivesThread, Labels
<1>2. ThreadingTypeOK /\ DataOutlivesThread /\ [ThreadingNext]_threadVars
        => DataOutlivesThread'
  BY DataStep
<1> QED
  BY <1>1, <1>2, ThreadingTyped, PTL DEF ThreadingSpec

-----------------------------------------------------------------------------
(* The times *)

(* Only the step that begins a sleep touches its argument or its clock.     *)
LEMMA TimeStep ==
  ASSUME ThreadingTypeOK, TimeInv, [ThreadingNext]_threadVars
  PROVE  TimeInv'
<1> SUFFICES ASSUME NEW u \in Threads
             PROVE  WaitTime(u)' /\ HoldTime(u)'
  BY DEF TimeInv
<1>0. /\ WaitTime(u) /\ HoldTime(u)
      /\ waited[u] \in Nat /\ held[u] \in Nat /\ timer[u] \in Nat
      /\ TimeToSleep(u) \in Nat /\ TimeToHold(u) \in Nat
  BY SleepRange DEF TimeInv, ThreadingTypeOK
<1> DEFINE Same == TimeToSleep(u)' = TimeToSleep(u)
                   /\ TimeToHold(u)' = TimeToHold(u)
<1>1. ASSUME NEW t \in Threads, StartThread(t)
      PROVE  WaitTime(u)' /\ HoldTime(u)'
  <2>1. CASE u = t
    BY <1>1, <2>1 DEF StartThread, Goto, WaitTime, HoldTime, ThreadingTypeOK
  <2>2. CASE u # t
    <3>1. Same
      BY <1>1, <2>2
      DEF StartThread, TimeToSleep, TimeToHold, ThreadingTypeOK
    <3> QED
      BY <1>0, <1>1, <2>2, <3>1
      DEF StartThread, Goto, clock, WaitTime, HoldTime, ThreadingTypeOK
  <2> QED
    BY <2>1, <2>2
<1>2. ASSUME NEW t \in Threads, Create(t) \/ WaitDone(t) \/ HoldDone(t)
               \/ Unlock(t) \/ Succeed(t)
      PROVE  WaitTime(u)' /\ HoldTime(u)'
  <2>1. Same /\ UNCHANGED clock
    BY <1>2 DEF Create, WaitDone, HoldDone, Unlock, Succeed, struct, arguments,
                TimeToSleep, TimeToHold
  <2> QED
    BY <1>0, <1>2, <2>1
    DEF Create, WaitDone, HoldDone, Unlock, Succeed, Goto, clock, WaitTime,
        HoldTime, ThreadingTypeOK
<1>3. ASSUME NEW t \in Threads, Begin(t)
      PROVE  WaitTime(u)' /\ HoldTime(u)'
  <2>1. Same
    BY <1>3 DEF Begin, struct, arguments, TimeToSleep, TimeToHold
  <2> QED
    BY <1>0, <1>3, <2>1
    DEF Begin, Goto, WaitTime, HoldTime, ThreadingTypeOK
<1>4. ASSUME NEW t \in Threads, Lock(t)
      PROVE  WaitTime(u)' /\ HoldTime(u)'
  <2>1. Same
    BY <1>4 DEF Lock, struct, arguments, TimeToSleep, TimeToHold
  <2> QED
    BY <1>0, <1>4, <2>1
    DEF Lock, Goto, WaitTime, HoldTime, ThreadingTypeOK
<1>5. ASSUME NEW t \in Threads, GiveUp(t) \/ Join(t)
      PROVE  WaitTime(u)' /\ HoldTime(u)'
  <2>1. Same
    BY <1>5 DEF GiveUp, Join, struct, arguments, TimeToSleep, TimeToHold
  <2> QED
    BY <1>0, <1>5, <2>1
    DEF GiveUp, Join, Goto, WaitTime, HoldTime, ThreadingTypeOK
<1>6. ASSUME Tick
      PROVE  WaitTime(u)' /\ HoldTime(u)'
  <2>1. Same
    BY <1>6 DEF Tick, struct, arguments, TimeToSleep, TimeToHold
  <2> QED
    BY <1>0, <1>6, <2>1 DEF Tick, WaitTime, HoldTime
<1>7. ASSUME (\E t \in Threads : MallocFails(t)) \/ UNCHANGED threadVars
      PROVE  WaitTime(u)' /\ HoldTime(u)'
  <2>1. Same /\ UNCHANGED <<pc, clock>>
    BY <1>7 DEF MallocFails, threadVars, struct, arguments, clock,
                TimeToSleep, TimeToHold
  <2> QED
    BY <1>0, <2>1 DEF clock, WaitTime, HoldTime
<1> QED
  BY <1>1, <1>2, <1>3, <1>4, <1>5, <1>6, <1>7
  DEF ThreadingNext, ThreadStep, Threadfunc

LEMMA TimeInvKept ==
  ASSUME ThreadingTypeOK, TimeInv
  PROVE  TimesKept
<1> SUFFICES ASSUME NEW t \in Threads
             PROVE  /\ pc[t] \in {"lock", "holding", "unlock", "success",
                                   "returned"} /\ Fits(wait_to_obtain_ms[t])
                         => waited[t] >= wait_to_obtain_ms[t] * MS
                    /\ pc[t] \in {"unlock", "success", "returned"}
                       /\ Fits(wait_to_release_ms[t])
                         => held[t] >= wait_to_release_ms[t] * MS
  BY DEF TimesKept
<1>0. Milliseconds \union {0} \subseteq Int
  BY ThreadingAssumption
<1>1. wait_to_obtain_ms[t] \in Int /\ wait_to_release_ms[t] \in Int
  BY <1>0 DEF ThreadingTypeOK
<1>2. Fits(wait_to_obtain_ms[t]) => TimeToSleep(t) = wait_to_obtain_ms[t] * MS
  BY <1>1, MicrosExact DEF TimeToSleep
<1>3. Fits(wait_to_release_ms[t]) => TimeToHold(t) = wait_to_release_ms[t] * MS
  BY <1>1, MicrosExact DEF TimeToHold
<1> QED
  BY <1>2, <1>3 DEF TimeInv, WaitTime, HoldTime

(* The header's contract: a thread whose times fit the unsigned int sleeps  *)
(* and holds the mutex for as long as it was asked to.                      *)
THEOREM TimesAreKept == ThreadingSpec => []TimesKept
<1>1. ThreadingInit => TimeInv
  BY DEF ThreadingInit, TimeInv, WaitTime, HoldTime
<1>2. ThreadingTypeOK /\ TimeInv /\ [ThreadingNext]_threadVars => TimeInv'
  BY TimeStep
<1>3. ThreadingTypeOK /\ TimeInv => TimesKept
  BY TimeInvKept
<1> QED
  BY <1>1, <1>2, <1>3, ThreadingTyped, PTL DEF ThreadingSpec
=============================================================================
