----------------------- MODULE ServerLifecycleProofs -----------------------
(***************************************************************************)
(* For every number of clients, signals and faults: the types, the daemon's *)
(* streams and getaddrinfo's list, however many signals come; and that no   *)
(* node is freed twice, when at most one comes.                             *)
(*                                                                         *)
(* The argument about interruptions is the same everywhere.  A handler      *)
(* returns only after it raised its own signal, so the frame it returns to  *)
(* has a signal due and is interrupted again before it runs: whatever the   *)
(* interrupted code relied on may be false as long as a signal is due.      *)
(***************************************************************************)
EXTENDS ServerLifecycle, SequenceTheorems, TLAPS

CleanupLabels ==
  {"close_data", "first", "remove", "free", "nullify", "destroy",
   "free_result", "forget_result"}

HandlerLabels ==
  {"check", "set", "syslog", "shutdown", "caught", "reraise"} \union CleanupLabels

StartLabels ==
  {"install", "getaddrinfo", "socket", "bind", "bound", "forget_bound", "daemon"}

ServingLabels == {"listen", "loop", "accept", "malloc", "create", "insert"}

(* What the frame a thread was started with may execute. *)
BaseLabels(t) ==
  IF t = MAIN THEN StartLabels \union ServingLabels \union CleanupLabels \union {"exit"}
              ELSE {"serve", "logging", "open"}

FrameSet == [at : Labels, sig : Signals \union {NONE}]

(* Below, the code a thread was started with; above it handlers, each with  *)
(* a signal of its own.  Main never returns from its last frame.            *)
StackOK(t, stack) ==
  \A i \in DOMAIN stack :
    /\ i = 1 => stack[i].at \in BaseLabels(t) /\ stack[i].sig = NONE
    /\ i > 1 => stack[i].at \in HandlerLabels /\ stack[i].sig \in Signals
    /\ \A j \in DOMAIN stack : stack[i].sig = stack[j].sig => i = j

FramesOK ==
  /\ frames \in [Threads -> Seq(FrameSet)]
  /\ frames[MAIN] # <<>>
  /\ \A t \in Threads : StackOK(t, frames[t])
  /\ \A c \in Clients : frames[c] # <<>> => c \in started

Base == frames[MAIN][1].at

(* As long as a client may open a file only descriptor 0 is ever closed.    *)
OnTerminal == streams[1] = "terminal" /\ streams[2] = "terminal"

OffTerminal ==
  streams[1] = "null" /\ streams[2] = "null" /\ streams[0] # "terminal"

StreamsOK ==
  /\ streams \in [0 .. 2 -> {"terminal", "null", "closed"}]
  /\ dataFileDescriptor \in {0, BEYOND}
  /\ streams[1] = "terminal" <=> streams[2] = "terminal"
  /\ Base \in StartLabels => OnTerminal
  /\ Base \in ServingLabels \/ started # {} => OnTerminal \/ OffTerminal

ListOK ==
  /\ head \in Seq(started) /\ started \in SUBSET Clients
  /\ freed \in [Clients -> Nat]
  /\ Base = "insert" => freshNode \in started
  /\ Base \in StartLabels => started = {}

DataOK ==
  /\ process \in {"alive", "terminated", "crashed", "exited"}
  /\ pending \in [Threads -> SUBSET Signals]
  /\ disposition \in [Signals -> {"handler", "default"}]
  /\ node \in Clients \union {NULL} /\ freshNode \in Clients \union {NULL}
  /\ library \in Threads \union {NOBODY}
  /\ result \in {NULL, "list"} /\ released \in Nat

TypeInv == FramesOK /\ DataOK /\ StreamsOK /\ ListOK

(* A handler past its "set" is interrupted by others that only look at the  *)
(* flag, and cleans up with both flags set.                                 *)
Entering == {"check", "set"}

HandlersOK ==
  \A i \in DOMAIN frames[MAIN] : i > 1 =>
    /\ frames[MAIN][i].at \notin Entering =>
         /\ fatal_error_in_progress
         /\ \A j \in DOMAIN frames[MAIN] : j > i => frames[MAIN][j].at = "check"
    /\ frames[MAIN][i].at \in CleanupLabels => signal_caught

Forgetting == {"forget_bound", "forget_result"}

AddressOK ==
  /\ Base \in {"install", "getaddrinfo"} => result = NULL /\ released = 0
  /\ Base \in {"daemon", "exit"} \union ServingLabels => result = NULL
  /\ started # {} => result = NULL
  /\ result # NULL /\ released > 0 =>
       \E i \in DOMAIN frames[MAIN] : frames[MAIN][i].at \in Forgetting
  /\ released > 1 =>
       /\ signal_caught /\ Base \in Forgetting
       /\ Alive => Len(frames[MAIN]) > 1 \/ Due(MAIN) # {}
  /\ process = "exited" => result = NULL

AddressInv == TypeInv /\ HandlersOK /\ AddressOK

OneSignal ==
  /\ sent \in Nat
  /\ \A c \in Clients : pending[c] = {} /\ Len(frames[c]) \in {0, 1}
  /\ sent = 0 => pending[MAIN] = {} /\ Len(frames[MAIN]) = 1

NodesOK ==
  /\ process # "crashed"
  /\ \A i, j \in DOMAIN head : head[i] = head[j] => i = j
  /\ \A c \in Clients : /\ freed[c] <= 1
                        /\ c \in ToSet(head) \/ c \notin started => freed[c] = 0
  /\ Base = "insert" => freshNode \notin ToSet(head) /\ freed[freshNode] = 0
  /\ Alive /\ Due(MAIN) = {} =>
       /\ At(MAIN, "remove") => node \in ToSet(head)
       /\ At(MAIN, "free") => /\ node \in started /\ node \notin ToSet(head)
                              /\ freed[node] = 0
                              /\ Base = "insert" => node # freshNode

NodesInv == TypeInv /\ OneSignal /\ NodesOK

-----------------------------------------------------------------------------
(* Lemmas about stacks of frames *)

(* t's innermost frame is now at a label; nothing else changed. *)
Moved(t, label) ==
  /\ frames' \in [Threads -> Seq(FrameSet)]
  /\ \A u \in Threads \ {t} : frames'[u] = frames[u]
  /\ Len(frames'[t]) = Len(frames[t])
  /\ \A i \in 1 .. Len(frames[t]) :
       /\ i < Len(frames[t]) => frames'[t][i] = frames[t][i]
       /\ frames'[t][i].sig = frames[t][i].sig
  /\ frames'[t][Len(frames[t])].at = label

(* t's innermost frame is gone. *)
Popped(t) ==
  /\ frames' \in [Threads -> Seq(FrameSet)]
  /\ \A u \in Threads \ {t} : frames'[u] = frames[u]
  /\ Len(frames'[t]) = Len(frames[t]) - 1
  /\ \A i \in 1 .. Len(frames[t]) - 1 : frames'[t][i] = frames[t][i]

(* t is interrupted by the handler of a signal. *)
Pushed(t, sig) ==
  /\ frames' \in [Threads -> Seq(FrameSet)]
  /\ \A u \in Threads \ {t} : frames'[u] = frames[u]
  /\ Len(frames'[t]) = Len(frames[t]) + 1
  /\ \A i \in 1 .. Len(frames[t]) : frames'[t][i] = frames[t][i]
  /\ frames'[t][Len(frames[t]) + 1] = Frame("check", sig)

(* The innermost frame is a handler's, or the one the thread started with. *)
LEMMA TopFrame ==
  ASSUME FramesOK, NEW t \in Threads, frames[t] # <<>>
  PROVE  /\ Len(frames[t]) \in Nat \ {0}
         /\ DOMAIN frames[t] = 1 .. Len(frames[t])
         /\ Top(t) = frames[t][Len(frames[t])]
         /\ Top(t) \in FrameSet
         /\ Len(frames[t]) = 1 => Top(t).at \in BaseLabels(t) /\ Top(t).sig = NONE
         /\ Len(frames[t]) # 1 => Top(t).at \in HandlerLabels
                                  /\ Top(t).sig \in Signals
<1>1. frames[t] \in Seq(FrameSet)
  BY DEF FramesOK
<1>2. Len(frames[t]) \in Nat \ {0} /\ DOMAIN frames[t] = 1 .. Len(frames[t])
  BY <1>1, EmptySeq, LenProperties
<1>3. Top(t) = frames[t][Len(frames[t])] /\ Top(t) \in FrameSet
  BY <1>1, <1>2, ElementOfSeq DEF Top, Last
<1>4. Len(frames[t]) \in DOMAIN frames[t]
  BY <1>2
<1> QED
  BY <1>2, <1>3, <1>4 DEF FramesOK, StackOK

(* Goto moves the innermost frame. *)
LEMMA GotoFrames ==
  ASSUME FramesOK, NEW t \in Threads, frames[t] # <<>>,
         NEW label \in Labels, Goto(t, label)
  PROVE  Moved(t, label)
<1> DEFINE n == Len(frames[t])
           f == Frame(label, Last(frames[t]).sig)
           q == Append(Front(frames[t]), f)
<1>1. frames[t] \in Seq(FrameSet) /\ frames \in [Threads -> Seq(FrameSet)]
  BY DEF FramesOK
<1>2. /\ n \in Nat \ {0} /\ Top(t) \in FrameSet
      /\ Last(frames[t]) = Top(t) /\ Top(t) = frames[t][n]
  BY TopFrame DEF Top
<1>3. f \in FrameSet
  BY <1>2 DEF Frame, FrameSet
<1>4. /\ Front(frames[t]) \in Seq(FrameSet) /\ Len(Front(frames[t])) = n - 1
      /\ \A i \in 1 .. n - 1 : Front(frames[t])[i] = frames[t][i]
  <2>1. \A i \in 1 .. n - 1 : frames[t][i] \in FrameSet
    BY <1>1, <1>2, ElementOfSeq
  <2> QED
    BY <1>2, <2>1, SubSeqProperties DEF Front
<1>5. /\ q \in Seq(FrameSet) /\ Len(q) = n
      /\ \A i \in 1 .. n - 1 : q[i] = frames[t][i]
      /\ q[n] = f
  BY <1>2, <1>3, <1>4
<1>6. frames' = [frames EXCEPT ![t] = q]
  BY DEF Goto
<1>7. frames'[t] = q
  BY <1>1, <1>6
<1>8. frames' \in [Threads -> Seq(FrameSet)]
  BY <1>1, <1>5, <1>6
<1>9. \A i \in 1 .. n : q[i].sig = frames[t][i].sig
  BY <1>2, <1>5 DEF Frame
<1>10. q[n].at = label
  BY <1>5 DEF Frame
<1> QED
  BY <1>1, <1>2, <1>5, <1>6, <1>7, <1>8, <1>9, <1>10 DEF Moved

(* Return takes the innermost frame away. *)
LEMMA ReturnFrames ==
  ASSUME FramesOK, NEW t \in Threads, frames[t] # <<>>, Return(t)
  PROVE  Popped(t)
<1> DEFINE n == Len(frames[t])
<1>1. frames[t] \in Seq(FrameSet) /\ frames \in [Threads -> Seq(FrameSet)]
  BY DEF FramesOK
<1>2. n \in Nat \ {0}
  BY TopFrame
<1>3. /\ Front(frames[t]) \in Seq(FrameSet) /\ Len(Front(frames[t])) = n - 1
      /\ \A i \in 1 .. n - 1 : Front(frames[t])[i] = frames[t][i]
  <2>1. \A i \in 1 .. n - 1 : frames[t][i] \in FrameSet
    BY <1>1, <1>2, ElementOfSeq
  <2> QED
    BY <1>2, <2>1, SubSeqProperties DEF Front
<1> QED
  BY <1>1, <1>3 DEF Return, Popped

(* A frame that moves within its own code keeps the stacks in order. *)
LEMMA MovedOK ==
  ASSUME FramesOK, NEW t \in Threads, frames[t] # <<>>,
         NEW label \in Labels, Moved(t, label),
         Len(frames[t]) = 1 => label \in BaseLabels(t),
         Len(frames[t]) # 1 => label \in HandlerLabels,
         started \subseteq started'
  PROVE  /\ FramesOK'
         /\ Base' = IF t = MAIN /\ Len(frames[t]) = 1 THEN label ELSE Base
<1>0. /\ Len(frames[t]) \in Nat \ {0}
      /\ Len(frames[t]) # 1 => 1 \in 1 .. Len(frames[t]) /\ 1 < Len(frames[t])
  <2>1. \A n \in Nat \ {0} : n # 1 => 1 \in 1 .. n /\ 1 < n
    OBVIOUS
  <2> QED
    BY <2>1, TopFrame
<1>1. /\ Len(frames[t]) \in Nat \ {0}
      /\ \A u \in Threads : /\ DOMAIN frames[u] = 1 .. Len(frames[u])
                            /\ DOMAIN frames'[u] = 1 .. Len(frames'[u])
                            /\ Len(frames[u]) \in Nat
  BY TopFrame, LenProperties DEF FramesOK, Moved
<1>2. \A u \in Threads : frames'[u] # <<>> => frames[u] # <<>>
  BY <1>1, EmptySeq DEF Moved
<1>3. MAIN \in Threads /\ frames'[MAIN] # <<>>
  <2>1. MAIN \in Threads
    BY DEF Threads
  <2>2. frames[MAIN] # <<>>
    BY DEF FramesOK
  <2>3. CASE t = MAIN
    BY <1>1, <2>1, <2>3, EmptySeq DEF Moved
  <2>4. CASE t # MAIN
    BY <2>1, <2>2, <2>4 DEF Moved
  <2> QED
    BY <2>1, <2>3, <2>4
<1>4. StackOK(t, frames[t]) /\ t \in Threads
  BY DEF FramesOK
<1>5. StackOK(t, frames'[t])
  <2>1. DOMAIN frames'[t] = DOMAIN frames[t]
    BY <1>1 DEF Moved
  <2>2. \A i \in DOMAIN frames[t] : frames'[t][i].sig = frames[t][i].sig
    BY <1>1 DEF Moved
  <2>3. \A i \in DOMAIN frames[t] :
          \/ frames'[t][i] = frames[t][i]
          \/ i = Len(frames[t]) /\ frames'[t][i].at = label
    BY <1>1 DEF Moved
  <2>4. \A i \in DOMAIN frames[t] :
          /\ i = 1 => frames'[t][i].at \in BaseLabels(t)
          /\ i > 1 => frames'[t][i].at \in HandlerLabels
    <3> SUFFICES ASSUME NEW i \in DOMAIN frames[t]
                 PROVE  /\ i = 1 => frames'[t][i].at \in BaseLabels(t)
                        /\ i > 1 => frames'[t][i].at \in HandlerLabels
      OBVIOUS
    <3>1. CASE frames'[t][i] = frames[t][i]
      BY <1>4, <3>1 DEF StackOK
    <3>2. CASE i = Len(frames[t]) /\ frames'[t][i].at = label
      BY <3>2
    <3> QED
      BY <2>3, <3>1, <3>2
  <2>5. \A i \in DOMAIN frames[t] :
          /\ i = 1 => frames[t][i].sig = NONE
          /\ i > 1 => frames[t][i].sig \in Signals
          /\ \A j \in DOMAIN frames[t] :
               frames[t][i].sig = frames[t][j].sig => i = j
    BY <1>4 DEF StackOK
  <2> QED
    BY <2>1, <2>2, <2>4, <2>5 DEF StackOK
<1>6. FramesOK'
  <2>1. \A c \in Clients : frames'[c] # <<>> => c \in started'
    <3>1. \A c \in Clients : c \in Threads /\ (frames[c] # <<>> => c \in started)
      BY DEF FramesOK, Threads
    <3> QED
      BY <1>2, <3>1
  <2>2. \A u \in Threads : StackOK(u, frames'[u])
    BY <1>5 DEF FramesOK, Moved
  <2> QED
    BY <1>3, <2>1, <2>2 DEF FramesOK, Moved
<1>7. Base' = IF t = MAIN /\ Len(frames[t]) = 1 THEN label ELSE Base
  <2>1. CASE t # MAIN
    BY <1>3, <2>1 DEF Base, Moved
  <2>2. CASE t = MAIN /\ Len(frames[t]) = 1
    BY <2>2 DEF Base, Moved
  <2>3. CASE t = MAIN /\ Len(frames[t]) # 1
    <3>1. 1 \in 1 .. Len(frames[t]) /\ 1 < Len(frames[t])
      BY <1>0, <2>3
    <3> QED
      BY <2>3, <3>1 DEF Base, Moved
  <2> QED
    BY <2>1, <2>2, <2>3
<1> QED
  BY <1>6, <1>7

(* Neither does a return from a handler, or from a client's last frame. *)
LEMMA PoppedOK ==
  ASSUME FramesOK, NEW t \in Threads, frames[t] # <<>>, Popped(t),
         t = MAIN => Len(frames[t]) > 1, started \subseteq started'
  PROVE  FramesOK' /\ Base' = Base
<1>1. /\ Len(frames[t]) \in Nat \ {0}
      /\ \A u \in Threads : /\ DOMAIN frames[u] = 1 .. Len(frames[u])
                            /\ DOMAIN frames'[u] = 1 .. Len(frames'[u])
                            /\ Len(frames[u]) \in Nat
  BY TopFrame, LenProperties DEF FramesOK, Popped
<1>2. \A u \in Threads : u # t => frames'[u] = frames[u]
  BY DEF Popped
<1>3. MAIN \in Threads /\ frames'[MAIN] # <<>>
  <2>1. MAIN \in Threads /\ frames[MAIN] # <<>>
    BY DEF Threads, FramesOK
  <2>2. CASE t = MAIN
    BY <1>1, <2>2, EmptySeq DEF Popped
  <2>3. CASE t # MAIN
    BY <1>2, <2>1, <2>3
  <2> QED
    BY <2>1, <2>2, <2>3
<1>4. StackOK(t, frames'[t])
  <2>1. StackOK(t, frames[t])
    BY DEF FramesOK
  <2>2. \A i \in DOMAIN frames'[t] : i \in DOMAIN frames[t]
                                    /\ frames'[t][i] = frames[t][i]
    BY <1>1 DEF Popped
  <2> QED
    BY <2>1, <2>2 DEF StackOK
<1>5. FramesOK'
  <2>1. \A c \in Clients : frames'[c] # <<>> => c \in started'
    <3>1. \A c \in Clients : c \in Threads /\ (frames[c] # <<>> => c \in started)
      BY DEF FramesOK, Threads
    <3> QED
      BY <1>2, <3>1
  <2>2. \A u \in Threads : StackOK(u, frames'[u])
    BY <1>2, <1>4 DEF FramesOK
  <2> QED
    BY <1>3, <2>1, <2>2 DEF FramesOK, Popped
<1>6. Base' = Base
  <2>1. CASE t # MAIN
    BY <1>2, <1>3, <2>1 DEF Base
  <2>2. CASE t = MAIN
    <3>1. 1 \in 1 .. Len(frames[t]) - 1
      BY <1>1, <2>2
    <3> QED
      BY <2>2, <3>1 DEF Base, Popped
  <2> QED
    BY <2>1, <2>2
<1> QED
  BY <1>5, <1>6


(* Which code executes a label. *)
LEMMA LabelDepth ==
  ASSUME FramesOK, NEW t \in Threads, NEW from, At(t, from)
  PROVE  /\ frames[t] # <<>> /\ Top(t).at = from
         /\ Len(frames[t]) \in Nat \ {0}
         /\ from \in HandlerLabels \ CleanupLabels => Len(frames[t]) # 1
         /\ from \notin HandlerLabels => Len(frames[t]) = 1
         /\ Len(frames[t]) = 1 => from \in BaseLabels(t)
         /\ Len(frames[t]) = 1 /\ t = MAIN => Base = from
<1>1. frames[t] # <<>> /\ Top(t).at = from
  BY DEF At
<1>2. /\ Len(frames[t]) \in Nat \ {0}
      /\ Top(t) = frames[t][Len(frames[t])]
      /\ Len(frames[t]) = 1 => from \in BaseLabels(t)
      /\ Len(frames[t]) # 1 => from \in HandlerLabels
  BY <1>1, TopFrame
<1>3. (HandlerLabels \ CleanupLabels) \intersect BaseLabels(t) = {}
  BY DEF HandlerLabels, BaseLabels, CleanupLabels, StartLabels, ServingLabels
<1> QED
  BY <1>1, <1>2, <1>3 DEF Base

(* One step of t's innermost frame, and what it does to main's first. *)
MovesOn(t, from, label) ==
  /\ At(t, from) /\ Moved(t, label)
  /\ FramesOK'
  /\ \/ Base' = Base /\ (t = MAIN => Len(frames[t]) # 1)
     \/ t = MAIN /\ Len(frames[t]) = 1 /\ Base = from /\ Base' = label

LEMMA GotoStep ==
  ASSUME FramesOK, NEW t \in Threads, NEW from, NEW label \in Labels,
         At(t, from), Goto(t, label), started \subseteq started',
         \/ from \in HandlerLabels \ CleanupLabels /\ label \in HandlerLabels
         \/ from \in CleanupLabels /\ label \in CleanupLabels \union {End(t)}
         \/ t = MAIN /\ from \notin HandlerLabels /\ label \in BaseLabels(MAIN)
         \/ t # MAIN /\ from \in BaseLabels(t) /\ label \in BaseLabels(t)
  PROVE  MovesOn(t, from, label)
<1>1. /\ frames[t] # <<>>
      /\ Len(frames[t]) \in Nat \ {0}
      /\ from \in HandlerLabels \ CleanupLabels => Len(frames[t]) # 1
      /\ from \notin HandlerLabels => Len(frames[t]) = 1
      /\ Len(frames[t]) = 1 => from \in BaseLabels(t)
      /\ Len(frames[t]) = 1 /\ t = MAIN => Base = from
  BY LabelDepth
<1>2. Moved(t, label)
  BY <1>1, GotoFrames
<1>3. Len(frames[t]) = 1 => Top(t).sig = NONE
  BY <1>1, TopFrame
<1>4. Len(frames[t]) # 1 => Top(t).sig # NONE
  BY <1>1, TopFrame, LifecycleAssumption
<1>5. t = MAIN \/ CleanupLabels \intersect BaseLabels(t) = {}
  BY DEF CleanupLabels, BaseLabels
<1>6. CleanupLabels \subseteq HandlerLabels /\ "reraise" \in HandlerLabels
  BY DEF HandlerLabels
<1>7. CleanupLabels \union {"exit"} \subseteq BaseLabels(MAIN)
  BY DEF BaseLabels
<1>8. BaseLabels(t) \intersect HandlerLabels = {} \/ t = MAIN
  BY DEF BaseLabels, HandlerLabels, CleanupLabels
<1>9. Len(frames[t]) = 1 => label \in BaseLabels(t)
  <2>1. CASE from \in CleanupLabels /\ label \in CleanupLabels \union {End(t)}
    BY <1>1, <1>3, <1>5, <1>7, <2>1 DEF End
  <2> QED
    BY <1>1, <2>1
<1>10. Len(frames[t]) # 1 => label \in HandlerLabels
  <2>1. CASE from \in CleanupLabels /\ label \in CleanupLabels \union {End(t)}
    BY <1>4, <1>6, <2>1 DEF End
  <2> QED
    BY <1>1, <1>8, <2>1
<1>11. FramesOK' /\ Base' = IF t = MAIN /\ Len(frames[t]) = 1 THEN label ELSE Base
  BY <1>1, <1>2, <1>9, <1>10, MovedOK
<1> QED
  BY <1>1, <1>2, <1>11 DEF MovesOn

(* A handler that returns leaves its own signal due. *)
LEMMA RaiseStep ==
  ASSUME FramesOK, DataOK, NEW t \in Threads, NEW from,
         At(t, from), from \in HandlerLabels \ CleanupLabels,
         Raise(t), started \subseteq started'
  PROVE  /\ Popped(t) /\ FramesOK' /\ Base' = Base
         /\ Len(frames[t]) \in Nat /\ Len(frames[t]) > 1
         /\ Due(t)' # {}
         /\ pending' \in [Threads -> SUBSET Signals]
         /\ \A u \in Threads : u # t => pending'[u] = pending[u]
<1> DEFINE n == Len(frames[t])
<1>1. /\ frames[t] # <<>> /\ n \in Nat \ {0} /\ n # 1
      /\ Top(t) = frames[t][n] /\ Top(t).sig \in Signals
      /\ DOMAIN frames[t] = 1 .. n
  BY LabelDepth, TopFrame
<1>2. n > 1
  <2>1. \A m \in Nat \ {0} : m # 1 => m > 1
    OBVIOUS
  <2> QED
    BY <1>1, <2>1
<1>3. Popped(t)
  BY <1>1, ReturnFrames DEF Raise
<1>4. FramesOK' /\ Base' = Base
  BY <1>1, <1>2, <1>3, PoppedOK
<1>5. pending' = [pending EXCEPT ![t] = @ \union {Top(t).sig}]
  BY DEF Raise
<1>6. pending \in [Threads -> SUBSET Signals]
  BY DEF DataOK
<1>7. Top(t).sig \in pending'[t]
  BY <1>5, <1>6
<1>8. Top(t).sig \notin Handling(t)'
  <2>1. DOMAIN frames'[t] = 1 .. n - 1
    BY <1>1, <1>3, LenProperties DEF Popped
  <2>2. \A i \in DOMAIN frames'[t] : frames'[t][i].sig # Top(t).sig
    <3> SUFFICES ASSUME NEW i \in DOMAIN frames'[t]
                 PROVE  frames'[t][i].sig # Top(t).sig
      OBVIOUS
    <3>1. frames'[t][i] = frames[t][i] /\ i \in DOMAIN frames[t] /\ i # n
      BY <1>1, <1>3, <2>1 DEF Popped
    <3>2. StackOK(t, frames[t]) /\ n \in DOMAIN frames[t]
      BY <1>1 DEF FramesOK
    <3> QED
      BY <1>1, <3>1, <3>2 DEF StackOK
  <2> QED
    BY <2>2 DEF Handling
<1> QED
  BY <1>1, <1>2, <1>3, <1>4, <1>5, <1>6, <1>7, <1>8 DEF Due

-----------------------------------------------------------------------------
(* Type correctness, the streams and the list *)

(* What the clean-up and the clients may do to the descriptors. *)
OthersKept ==
  /\ streams' \in [0 .. 2 -> {"terminal", "null", "closed"}]
  /\ dataFileDescriptor' \in {0, BEYOND}
  /\ streams'[1] = streams[1] /\ streams'[2] = streams[2]
  /\ streams[0] # "terminal" => streams'[0] # "terminal"

LEMMA UnchangedKept ==
  ASSUME StreamsOK, UNCHANGED descriptors
  PROVE  OthersKept
  BY DEF StreamsOK, OthersKept, descriptors

LEMMA KeptStreams ==
  ASSUME StreamsOK, OthersKept,
         Base' \in StartLabels => Base \in StartLabels,
         Base' \in ServingLabels => Base \in StartLabels \union ServingLabels,
         started' # {} => started # {} \/ Base \in ServingLabels
  PROVE  StreamsOK'
<1>1. /\ OnTerminal => OnTerminal'
      /\ OffTerminal => OffTerminal'
  BY DEF OthersKept, OnTerminal, OffTerminal
<1> QED
  BY <1>1 DEF StreamsOK, OthersKept

(* A step that moves main on within the parts of its life. *)
LEMMA QuietType ==
  ASSUME StreamsOK, ListOK, OthersKept,
         UNCHANGED <<head, freshNode, freed, started>>,
         \/ Base' = Base
         \/ Base' \in CleanupLabels \union {"exit"}
         \/ Base \in StartLabels /\ Base' \in StartLabels
         \/ /\ Base \in StartLabels \union ServingLabels
            /\ Base' \in ServingLabels \ {"insert"}
  PROVE  StreamsOK' /\ ListOK'
<1>1. /\ (CleanupLabels \union {"exit"}) \intersect StartLabels = {}
      /\ (CleanupLabels \union {"exit"}) \intersect ServingLabels = {}
      /\ StartLabels \intersect ServingLabels = {}
      /\ "insert" \in ServingLabels
  BY DEF CleanupLabels, StartLabels, ServingLabels
<1>3. Base' \in StartLabels => Base \in StartLabels
  BY <1>1
<1>4. Base' \in ServingLabels => Base \in StartLabels \union ServingLabels
  BY <1>1
<1>5. Base' = "insert" => Base = "insert"
  BY <1>1
<1>6. StreamsOK'
  BY <1>3, <1>4, KeptStreams
<1>7. ListOK'
  BY <1>3, <1>5 DEF ListOK
<1> QED
  BY <1>6, <1>7

LEMMA HandlerType ==
  ASSUME TypeInv, NEW t \in Threads, Handler(t)
  PROVE  TypeInv'
<1> DEFINE Calls == {"check", "set", "syslog", "shutdown", "caught", "reraise"}
<1>1. FramesOK /\ DataOK /\ StreamsOK /\ ListOK
  BY DEF TypeInv
<1>2. /\ Calls \subseteq HandlerLabels \ CleanupLabels
      /\ Calls \union {"close_data"} \subseteq HandlerLabels \intersect Labels
  BY DEF HandlerLabels, CleanupLabels, Labels
<1>3. UNCHANGED <<process, list, address, descriptors, mutex, library>>
  BY DEF Handler, Check, Set, Syslog, Shutdown, Caught, Reraise, outside
<1>4. /\ UNCHANGED <<head, freshNode, freed, started, node, result, released>>
      /\ OthersKept
  BY <1>1, <1>3, UnchangedKept DEF list, address
<1>5. ASSUME NEW from \in Calls, NEW label \in Calls \union {"close_data"},
             At(t, from), Goto(t, label), UNCHANGED <<pending, disposition>>
      PROVE  TypeInv'
  <2>1. MovesOn(t, from, label)
    BY <1>1, <1>2, <1>4, <1>5, GotoStep
  <2>2. Len(frames[t]) # 1
    BY <1>1, <1>2, <1>5, LabelDepth
  <2>3. FramesOK' /\ Base' = Base
    BY <2>1, <2>2 DEF MovesOn
  <2>4. DataOK'
    BY <1>1, <1>3, <1>4, <1>5 DEF DataOK
  <2> QED
    BY <1>1, <1>4, <2>3, <2>4, QuietType DEF TypeInv
<1>6. ASSUME NEW from \in Calls, At(t, from), Raise(t),
             disposition' \in [Signals -> {"handler", "default"}]
      PROVE  TypeInv'
  <2>1. /\ FramesOK' /\ Base' = Base
        /\ pending' \in [Threads -> SUBSET Signals]
    BY <1>1, <1>2, <1>4, <1>6, RaiseStep
  <2>2. DataOK'
    BY <1>1, <1>3, <1>4, <1>6, <2>1 DEF DataOK
  <2> QED
    BY <1>1, <1>4, <2>1, <2>2, QuietType DEF TypeInv
<1>7. CASE Check(t)
  BY <1>1, <1>5, <1>6, <1>7 DEF Check, signals, DataOK
<1>8. CASE Set(t)
  BY <1>5, <1>8 DEF Set, signals
<1>9. CASE Syslog(t)
  BY <1>5, <1>9 DEF Syslog, signals
<1>10. CASE Shutdown(t)
  BY <1>5, <1>10 DEF Shutdown, signals
<1>11. CASE Caught(t)
  BY <1>5, <1>11 DEF Caught, signals
<1>12. CASE Reraise(t)
  <2>1. disposition' \in [Signals -> {"handler", "default"}]
    BY <1>1, <1>12 DEF Reraise, Default, DataOK
  <2> QED
    BY <1>6, <1>12, <2>1 DEF Reraise, RaiseAgain
<1> QED
  BY <1>7, <1>8, <1>9, <1>10, <1>11, <1>12 DEF Handler

(* A step within cleanup_on_exit, or out of it. *)
LEMMA CleanupMove ==
  ASSUME FramesOK, NEW t \in Threads, NEW from \in CleanupLabels,
         NEW label \in CleanupLabels \union {End(t)},
         At(t, from), Goto(t, label), UNCHANGED started
  PROVE  /\ MovesOn(t, from, label)
         /\ Base' = Base \/ Base' \in CleanupLabels \union {"exit"}
<1>1. CleanupLabels \union {"exit", "reraise"} \subseteq Labels
  BY DEF CleanupLabels, Labels
<1>2. label \in Labels /\ End(t) \in {"exit", "reraise"}
  BY <1>1 DEF End
<1>3. MovesOn(t, from, label)
  BY <1>2, GotoStep
<1>4. CASE Base' = Base
  BY <1>3, <1>4
<1>5. CASE Base' # Base
  <2>1. t = MAIN /\ Len(frames[t]) = 1 /\ Base' = label
    BY <1>3, <1>5 DEF MovesOn
  <2>2. End(t) = "exit"
    <3>1. Top(t).sig = NONE
      BY <2>1, LabelDepth, TopFrame
    <3> QED
      BY <3>1 DEF End
  <2> QED
    BY <1>3, <2>1, <2>2
<1> QED
  BY <1>4, <1>5

(* SLIST_REMOVE takes one node out and leaves the others where they are. *)
LEMMA Unlinked ==
  ASSUME NEW S, NEW q \in Seq(S), NEW i \in DOMAIN q
  PROVE  /\ RemoveAt(q, i) \in Seq(S)
         /\ Len(RemoveAt(q, i)) = Len(q) - 1
         /\ \A j \in 1 .. Len(q) - 1 :
              RemoveAt(q, i)[j] = IF j < i THEN q[j] ELSE q[j + 1]
<1> DEFINE a == SubSeq(q, 1, i - 1)
           b == SubSeq(q, i + 1, Len(q))
<1>1. Len(q) \in Nat /\ DOMAIN q = 1 .. Len(q) /\ i \in 1 .. Len(q)
  BY LenProperties
<1>2. \A j \in 1 .. Len(q) : q[j] \in S
  BY ElementOfSeq
<1>3. /\ a \in Seq(S) /\ Len(a) = i - 1
      /\ \A j \in 1 .. i - 1 : a[j] = q[j]
  <2>1. \A j \in 1 .. i - 1 : q[j] \in S
    BY <1>1, <1>2
  <2>2. /\ a \in Seq(S)
        /\ Len(a) = IF 1 <= i - 1 THEN i - 1 - 1 + 1 ELSE 0
        /\ \A j \in 1 .. i - 1 - 1 + 1 : a[j] = q[1 + j - 1]
    BY <1>1, <2>1, SubSeqProperties
  <2> QED
    BY <1>1, <2>2
<1>4. /\ b \in Seq(S) /\ Len(b) = Len(q) - i
      /\ \A j \in 1 .. Len(q) - i : b[j] = q[i + j]
  <2>1. \A j \in i + 1 .. Len(q) : q[j] \in S
    BY <1>1, <1>2
  <2>2. /\ b \in Seq(S)
        /\ Len(b) = IF i + 1 <= Len(q) THEN Len(q) - (i + 1) + 1 ELSE 0
        /\ \A j \in 1 .. Len(q) - (i + 1) + 1 : b[j] = q[(i + 1) + j - 1]
    BY <1>1, <2>1, SubSeqProperties
  <2> QED
    BY <1>1, <2>2
<1>5. /\ a \o b \in Seq(S) /\ Len(a \o b) = Len(a) + Len(b)
      /\ \A j \in 1 .. Len(a) + Len(b) :
           (a \o b)[j] = IF j <= Len(a) THEN a[j] ELSE b[j - Len(a)]
  BY <1>3, <1>4, ConcatProperties
<1>6. Len(a) + Len(b) = Len(q) - 1
  BY <1>1, <1>3, <1>4
<1>7. \A j \in 1 .. Len(q) - 1 : (a \o b)[j] = IF j < i THEN q[j] ELSE q[j + 1]
  <2> SUFFICES ASSUME NEW j \in 1 .. Len(q) - 1
               PROVE  (a \o b)[j] = IF j < i THEN q[j] ELSE q[j + 1]
    OBVIOUS
  <2>1. CASE j < i
    BY <1>1, <1>3, <1>5, <1>6, <2>1
  <2>2. CASE ~ (j < i)
    <3>1. j - (i - 1) \in 1 .. Len(q) - i /\ i + (j - (i - 1)) = j + 1
      BY <1>1, <2>2
    <3>2. (a \o b)[j] = b[j - (i - 1)]
      <4>1. Len(a) = i - 1 /\ j \in 1 .. Len(a) + Len(b)
        BY <1>3, <1>6
      <4>2. ~ (j <= Len(a))
        BY <1>1, <2>2, <4>1
      <4>3. (a \o b)[j] = b[j - Len(a)]
        BY <1>5, <4>1, <4>2
      <4> QED
        BY <4>1, <4>3
    <3>3. b[j - (i - 1)] = q[j + 1]
      BY <1>4, <3>1
    <3> QED
      BY <2>2, <3>2, <3>3
  <2> QED
    BY <2>1, <2>2
<1> QED
  BY <1>5, <1>6, <1>7 DEF RemoveAt

LEMMA CleanupType ==
  ASSUME TypeInv, NEW t \in Threads, Cleanup(t)
  PROVE  TypeInv'
<1>1. FramesOK /\ DataOK /\ StreamsOK /\ ListOK
  BY DEF TypeInv
<1>2. UNCHANGED <<signals, flags, freshNode, started, library>>
  BY DEF Cleanup, CloseDataFile, First, Unlink, Free, Nullify, Destroy,
         FreeResult, ForgetResult, list, outside
<1>3. UNCHANGED <<pending, disposition, sent>>
  BY <1>2 DEF signals
<1>13. OthersKept
  <2>1. CASE CloseDataFile(t)
    BY <1>1, <2>1 DEF CloseDataFile, StreamsOK, OthersKept, BEYOND
  <2>2. CASE UNCHANGED descriptors
    BY <1>1, <2>2, UnchangedKept
  <2> QED
    BY <2>1, <2>2 DEF Cleanup, First, Unlink, Free, Nullify, Destroy,
         FreeResult, ForgetResult, outside
<1>4. ASSUME NEW from \in CleanupLabels,
             NEW label \in CleanupLabels \union {End(t)},
             At(t, from), Goto(t, label), UNCHANGED process,
             head' \in Seq(started), freed' \in [Clients -> Nat],
             node' \in Clients \union {NULL}, result' \in {NULL, "list"},
             released' \in Nat
      PROVE  TypeInv'
  <2>1. /\ FramesOK'
        /\ Base' = Base \/ Base' \in CleanupLabels \union {"exit"}
    BY <1>1, <1>2, <1>4, CleanupMove DEF MovesOn
  <2>2. DataOK'
    BY <1>1, <1>2, <1>3, <1>4 DEF DataOK
  <2>3. /\ Base' \in StartLabels => Base \in StartLabels
        /\ Base' \in ServingLabels => Base \in ServingLabels
        /\ Base' = "insert" => Base = "insert"
    BY <2>1 DEF CleanupLabels, StartLabels, ServingLabels
  <2>4. StreamsOK'
    BY <1>1, <1>2, <1>13, <2>3, KeptStreams
  <2>5. ListOK'
    BY <1>1, <1>2, <1>4, <2>3 DEF ListOK
  <2> QED
    BY <2>1, <2>2, <2>4, <2>5 DEF TypeInv
<1>5. /\ head \in Seq(started) /\ freed \in [Clients -> Nat]
      /\ node \in Clients \union {NULL} /\ result \in {NULL, "list"}
      /\ released \in Nat /\ started \subseteq Clients
  BY <1>1 DEF DataOK, ListOK
<1>14. CASE CloseDataFile(t)
  BY <1>4, <1>5, <1>14 DEF CloseDataFile, list, address, CleanupLabels
<1>6. CASE First(t)
  <2>1. UNCHANGED <<process, head, freed, result, released>>
    BY <1>6 DEF First, address
  <2>2. CASE head # <<>> /\ node' = Head(head) /\ Goto(t, "remove")
    <3>1. Head(head) \in Clients
      BY <1>5, <2>2, HeadTailProperties
    <3> QED
      BY <1>4, <1>5, <1>6, <2>1, <2>2, <3>1 DEF First, CleanupLabels
  <2>3. CASE head = <<>> /\ Goto(t, "destroy") /\ UNCHANGED node
    BY <1>4, <1>5, <1>6, <2>1, <2>3 DEF First, CleanupLabels
  <2> QED
    BY <1>6, <2>2, <2>3 DEF First
<1>7. CASE Unlink(t)
  <2>1. UNCHANGED <<freed, node, result, released>> /\ At(t, "remove")
    BY <1>7 DEF Unlink, address
  <2>2. ASSUME NEW i \in DOMAIN head, head' = RemoveAt(head, i),
               Goto(t, "free"), UNCHANGED process
        PROVE  TypeInv'
    <3>1. head' \in Seq(started)
      BY <1>5, <2>2, Unlinked
    <3> QED
      BY <1>4, <1>5, <2>1, <2>2, <3>1 DEF CleanupLabels
  <2>3. CASE process' = "crashed" /\ UNCHANGED <<head, frames>>
    <3>1. FramesOK' /\ Base' = Base
      BY <1>1, <1>2, <2>3 DEF FramesOK, Base
    <3>2. DataOK'
      BY <1>1, <1>2, <1>3, <2>1, <2>3 DEF DataOK
    <3> QED
      BY <1>1, <1>2, <1>13, <2>1, <2>3, <3>1, <3>2, QuietType DEF TypeInv
  <2> QED
    BY <1>7, <2>2, <2>3 DEF Unlink
<1>8. CASE Free(t)
  <2>1. UNCHANGED <<process, head, node, result, released>>
    BY <1>8 DEF Free, address
  <2>2. freed' \in [Clients -> Nat]
    BY <1>5, <1>8 DEF Free
  <2> QED
    BY <1>4, <1>5, <1>8, <2>1, <2>2 DEF Free, CleanupLabels
<1>9. CASE Nullify(t)
  BY <1>4, <1>5, <1>9 DEF Nullify, address, CleanupLabels
<1>10. CASE Destroy(t)
  BY <1>4, <1>5, <1>10 DEF Destroy, address, list, CleanupLabels
<1>11. CASE FreeResult(t, "free_result", "forget_result", End(t))
  <2>1. UNCHANGED <<process, head, freed, node, result>>
    BY <1>11 DEF FreeResult, list
  <2>2. released' \in Nat
    BY <1>5, <1>11 DEF FreeResult
  <2> QED
    BY <1>4, <1>5, <1>11, <2>1, <2>2 DEF FreeResult, CleanupLabels
<1>12. CASE ForgetResult(t, "forget_result", End(t))
  <2>1. UNCHANGED <<process, head, freed, node, released>>
    BY <1>12 DEF ForgetResult, list
  <2>2. result' \in {NULL, "list"}
    BY <1>12 DEF ForgetResult, Nullified
  <2> QED
    BY <1>4, <1>5, <1>12, <2>1, <2>2 DEF ForgetResult, CleanupLabels
<1> QED
  BY <1>6, <1>7, <1>8, <1>9, <1>10, <1>11, <1>12, <1>14 DEF Cleanup

(* A step of main from one of its own calls. *)
LEMMA MainMove ==
  ASSUME FramesOK, NEW from, from \notin HandlerLabels,
         NEW label \in BaseLabels(MAIN),
         At(MAIN, from), Goto(MAIN, label), UNCHANGED started
  PROVE  /\ MovesOn(MAIN, from, label)
         /\ Len(frames[MAIN]) = 1 /\ Base = from /\ Base' = label
<1>1. MAIN \in Threads
  BY DEF Threads
<1>2. BaseLabels(MAIN) \subseteq Labels
  BY DEF BaseLabels, Labels, CleanupLabels, StartLabels, ServingLabels
<1>3. MovesOn(MAIN, from, label)
  BY <1>1, <1>2, GotoStep
<1>4. Len(frames[MAIN]) = 1
  BY <1>1, LabelDepth
<1> QED
  BY <1>3, <1>4 DEF MovesOn

(* A label that Goto set is where the thread is. *)
LEMMA MovedAt ==
  ASSUME NEW t \in Threads, NEW label, NEW other, frames[t] # <<>>,
         FramesOK, Moved(t, label)
  PROVE  At(t, other)' <=> label = other
<1>1. Len(frames'[t]) = Len(frames[t]) /\ Len(frames[t]) \in Nat \ {0}
  BY TopFrame DEF Moved
<1>2. frames'[t] # <<>>
  BY <1>1, EmptySeq
<1>3. Top(t)'.at = label
  BY <1>1 DEF Top, Last, Moved
<1> QED
  BY <1>2, <1>3 DEF At

LEMMA StartType ==
  ASSUME TypeInv,
         \/ Install \/ Getaddrinfo \/ Socket \/ Bind \/ Bound \/ Daemon \/ Listen
  PROVE  TypeInv'
<1>1. FramesOK /\ DataOK /\ StreamsOK /\ ListOK /\ MAIN \in Threads
  BY DEF TypeInv, Threads
<1>2. UNCHANGED <<process, pending, sent, flags, list, library, mutex>>
  BY DEF Install, Getaddrinfo, Socket, Bind, Bound, FreeResult, ForgetResult,
         Daemon, Listen, signals, outside
<1>3. UNCHANGED <<head, node, freshNode, freed, started>>
  BY <1>2 DEF list
<1>4. ASSUME NEW from \in StartLabels \union {"listen"},
             NEW label \in BaseLabels(MAIN),
             At(MAIN, from), Goto(MAIN, label), UNCHANGED descriptors,
             \/ label \in CleanupLabels
             \/ label \in StartLabels /\ from \in StartLabels
             \/ label \in {"listen", "loop"},
             disposition' \in [Signals -> {"handler", "default"}],
             result' \in {NULL, "list"}, released' \in Nat
      PROVE  TypeInv'
  <2>1. from \notin HandlerLabels /\ "listen" \in ServingLabels
        /\ "loop" \in ServingLabels
    BY DEF HandlerLabels, CleanupLabels, StartLabels, ServingLabels
  <2>2. FramesOK' /\ Base = from /\ Base' = label
    BY <1>1, <1>3, <1>4, <2>1, MainMove DEF MovesOn
  <2>3. DataOK'
    BY <1>1, <1>2, <1>3, <1>4 DEF DataOK
  <2>4. StreamsOK' /\ ListOK'
    BY <1>1, <1>3, <1>4, <2>1, <2>2, UnchangedKept, QuietType
  <2> QED
    BY <2>2, <2>3, <2>4 DEF TypeInv
<1>5. /\ disposition \in [Signals -> {"handler", "default"}]
      /\ result \in {NULL, "list"} /\ released \in Nat
  BY <1>1 DEF DataOK
<1>6. StartLabels \union ServingLabels \union CleanupLabels
        \subseteq BaseLabels(MAIN)
  BY DEF BaseLabels
<1>7. CASE Install
  BY <1>4, <1>5, <1>6, <1>7 DEF Install, address, outside, StartLabels
<1>8. CASE Getaddrinfo
  <2>1. result' \in {NULL, "list"}
    BY <1>5, <1>8 DEF Getaddrinfo
  <2> QED
    BY <1>4, <1>5, <1>6, <1>8, <2>1
       DEF Getaddrinfo, StartUp, signals, outside, StartLabels, CleanupLabels
<1>9. CASE Socket
  BY <1>4, <1>5, <1>6, <1>9
     DEF Socket, StartUp, signals, address, StartLabels, CleanupLabels
<1>10. CASE Bind
  BY <1>4, <1>5, <1>6, <1>10
     DEF Bind, StartUp, signals, address, outside, StartLabels, CleanupLabels
<1>11. CASE Bound
  <2>1. UNCHANGED <<descriptors, disposition>>
    BY <1>11 DEF Bound, FreeResult, ForgetResult, signals, outside
  <2>2. PICK next \in {"daemon", "listen"} :
          \/ FreeResult(MAIN, "bound", "forget_bound", next)
          \/ ForgetResult(MAIN, "forget_bound", next)
    BY <1>11 DEF Bound
  <2>3. CASE FreeResult(MAIN, "bound", "forget_bound", next)
    <3>1. result' \in {NULL, "list"} /\ released' \in Nat
      BY <1>5, <2>3 DEF FreeResult
    <3> QED
      BY <1>4, <1>5, <1>6, <2>1, <2>3, <3>1
         DEF FreeResult, StartLabels, ServingLabels
  <2>4. CASE ForgetResult(MAIN, "forget_bound", next)
    <3>1. result' \in {NULL, "list"} /\ released' \in Nat
      BY <1>5, <2>4 DEF ForgetResult, Nullified
    <3> QED
      BY <1>4, <1>5, <1>6, <2>1, <2>4, <3>1
         DEF ForgetResult, StartLabels, ServingLabels
  <2> QED
    BY <2>2, <2>3, <2>4
<1>12. CASE Daemon
  <2>1. UNCHANGED <<disposition, result, released>> /\ At(MAIN, "daemon")
    BY <1>12 DEF Daemon, StartUp, signals, address
  <2>2. /\ "daemon" \notin HandlerLabels /\ "daemon" \in StartLabels
        /\ {"listen", "close_data"} \subseteq BaseLabels(MAIN)
        /\ "close_data" \notin StartLabels \union ServingLabels
        /\ "listen" \notin StartLabels
    BY DEF HandlerLabels, CleanupLabels, StartLabels, BaseLabels, ServingLabels
  <2>3. ASSUME NEW label \in {"listen", "close_data"}, Goto(MAIN, label)
        PROVE  TypeInv'
    <3>1. FramesOK' /\ Base = "daemon" /\ Base' = label /\ Moved(MAIN, label)
      BY <1>1, <1>3, <2>1, <2>2, <2>3, MainMove DEF MovesOn
    <3>2. At(MAIN, "listen")' <=> label = "listen"
      <4>1. frames[MAIN] # <<>>
        BY <1>1 DEF FramesOK
      <4> QED
        BY <1>1, <3>1, <4>1, MovedAt
    <3>3. OnTerminal /\ started' = {}
      BY <1>1, <1>3, <2>2, <3>1 DEF StreamsOK, ListOK
    <3>4. /\ \/ label = "listen" /\ streams' = Redirected
             \/ /\ label = "close_data"
                /\ \/ streams' = streams
                   \/ \E n \in 0 .. 2 : streams' = Closed(n)
          /\ UNCHANGED dataFileDescriptor
      BY <1>12, <2>3, <3>2 DEF Daemon
    <3>5. streams' = Redirected => StreamsOK'
      <4> SUFFICES ASSUME streams' = Redirected
                   PROVE  StreamsOK'
        OBVIOUS
      <4>1. OffTerminal'
        BY DEF OffTerminal, Redirected
      <4>2. streams' \in [0 .. 2 -> {"terminal", "null", "closed"}]
        BY DEF Redirected
      <4>3. Base' \notin StartLabels
        BY <2>2, <3>1
      <4> QED
        BY <1>1, <3>4, <4>1, <4>2, <4>3 DEF StreamsOK, OffTerminal
    <3>6. label = "close_data" => StreamsOK'
      <4> SUFFICES ASSUME label = "close_data"
                   PROVE  StreamsOK'
        OBVIOUS
      <4>1. /\ streams' \in [0 .. 2 -> {"terminal", "null", "closed"}]
            /\ streams'[1] = "terminal" <=> streams'[2] = "terminal"
        <5>1. CASE streams' = streams
          BY <1>1, <5>1 DEF StreamsOK
        <5>2. ASSUME NEW n \in 0 .. 2, streams' = Closed(n)
              PROVE  /\ streams' \in [0 .. 2 -> {"terminal", "null", "closed"}]
                     /\ streams'[1] # "terminal" /\ streams'[2] # "terminal"
          BY <5>2 DEF Closed
        <5> QED
          BY <3>4, <5>1, <5>2
      <4>2. Base' \notin StartLabels \union ServingLabels
        BY <2>2, <3>1
      <4> QED
        BY <1>1, <3>3, <3>4, <4>1, <4>2 DEF StreamsOK
    <3>7. StreamsOK'
      BY <3>4, <3>5, <3>6
    <3>8. ListOK'
      BY <1>1, <1>3, <2>2, <2>3, <3>1 DEF ListOK
    <3>9. DataOK'
      BY <1>1, <1>2, <1>3, <2>1 DEF DataOK
    <3> QED
      BY <3>1, <3>7, <3>8, <3>9 DEF TypeInv
  <2> QED
    BY <1>12, <2>3 DEF Daemon, StartUp
<1>13. CASE Listen
  BY <1>4, <1>5, <1>6, <1>13
     DEF Listen, StartUp, signals, address, StartLabels, CleanupLabels,
         ServingLabels
<1> QED
  BY <1>7, <1>8, <1>9, <1>10, <1>11, <1>12, <1>13

LEMMA ServingType ==
  ASSUME TypeInv, Loop \/ Accept \/ Malloc \/ Create \/ Insert \/ Exit
  PROVE  TypeInv'
<1>1. FramesOK /\ DataOK /\ StreamsOK /\ ListOK /\ MAIN \in Threads
  BY DEF TypeInv, Threads
<1>2. UNCHANGED <<signals, flags, node, freed, address, outside>>
  BY DEF Loop, Accept, Malloc, Create, Insert, Exit, list
<1>3. UNCHANGED <<pending, disposition, result, released>> /\ OthersKept
  BY <1>1, <1>2, UnchangedKept DEF signals, address, outside
<1>4. ASSUME NEW from \in ServingLabels, NEW label \in BaseLabels(MAIN),
             At(MAIN, from), Goto(MAIN, label),
             label \in CleanupLabels \union (ServingLabels \ {"insert"}),
             UNCHANGED <<process, list>>, library' \in Threads \union {NOBODY}
      PROVE  TypeInv'
  <2>1. from \notin HandlerLabels
    BY DEF HandlerLabels, CleanupLabels, ServingLabels
  <2>2. UNCHANGED <<head, node, freshNode, freed, started>>
    BY <1>4 DEF list
  <2>3. FramesOK' /\ Base = from /\ Base' = label
    BY <1>4, <1>1, <2>1, <2>2, MainMove DEF MovesOn
  <2>4. DataOK'
    BY <1>1, <1>3, <1>4, <2>2 DEF DataOK
  <2>5. StreamsOK' /\ ListOK'
    BY <1>1, <1>3, <1>4, <2>2, <2>3, QuietType
  <2> QED
    BY <2>3, <2>4, <2>5 DEF TypeInv
<1>5. StartLabels \union ServingLabels \union CleanupLabels
        \subseteq BaseLabels(MAIN)
  BY DEF BaseLabels
<1>6. library \in Threads \union {NOBODY}
  BY <1>1 DEF DataOK
<1>7. CASE Loop
  BY <1>4, <1>5, <1>6, <1>7 DEF Loop, CleanupLabels, ServingLabels
<1>8. CASE Accept
  <2>1. library' \in Threads \union {NOBODY}
    BY <1>1, <1>6, <1>8 DEF Accept
  <2> QED
    BY <1>4, <1>5, <1>8, <2>1 DEF Accept, CleanupLabels, ServingLabels
<1>9. CASE Malloc
  BY <1>4, <1>5, <1>9 DEF Malloc, CleanupLabels, ServingLabels
<1>10. CASE Create
  <2>1. At(MAIN, "create") /\ UNCHANGED <<process, head, node, freed, library>>
    BY <1>10 DEF Create
  <2>2. /\ "create" \notin HandlerLabels /\ "create" \in ServingLabels
        /\ "insert" \in BaseLabels(MAIN) /\ "insert" \in ServingLabels
        /\ "insert" \notin StartLabels
        /\ {"serve", "insert"} \subseteq Labels
    BY DEF HandlerLabels, CleanupLabels, ServingLabels, StartLabels, BaseLabels,
           Labels
  <2>3. PICK c \in Clients \ started :
          /\ \/ frames' = [frames EXCEPT ![c] = <<Frame("serve", NONE)>>,
                                         ![MAIN] = <<Frame("insert", NONE)>>]
             \/ "CREATE" \in Faults /\ Goto(MAIN, "insert")
          /\ freshNode' = c
          /\ started' = started \union {c}
    BY <1>10 DEF Create
  <2>4. Len(frames[MAIN]) = 1 /\ Base = "create" /\ frames[MAIN] # <<>>
    BY <1>1, <2>1, <2>2, LabelDepth
  <2>5. FramesOK' /\ Base' = "insert"
    <3>1. CASE Goto(MAIN, "insert")
      <4>1. MovesOn(MAIN, "create", "insert")
        BY <1>1, <2>1, <2>2, <2>3, <3>1, GotoStep
      <4> QED
        BY <2>4, <4>1 DEF MovesOn
    <3>2. CASE frames' = [frames EXCEPT ![c] = <<Frame("serve", NONE)>>,
                                        ![MAIN] = <<Frame("insert", NONE)>>]
      <4> DEFINE s == <<Frame("serve", NONE)>>
                 m == <<Frame("insert", NONE)>>
      <4>1. frames \in [Threads -> Seq(FrameSet)] /\ c \in Threads /\ c # MAIN
        BY <1>1, LifecycleAssumption DEF FramesOK, Threads
      <4>2. Frame("serve", NONE) \in FrameSet /\ Frame("insert", NONE) \in FrameSet
        BY <2>2 DEF Frame, FrameSet
      <4>3. s \in Seq(FrameSet) /\ m \in Seq(FrameSet) /\ m # <<>>
        BY <4>2
      <4>4. /\ frames' \in [Threads -> Seq(FrameSet)]
            /\ frames'[MAIN] = m /\ frames'[c] = s
            /\ \A t \in Threads : t = MAIN \/ t = c \/ frames'[t] = frames[t]
        BY <1>1, <3>2, <4>1, <4>3
      <4>5. StackOK(MAIN, m)
        BY <2>2 DEF StackOK, Frame
      <4>6. StackOK(c, s)
        BY <4>1 DEF StackOK, Frame, BaseLabels
      <4>7. \A t \in Threads : StackOK(t, frames'[t])
        BY <1>1, <4>4, <4>5, <4>6 DEF FramesOK
      <4>8. \A d \in Clients : frames'[d] # <<>> => d \in started'
        <5> SUFFICES ASSUME NEW d \in Clients, frames'[d] # <<>>
                     PROVE  d \in started'
          OBVIOUS
        <5>1. CASE d = c
          BY <2>3, <5>1
        <5>2. CASE d # c
          BY <1>1, <2>3, <4>4, <5>2, LifecycleAssumption DEF FramesOK, Threads
        <5> QED
          BY <5>1, <5>2
      <4>9. Base' = "insert"
        BY <4>4 DEF Base, Frame
      <4> QED
        BY <4>3, <4>4, <4>7, <4>8, <4>9 DEF FramesOK
    <3> QED
      BY <2>3, <3>1, <3>2
  <2>6. DataOK'
    BY <1>1, <1>3, <2>1, <2>3 DEF DataOK
  <2>7. StreamsOK'
    BY <1>1, <1>3, <2>2, <2>4, <2>5, KeptStreams
  <2>8. ListOK'
    <3>1. head' \in Seq(started')
      BY <1>1, <2>1, <2>3, SeqMonotonic DEF ListOK
    <3> QED
      BY <1>1, <2>1, <2>2, <2>3, <2>5, <3>1 DEF ListOK
  <2> QED
    BY <2>5, <2>6, <2>7, <2>8 DEF TypeInv
<1>11. CASE Insert
  <2>1. /\ At(MAIN, "insert") /\ Goto(MAIN, "loop") /\ freshNode' = NULL
        /\ head' = <<freshNode>> \o head
        /\ UNCHANGED <<process, node, freed, started, library>>
    BY <1>11 DEF Insert
  <2>2. /\ "insert" \notin HandlerLabels /\ "loop" \in BaseLabels(MAIN)
        /\ {"insert", "loop"} \subseteq ServingLabels
        /\ "loop" \notin StartLabels
    BY DEF HandlerLabels, CleanupLabels, ServingLabels, StartLabels, BaseLabels
  <2>3. FramesOK' /\ Base = "insert" /\ Base' = "loop"
    BY <1>1, <2>1, <2>2, MainMove DEF MovesOn
  <2>4. DataOK'
    BY <1>1, <1>3, <2>1 DEF DataOK
  <2>5. StreamsOK'
    BY <1>1, <1>3, <2>1, <2>2, <2>3, KeptStreams
  <2>6. ListOK'
    <3>1. freshNode \in started /\ head \in Seq(started)
      BY <1>1, <2>3 DEF ListOK
    <3>2. <<freshNode>> \in Seq(started)
      BY <3>1
    <3>3. head' \in Seq(started)
      BY <2>1, <3>1, <3>2, ConcatProperties
    <3> QED
      BY <1>1, <2>1, <2>2, <2>3, <3>3 DEF ListOK
  <2> QED
    BY <2>3, <2>4, <2>5, <2>6 DEF TypeInv
<1>12. CASE Exit
  <2>1. process' = "exited" /\ UNCHANGED <<frames, list, library>>
    BY <1>12 DEF Exit
  <2>2. FramesOK' /\ Base' = Base
    BY <1>1, <2>1 DEF FramesOK, Base, list
  <2>3. DataOK'
    BY <1>1, <1>3, <2>1 DEF DataOK, list
  <2> QED
    BY <1>1, <1>3, <2>1, <2>2, <2>3, QuietType DEF TypeInv, list
<1> QED
  BY <1>7, <1>8, <1>9, <1>10, <1>11, <1>12

LEMMA ServeType ==
  ASSUME TypeInv, NEW c \in Clients, Serve(c)
  PROVE  TypeInv'
<1>1. /\ FramesOK /\ DataOK /\ StreamsOK /\ ListOK
      /\ c \in Threads /\ c # MAIN /\ MAIN \in Threads
  BY LifecycleAssumption DEF TypeInv, Threads
<1>2. UNCHANGED <<process, pending, disposition, list, address, streams>>
  BY DEF Serve, signals
<1>3. UNCHANGED <<head, node, freshNode, freed, started, result, released>>
  BY <1>2 DEF list, address
<1>4. {"serve", "logging", "open"} = BaseLabels(c)
      /\ BaseLabels(c) \subseteq Labels
  BY <1>1 DEF BaseLabels, Labels
<1>5. library' \in Threads \union {NOBODY}
  BY <1>1 DEF Serve, DataOK
<1>6. FramesOK' /\ Base' = Base
  <2>1. ASSUME NEW from \in BaseLabels(c), NEW label \in BaseLabels(c),
               At(c, from), Goto(c, label)
        PROVE  FramesOK' /\ Base' = Base
    <3>1. MovesOn(c, from, label)
      BY <1>1, <1>3, <1>4, <2>1, GotoStep
    <3> QED
      BY <1>1, <3>1 DEF MovesOn
  <2>2. ASSUME At(c, "open"), Return(c)
        PROVE  FramesOK' /\ Base' = Base
    <3>1. frames[c] # <<>>
      BY <2>2 DEF At
    <3> QED
      BY <1>1, <1>3, <2>2, <3>1, ReturnFrames, PoppedOK
  <2> QED
    BY <1>4, <2>1, <2>2 DEF Serve
<1>7. DataOK'
  BY <1>1, <1>2, <1>3, <1>5 DEF DataOK
(* A file is opened by a client, so no output stream is closed by now. *)
<1>8. OthersKept
  <2>1. c \in started
    BY <1>1 DEF Serve, At, FramesOK
  <2>2. streams[1] # "closed" /\ streams[2] # "closed"
    BY <1>1, <2>1 DEF StreamsOK, OnTerminal, OffTerminal
  <2>3. dataFileDescriptor' \in {0, BEYOND}
    <3>1. dataFileDescriptor \in {0, BEYOND}
      BY <1>1 DEF StreamsOK
    <3>2. \A d \in 0 .. 2 : streams[d] = "closed" => d = 0
      BY <2>2
    <3> QED
      BY <3>1, <3>2 DEF Serve
  <2> QED
    BY <1>1, <1>2, <2>3 DEF StreamsOK, OthersKept
<1> QED
  BY <1>1, <1>3, <1>6, <1>7, <1>8, QuietType DEF TypeInv

(* A signal pushes a frame with a signal no other frame of the thread has. *)
LEMMA PushStep ==
  ASSUME FramesOK, NEW t \in Threads, frames[t] # <<>>,
         NEW sig \in Signals, sig \notin Handling(t),
         frames' = [frames EXCEPT ![t] = Append(@, Frame("check", sig))],
         UNCHANGED started
  PROVE  Pushed(t, sig) /\ FramesOK' /\ Base' = Base
<1> DEFINE n == Len(frames[t])
           f == Frame("check", sig)
           q == Append(frames[t], f)
<1>1. /\ frames \in [Threads -> Seq(FrameSet)] /\ frames[t] \in Seq(FrameSet)
      /\ StackOK(t, frames[t])
  BY DEF FramesOK
<1>2. n \in Nat \ {0} /\ DOMAIN frames[t] = 1 .. n
  BY TopFrame
<1>3. f \in FrameSet
  BY DEF Frame, FrameSet, Labels
<1>4. /\ q \in Seq(FrameSet) /\ Len(q) = n + 1
      /\ \A i \in 1 .. n : q[i] = frames[t][i]
      /\ q[n + 1] = f
  BY <1>1, <1>2, <1>3
<1>5. /\ frames'[t] = q /\ frames' \in [Threads -> Seq(FrameSet)]
      /\ \A u \in Threads : u # t => frames'[u] = frames[u]
  BY <1>1, <1>4
<1>6. Pushed(t, sig)
  BY <1>4, <1>5 DEF Pushed
<1>7. StackOK(t, q)
  <2>1. DOMAIN q = 1 .. n + 1
    BY <1>4, LenProperties
  <2>2. \A i \in 1 .. n : q[i].sig # sig
    <3>1. sig # NONE
      BY LifecycleAssumption
    <3>2. \A i \in 1 .. n : frames[t][i].sig # sig
      BY <1>2, <3>1 DEF Handling
    <3> QED
      BY <1>4, <3>2
  <2>3. f.at \in HandlerLabels /\ f.sig = sig
    BY DEF Frame, HandlerLabels
  <2>4. ASSUME NEW i \in DOMAIN q
        PROVE  /\ i = 1 => q[i].at \in BaseLabels(t) /\ q[i].sig = NONE
               /\ i > 1 => q[i].at \in HandlerLabels /\ q[i].sig \in Signals
    <3>1. CASE i \in 1 .. n
      BY <1>1, <1>2, <1>4, <3>1 DEF StackOK
    <3>2. CASE i = n + 1
      <4>1. i # 1
        BY <1>2, <3>2
      <4> QED
        BY <1>4, <2>3, <3>2, <4>1
    <3> QED
      BY <1>2, <2>1, <3>1, <3>2
  <2>5. ASSUME NEW i \in DOMAIN q, NEW j \in DOMAIN q, q[i].sig = q[j].sig
        PROVE  i = j
    <3>1. CASE i \in 1 .. n /\ j \in 1 .. n
      BY <1>1, <1>2, <1>4, <2>5, <3>1 DEF StackOK
    <3>2. CASE i = n + 1 \/ j = n + 1
      <4>1. \A k \in DOMAIN q : k \in 1 .. n \/ k = n + 1
        BY <1>2, <2>1
      <4> QED
        BY <1>4, <2>2, <2>3, <2>5, <3>2, <4>1
    <3> QED
      BY <1>2, <2>1, <3>1, <3>2
  <2> QED
    BY <2>4, <2>5 DEF StackOK
<1>8. MAIN \in Threads /\ frames'[MAIN] # <<>> /\ Base' = Base
  <2>1. MAIN \in Threads /\ frames[MAIN] # <<>>
    BY DEF Threads, FramesOK
  <2>2. CASE t = MAIN
    <3>1. 1 \in 1 .. n /\ n + 1 # 0
      BY <1>2
    <3> QED
      BY <1>4, <1>5, <2>1, <2>2, <3>1, EmptySeq DEF Base
  <2>3. CASE t # MAIN
    BY <1>5, <2>1, <2>3 DEF Base
  <2> QED
    BY <2>1, <2>2, <2>3
<1>9. \A c \in Clients : frames'[c] # <<>> => c \in started'
  <2>1. \A c \in Clients : c \in Threads /\ (frames[c] # <<>> => c \in started)
    BY DEF FramesOK, Threads
  <2> QED
    BY <1>5, <2>1
<1>10. \A u \in Threads : StackOK(u, frames'[u])
  BY <1>5, <1>7 DEF FramesOK
<1>11. FramesOK'
  BY <1>5, <1>8, <1>9, <1>10 DEF FramesOK
<1> QED
  BY <1>6, <1>8, <1>11

LEMMA SignalType ==
  ASSUME TypeInv,
         \/ \E sig \in Signals : Send(sig)
         \/ \E t \in Threads : DeliverTo(t)
  PROVE  TypeInv'
<1>1. FramesOK /\ DataOK /\ StreamsOK /\ ListOK
  BY DEF TypeInv
<1>2. UNCHANGED <<disposition, list, address, outside, library>>
  BY DEF Send, DeliverTo, Deliver
<1>3. /\ UNCHANGED <<head, node, freshNode, freed, started, result, released>>
      /\ OthersKept
  BY <1>1, <1>2, UnchangedKept DEF list, address, outside
<1>4. ASSUME NEW sig \in Signals, Send(sig)
      PROVE  TypeInv'
  <2>1. UNCHANGED <<process, frames>>
    BY <1>4 DEF Send
  <2>2. PICK t \in Takers(sig) : pending' = [pending EXCEPT ![t] = @ \union {sig}]
    BY <1>4 DEF Send
  <2>3. t \in Threads
    BY <2>2 DEF Takers, Unblocked, Threads
  <2>4. DataOK'
    BY <1>1, <1>2, <1>3, <2>1, <2>2, <2>3 DEF DataOK
  <2>5. FramesOK' /\ Base' = Base
    BY <1>1, <1>3, <2>1 DEF FramesOK, Base
  <2> QED
    BY <1>1, <1>3, <2>4, <2>5, QuietType DEF TypeInv
<1>5. ASSUME NEW t \in Threads, DeliverTo(t)
      PROVE  TypeInv'
  <2>1. frames[t] # <<>>
    BY <1>5 DEF DeliverTo
  <2>2. PICK sig \in Due(t) :
          /\ pending' = [pending EXCEPT ![t] = @ \ {sig}]
          /\ \/ frames' = [frames EXCEPT ![t] = Append(@, Frame("check", sig))]
                /\ UNCHANGED process
             \/ process' = "terminated" /\ UNCHANGED frames
    BY <1>5 DEF DeliverTo, Deliver
  <2>3. sig \in Signals /\ sig \notin Handling(t)
    BY <1>1, <2>2 DEF Due, DataOK
  <2>4. FramesOK' /\ Base' = Base
    <3>1. CASE frames' = [frames EXCEPT ![t] = Append(@, Frame("check", sig))]
      BY <1>1, <1>3, <2>1, <2>3, <3>1, PushStep
    <3>2. CASE UNCHANGED frames
      BY <1>1, <1>3, <3>2 DEF FramesOK, Base
    <3> QED
      BY <2>2, <3>1, <3>2
  <2>5. DataOK'
    BY <1>1, <1>2, <1>3, <2>2 DEF DataOK
  <2> QED
    BY <1>1, <1>3, <2>4, <2>5, QuietType DEF TypeInv
<1> QED
  BY <1>4, <1>5

LEMMA TypeInit == Init => TypeInv
<1> SUFFICES ASSUME Init
             PROVE  TypeInv
  OBVIOUS
<1> DEFINE m == <<Frame("install", NONE)>>
<1>1. MAIN \in Threads /\ "install" \in StartLabels /\ "install" \in Labels
      /\ "install" \in BaseLabels(MAIN) /\ "install" \notin ServingLabels
  BY DEF Threads, StartLabels, Labels, BaseLabels, ServingLabels
<1>2. Frame("install", NONE) \in FrameSet
  BY <1>1 DEF Frame, FrameSet
<1>3. m \in Seq(FrameSet) /\ m # <<>> /\ <<>> \in Seq(FrameSet)
  BY <1>2
<1>4. frames = [t \in Threads |-> IF t = MAIN THEN m ELSE <<>>]
  BY DEF Init
<1>5. /\ frames \in [Threads -> Seq(FrameSet)]
      /\ frames[MAIN] = m
      /\ \A t \in Threads : t # MAIN => frames[t] = <<>>
  BY <1>1, <1>3, <1>4
<1>6. FramesOK
  <2>1. StackOK(MAIN, m)
    BY <1>1 DEF StackOK, Frame
  <2>2. \A t \in Threads : StackOK(t, <<>>)
    BY DEF StackOK
  <2>3. \A t \in Threads : StackOK(t, frames[t])
    BY <1>5, <2>1, <2>2
  <2>4. \A c \in Clients : frames[c] = <<>>
    BY <1>5, LifecycleAssumption DEF Threads
  <2> QED
    BY <1>3, <1>5, <2>3, <2>4 DEF FramesOK
<1>7. Base = "install"
  BY <1>5 DEF Base, Frame
<1>8. DataOK
  BY DEF Init, DataOK
<1>9. StreamsOK
  BY <1>1, <1>7 DEF Init, StreamsOK, OnTerminal
<1>10. ListOK
  BY <1>7 DEF Init, ListOK
<1> QED
  BY <1>6, <1>8, <1>9, <1>10 DEF TypeInv

LEMMA TypeNext == TypeInv /\ [Next]_vars => TypeInv'
<1> SUFFICES ASSUME TypeInv, [Next]_vars
             PROVE  TypeInv'
  OBVIOUS
<1>1. ASSUME NEW t \in Threads, Run(t)
      PROVE  TypeInv'
  <2>1. CASE Handler(t)
    BY <2>1, HandlerType
  <2>2. CASE Cleanup(t)
    BY <2>2, CleanupType
  <2>3. CASE Main
    BY <2>3, StartType, ServingType DEF Main
  <2>4. CASE t \in Clients /\ Serve(t)
    BY <2>4, ServeType
  <2> QED
    BY <1>1, <2>1, <2>2, <2>3, <2>4 DEF Run
<1>2. CASE UNCHANGED vars
  BY <1>2 DEF vars, signals, flags, list, address, outside, descriptors, TypeInv,
              FramesOK, DataOK, StreamsOK, OnTerminal, OffTerminal, ListOK, Base
<1> QED
  BY <1>1, <1>2, SignalType DEF Next

(* The labels of TypeOK are those the frames may execute. *)
LEMMA TypeInvTypes == TypeInv => TypeOK
<1> SUFFICES ASSUME TypeInv
             PROVE  TypeOK
  OBVIOUS
<1>1. FramesOK /\ DataOK /\ StreamsOK /\ ListOK
  BY DEF TypeInv
<1>2. \A t \in Threads : \A i \in DOMAIN frames[t] :
        /\ frames[t][i].at \in Labels
        /\ frames[t][i].sig \in Signals <=> i > 1
  <2> SUFFICES ASSUME NEW t \in Threads, NEW i \in DOMAIN frames[t]
               PROVE  /\ frames[t][i].at \in Labels
                      /\ frames[t][i].sig \in Signals <=> i > 1
    OBVIOUS
  <2>1. /\ frames[t] \in Seq(FrameSet) /\ StackOK(t, frames[t])
    BY <1>1 DEF FramesOK
  <2>2. i \in 1 .. Len(frames[t]) /\ i \in Nat /\ i >= 1
    BY <2>1, LenProperties
  <2>3. frames[t][i] \in FrameSet
    BY <2>1, <2>2, ElementOfSeq
  <2>4. i = 1 \/ i > 1
    BY <2>2
  <2>5. i = 1 => frames[t][i].sig = NONE
    BY <2>1 DEF StackOK
  <2>6. i > 1 => frames[t][i].sig \in Signals
    BY <2>1 DEF StackOK
  <2>7. frames[t][i].at \in Labels
    BY <2>3 DEF FrameSet
  <2> QED
    BY <2>2, <2>4, <2>5, <2>6, <2>7, LifecycleAssumption
<1>3. ToSet(head) \subseteq started
  <2>1. head \in Seq(started)
    BY <1>1 DEF ListOK
  <2>2. \A i \in DOMAIN head : head[i] \in started
    BY <2>1, LenProperties, ElementOfSeq
  <2> QED
    BY <2>2 DEF ToSet
<1>4. /\ streams \in [0 .. 2 -> {"terminal", "null", "closed"}]
      /\ dataFileDescriptor \in 0 .. BEYOND
  BY <1>1 DEF StreamsOK, BEYOND
<1> QED
  BY <1>1, <1>2, <1>3, <1>4 DEF TypeOK, DataOK, ListOK

(* The types hold, whatever fails and however many signals come.  *)
THEOREM LifecycleTypeCorrect == Spec => []TypeOK
  BY TypeInit, TypeNext, TypeInvTypes, PTL DEF Spec

(* The inductive invariant, for the theorems that follow. *)
LEMMA LifecycleTypes == Spec => []TypeInv
  BY TypeInit, TypeNext, PTL DEF Spec

(* Output and errors leave the terminal together or not at all, whatever    *)
(* cleanup_on_exit closes and whenever, and a server that waits for clients *)
(* has the terminal there, or /dev/null: src/server/aesdsocket.c,           *)
(* run_daemon and cleanup_on_exit.                                          *)
THEOREM DaemonIsDetached == Spec => []DaemonDetached
<1>1. TypeInv => DaemonDetached
  <2> SUFFICES ASSUME TypeInv
               PROVE  DaemonDetached
    OBVIOUS
  <2>1. FramesOK /\ StreamsOK /\ MAIN \in Threads
    BY DEF TypeInv, Threads
  <2>2. At(MAIN, "accept") => Base \in ServingLabels
    <3>1. "accept" \notin HandlerLabels /\ "accept" \in ServingLabels
      BY DEF HandlerLabels, CleanupLabels, ServingLabels
    <3> QED
      BY <2>1, <3>1, LabelDepth
  <2> QED
    BY <2>1, <2>2 DEF DaemonDetached, StreamsOK, OnTerminal, OffTerminal
<1> QED
  BY <1>1, LifecycleTypes, PTL

-----------------------------------------------------------------------------
(* Handlers that interrupt handlers *)

(* A signal is never forgotten that was caught. *)
FlagsStay ==
  /\ fatal_error_in_progress => fatal_error_in_progress'
  /\ signal_caught => signal_caught'

LEMMA FlagsOnlySet ==
  ASSUME [Next]_vars
  PROVE  FlagsStay
  BY DEF FlagsStay, Next, vars, flags, Send, DeliverTo, Deliver, Run, Handler,
         Check, Set, Syslog, Shutdown, Caught, Reraise, Cleanup, CloseDataFile,
         First, Unlink, Free, Nullify, Destroy, FreeResult, ForgetResult, Main, Install,
         Getaddrinfo, Socket, Bind, Bound, Daemon, Listen, Loop, Accept, Malloc,
         Create, Insert, Exit, Serve

(* A handler that goes on past the flag is the innermost of those that did. *)
LEMMA HandlersMoved ==
  ASSUME FramesOK, HandlersOK, FlagsStay, NEW from, NEW label,
         At(MAIN, from), Moved(MAIN, label),
         \/ Len(frames[MAIN]) = 1
         \/ /\ label \notin Entering => fatal_error_in_progress'
            /\ label \in CleanupLabels => signal_caught'
            /\ from = "check" => ~ fatal_error_in_progress
  PROVE  HandlersOK'
<1> DEFINE n == Len(frames[MAIN])
<1>1. MAIN \in Threads /\ frames[MAIN] # <<>> /\ Top(MAIN).at = from
  BY DEF Threads, FramesOK, At
<1>2. n \in Nat \ {0} /\ Top(MAIN) = frames[MAIN][n]
      /\ DOMAIN frames[MAIN] = 1 .. n
  BY <1>1, TopFrame
<1>3. DOMAIN frames'[MAIN] = 1 .. n
  BY <1>1, LenProperties DEF Moved
<1>4. /\ \A i \in 1 .. n : i < n => frames'[MAIN][i] = frames[MAIN][i]
      /\ frames'[MAIN][n].at = label
  BY DEF Moved
<1>5. CASE n = 1
  BY <1>3, <1>5 DEF HandlersOK
<1>6. CASE n # 1
  <2>1. \A i \in 1 .. n : i > 1 /\ i < n => frames[MAIN][i].at \in Entering
    <3> SUFFICES ASSUME NEW i \in 1 .. n, i > 1, i < n,
                        frames[MAIN][i].at \notin Entering
                 PROVE  FALSE
      OBVIOUS
    <3>1. fatal_error_in_progress /\ frames[MAIN][n].at = "check"
      BY <1>2 DEF HandlersOK
    <3> QED
      BY <1>1, <1>2, <1>6, <3>1
  <2> SUFFICES ASSUME NEW i \in 1 .. n, i > 1
               PROVE  /\ frames'[MAIN][i].at \notin Entering =>
                           /\ fatal_error_in_progress'
                           /\ \A j \in 1 .. n : j > i => frames'[MAIN][j].at = "check"
                      /\ frames'[MAIN][i].at \in CleanupLabels => signal_caught'
    BY <1>3 DEF HandlersOK
  <2>2. CASE i < n
    <3>1. frames'[MAIN][i] = frames[MAIN][i] /\ frames[MAIN][i].at \in Entering
      BY <1>4, <2>1, <2>2
    <3> QED
      BY <3>1 DEF Entering, CleanupLabels
  <2>3. CASE i = n
    <3>1. frames'[MAIN][i].at = label /\ ~ \E j \in 1 .. n : j > i
      BY <1>2, <1>4, <2>3
    <3> QED
      BY <1>6, <3>1
  <2> QED
    BY <1>2, <2>2, <2>3
<1> QED
  BY <1>5, <1>6

LEMMA HandlersPopped ==
  ASSUME FramesOK, HandlersOK, FlagsStay, Popped(MAIN)
  PROVE  HandlersOK'
<1> DEFINE n == Len(frames[MAIN])
<1>1. MAIN \in Threads /\ frames[MAIN] # <<>>
  BY DEF Threads, FramesOK
<1>2. n \in Nat \ {0} /\ DOMAIN frames[MAIN] = 1 .. n
  BY <1>1, TopFrame
<1>3. DOMAIN frames'[MAIN] = 1 .. n - 1
  BY <1>1, LenProperties DEF Popped
<1>4. \A i \in DOMAIN frames'[MAIN] :
        i \in DOMAIN frames[MAIN] /\ frames'[MAIN][i] = frames[MAIN][i]
  BY <1>2, <1>3 DEF Popped
<1> QED
  BY <1>4 DEF HandlersOK, FlagsStay

LEMMA HandlersPushed ==
  ASSUME FramesOK, HandlersOK, FlagsStay, NEW sig, Pushed(MAIN, sig)
  PROVE  HandlersOK'
<1> DEFINE n == Len(frames[MAIN])
<1>1. MAIN \in Threads /\ frames[MAIN] # <<>>
  BY DEF Threads, FramesOK
<1>2. n \in Nat \ {0} /\ DOMAIN frames[MAIN] = 1 .. n
  BY <1>1, TopFrame
<1>3. DOMAIN frames'[MAIN] = 1 .. n + 1
  BY <1>1, LenProperties DEF Pushed
<1>4. \A i \in DOMAIN frames'[MAIN] :
        \/ i \in DOMAIN frames[MAIN] /\ frames'[MAIN][i] = frames[MAIN][i]
        \/ i = n + 1 /\ frames'[MAIN][i].at = "check"
  BY <1>2, <1>3 DEF Pushed, Frame
<1>5. "check" \in Entering /\ "check" \notin CleanupLabels
  BY DEF Entering, CleanupLabels
<1> SUFFICES ASSUME NEW i \in DOMAIN frames'[MAIN], i > 1
             PROVE  /\ frames'[MAIN][i].at \notin Entering =>
                         /\ fatal_error_in_progress'
                         /\ \A j \in DOMAIN frames'[MAIN] :
                              j > i => frames'[MAIN][j].at = "check"
                    /\ frames'[MAIN][i].at \in CleanupLabels => signal_caught'
  BY DEF HandlersOK
<1>6. CASE i \in DOMAIN frames[MAIN] /\ frames'[MAIN][i] = frames[MAIN][i]
  BY <1>4, <1>6 DEF HandlersOK, FlagsStay
<1>7. CASE i = n + 1 /\ frames'[MAIN][i].at = "check"
  BY <1>5, <1>7
<1> QED
  BY <1>4, <1>6, <1>7

LEMMA HandlersSame ==
  ASSUME HandlersOK, FlagsStay, frames'[MAIN] = frames[MAIN]
  PROVE  HandlersOK'
  BY DEF HandlersOK, FlagsStay

(* What another thread runs leaves main's stack and signals alone. *)
LEMMA OthersLeaveMain ==
  ASSUME TypeInv, NEW c \in Clients, Run(c)
  PROVE  frames'[MAIN] = frames[MAIN] /\ pending'[MAIN] = pending[MAIN]
<1>1. /\ MAIN \in Threads /\ c \in Threads /\ c # MAIN
      /\ frames \in [Threads -> Seq(FrameSet)]
      /\ pending \in [Threads -> SUBSET Signals]
  BY LifecycleAssumption DEF TypeInv, FramesOK, DataOK, Threads
<1>2. ASSUME NEW label, Goto(c, label)
      PROVE  frames'[MAIN] = frames[MAIN]
  BY <1>1, <1>2 DEF Goto
<1>3. Return(c) => frames'[MAIN] = frames[MAIN]
  BY <1>1 DEF Return
<1>4. Raise(c) => frames'[MAIN] = frames[MAIN] /\ pending'[MAIN] = pending[MAIN]
  BY <1>1, <1>3 DEF Raise
<1>5. CASE Handler(c)
  BY <1>2, <1>4, <1>5 DEF Handler, Check, Set, Syslog, Shutdown, Caught, Reraise,
                          RaiseAgain, signals
<1>6. CASE Cleanup(c)
  BY <1>2, <1>6 DEF Cleanup, CloseDataFile, First, Unlink, Free, Nullify, Destroy,
         FreeResult, ForgetResult, signals
<1>7. CASE Serve(c)
  BY <1>2, <1>3, <1>7 DEF Serve, signals
<1> QED
  BY <1>1, <1>5, <1>6, <1>7 DEF Run

(* A signal goes to the stack of one thread. *)
LEMMA DeliverStep ==
  ASSUME TypeInv, NEW t \in Threads, DeliverTo(t)
  PROVE  /\ frames[t] # <<>> /\ UNCHANGED <<list, address, flags, sent>>
         /\ \A u \in Threads : u # t => pending'[u] = pending[u]
         /\ pending'[t] \subseteq pending[t]
         /\ \/ process' = "terminated" /\ UNCHANGED frames
            \/ /\ UNCHANGED process
               /\ \E sig \in pending[t] : /\ Pushed(t, sig)
                                          /\ sig \notin pending'[t]
<1>1. FramesOK /\ pending \in [Threads -> SUBSET Signals]
  BY DEF TypeInv, DataOK
<1>2. frames[t] # <<>> /\ UNCHANGED <<list, address, flags, sent>>
  BY DEF DeliverTo, Deliver
<1>3. PICK sig \in Due(t) :
        /\ pending' = [pending EXCEPT ![t] = @ \ {sig}]
        /\ \/ frames' = [frames EXCEPT ![t] = Append(@, Frame("check", sig))]
              /\ UNCHANGED process
           \/ process' = "terminated" /\ UNCHANGED frames
  BY DEF DeliverTo, Deliver
<1>4. sig \in Signals /\ sig \notin Handling(t) /\ sig \in pending[t]
  BY <1>1, <1>3 DEF Due
<1>5. frames' = [frames EXCEPT ![t] = Append(@, Frame("check", sig))]
        => Pushed(t, sig)
  BY <1>1, <1>2, <1>4, PushStep DEF list
<1> QED
  BY <1>1, <1>2, <1>3, <1>4, <1>5

LEMMA SendStep ==
  ASSUME TypeInv, NEW sig \in Signals, Send(sig)
  PROVE  /\ UNCHANGED <<process, frames, list, address, flags>>
         /\ sent < MaxSent /\ sent' = sent + 1
         /\ \E t \in Takers(sig) :
              /\ t \in Threads
              /\ pending'[t] = pending[t] \union {sig}
              /\ \A u \in Threads : u # t => pending'[u] = pending[u]
<1>1. pending \in [Threads -> SUBSET Signals]
  BY DEF TypeInv, DataOK
<1>2. \A t \in Takers(sig) : t \in Threads
  BY DEF Takers, Unblocked, Threads
<1> QED
  BY <1>1, <1>2 DEF Send

LEMMA HandlersHandler ==
  ASSUME TypeInv, HandlersOK, FlagsStay, Handler(MAIN)
  PROVE  HandlersOK'
<1> DEFINE Calls == {"check", "set", "syslog", "shutdown", "caught", "reraise"}
<1>1. FramesOK /\ DataOK /\ MAIN \in Threads
  BY DEF TypeInv, Threads
<1>2. /\ Calls \subseteq HandlerLabels \ CleanupLabels
      /\ Calls \union {"close_data"} \subseteq HandlerLabels \intersect Labels
  BY DEF HandlerLabels, CleanupLabels, Labels
<1>3. started' = started
  BY DEF Handler, Check, Set, Syslog, Shutdown, Caught, Reraise, list
<1>4. ASSUME NEW from \in Calls, At(MAIN, from), Raise(MAIN)
      PROVE  HandlersOK'
  <2>1. Popped(MAIN)
    BY <1>1, <1>2, <1>3, <1>4, RaiseStep
  <2> QED
    BY <1>1, <2>1, HandlersPopped
<1>5. ASSUME NEW from \in Calls, NEW label \in Calls \union {"close_data"},
             At(MAIN, from), Goto(MAIN, label),
             label \notin Entering => fatal_error_in_progress',
             label \in CleanupLabels => signal_caught',
             from = "check" => ~ fatal_error_in_progress
      PROVE  HandlersOK'
  <2>1. Moved(MAIN, label)
    BY <1>1, <1>2, <1>3, <1>5, GotoStep DEF MovesOn
  <2> QED
    BY <1>1, <1>5, <2>1, HandlersMoved
<1>6. /\ "syslog" \notin CleanupLabels /\ "set" \notin CleanupLabels
      /\ "shutdown" \notin CleanupLabels /\ "caught" \notin CleanupLabels
      /\ "set" \in Entering
  BY DEF CleanupLabels, Entering
(* A handler past its "set" has the flag set. *)
<1>7. ASSUME NEW from \in {"syslog", "shutdown", "caught"}, At(MAIN, from)
      PROVE  fatal_error_in_progress
  <2>1. /\ frames[MAIN] # <<>> /\ Top(MAIN).at = from
        /\ Len(frames[MAIN]) # 1
    BY <1>1, <1>2, <1>7, LabelDepth
  <2>2. /\ Top(MAIN) = frames[MAIN][Len(frames[MAIN])]
        /\ Len(frames[MAIN]) \in Nat \ {0}
        /\ DOMAIN frames[MAIN] = 1 .. Len(frames[MAIN])
    BY <1>1, <2>1, TopFrame
  <2>3. Len(frames[MAIN]) \in DOMAIN frames[MAIN] /\ Len(frames[MAIN]) > 1
    <3>1. \A m \in Nat \ {0} : m # 1 => m \in 1 .. m /\ m > 1
      OBVIOUS
    <3> QED
      BY <2>1, <2>2, <3>1
  <2>4. from \notin Entering
    BY DEF Entering
  <2> QED
    BY <2>1, <2>2, <2>3, <2>4 DEF HandlersOK
<1>8. CASE Check(MAIN)
  BY <1>4, <1>5, <1>6, <1>8 DEF Check
<1>9. CASE Set(MAIN)
  BY <1>5, <1>6, <1>9 DEF Set
<1>10. CASE Syslog(MAIN)
  BY <1>5, <1>6, <1>7, <1>10 DEF Syslog, flags
<1>11. CASE Shutdown(MAIN)
  BY <1>5, <1>6, <1>7, <1>11 DEF Shutdown, flags
<1>12. CASE Caught(MAIN)
  BY <1>5, <1>6, <1>7, <1>12 DEF Caught
<1>13. CASE Reraise(MAIN)
  BY <1>4, <1>13 DEF Reraise, RaiseAgain
<1> QED
  BY <1>8, <1>9, <1>10, <1>11, <1>12, <1>13 DEF Handler

(* Where main's clean-up goes, and that a handler's has caught its signal. *)
LEMMA CleanupStep ==
  ASSUME TypeInv, HandlersOK, NEW from \in CleanupLabels, At(MAIN, from)
  PROVE  /\ Len(frames[MAIN]) \in Nat \ {0}
         /\ Len(frames[MAIN]) # 1 =>
              /\ Len(frames[MAIN]) > 1
              /\ signal_caught /\ fatal_error_in_progress
              /\ \A i \in DOMAIN frames[MAIN] :
                   i > 1 /\ i # Len(frames[MAIN]) =>
                     frames[MAIN][i].at \in Entering
         /\ Len(frames[MAIN]) = 1 => Base = from
<1> DEFINE n == Len(frames[MAIN])
<1>1. FramesOK /\ MAIN \in Threads
  BY DEF TypeInv, Threads
<1>2. /\ frames[MAIN] # <<>> /\ Top(MAIN).at = from
      /\ n = 1 => Base = from
  BY <1>1, LabelDepth
<1>3. /\ Top(MAIN) = frames[MAIN][n] /\ n \in Nat \ {0}
      /\ DOMAIN frames[MAIN] = 1 .. n
  BY <1>1, <1>2, TopFrame
<1>4. from \notin Entering
  BY DEF Entering, CleanupLabels
<1>5. ASSUME n # 1
      PROVE  /\ n > 1 /\ signal_caught /\ fatal_error_in_progress
             /\ \A i \in DOMAIN frames[MAIN] :
                   i > 1 /\ i # n => frames[MAIN][i].at \in Entering
  <2>1. n > 1 /\ n \in DOMAIN frames[MAIN]
    <3>1. \A m \in Nat \ {0} : m # 1 => m \in 1 .. m /\ m > 1
      OBVIOUS
    <3> QED
      BY <1>3, <1>5, <3>1
  <2>2. signal_caught /\ fatal_error_in_progress
    BY <1>2, <1>3, <1>4, <2>1 DEF HandlersOK
  <2>3. ASSUME NEW i \in DOMAIN frames[MAIN], i > 1, i # n,
               frames[MAIN][i].at \notin Entering
        PROVE  FALSE
    <3>1. n > i
      BY <1>3, <2>3
    <3>2. frames[MAIN][n].at = "check"
      BY <2>1, <2>3, <3>1 DEF HandlersOK
    <3> QED
      BY <1>2, <1>3, <1>4, <3>2 DEF Entering
  <2> QED
    BY <2>1, <2>2, <2>3
<1> QED
  BY <1>2, <1>3, <1>5

LEMMA HandlersCleanup ==
  ASSUME TypeInv, HandlersOK, FlagsStay, Cleanup(MAIN)
  PROVE  HandlersOK'
<1>1. FramesOK /\ DataOK /\ MAIN \in Threads
  BY DEF TypeInv, Threads
<1>2. UNCHANGED <<flags, started>>
  BY DEF Cleanup, CloseDataFile, First, Unlink, Free, Nullify, Destroy,
         FreeResult, ForgetResult, list
<1>3. ASSUME NEW from \in CleanupLabels,
             NEW label \in CleanupLabels \union {End(MAIN)},
             At(MAIN, from), Goto(MAIN, label)
      PROVE  HandlersOK'
  <2>1. Moved(MAIN, label)
    BY <1>1, <1>2, <1>3, CleanupMove DEF MovesOn
  <2>2. Len(frames[MAIN]) = 1 \/ (signal_caught' /\ fatal_error_in_progress')
    BY <1>2, <1>3, CleanupStep DEF flags
  <2>3. from # "check"
    BY DEF CleanupLabels
  <2> QED
    BY <1>1, <1>3, <2>1, <2>2, <2>3, HandlersMoved
<1>4. Unlink(MAIN) => Goto(MAIN, "free") \/ frames'[MAIN] = frames[MAIN]
  BY DEF Unlink
<1> QED
  BY <1>3, <1>4, HandlersSame
     DEF Cleanup, CloseDataFile, First, Unlink, Free, Nullify, Destroy,
         FreeResult, ForgetResult, CleanupLabels

LEMMA HandlersMain ==
  ASSUME TypeInv, HandlersOK, FlagsStay, Main
  PROVE  HandlersOK'
<1> DEFINE Calls == StartLabels \union ServingLabels
<1>1. FramesOK /\ DataOK /\ MAIN \in Threads /\ frames[MAIN] # <<>>
  BY DEF TypeInv, FramesOK, Threads
<1>2. ASSUME NEW from \in Calls, NEW label, At(MAIN, from), Goto(MAIN, label),
             label \in Calls \union {"close_data"}
      PROVE  HandlersOK'
  <2>1. label \in Labels /\ from \notin HandlerLabels
    BY <1>2 DEF StartLabels, ServingLabels, Labels, HandlerLabels, CleanupLabels
  <2>2. Len(frames[MAIN]) = 1
    BY <1>1, <1>2, <2>1, LabelDepth
  <2>3. Moved(MAIN, label)
    BY <1>1, <1>2, <2>1, GotoFrames
  <2> QED
    BY <1>1, <1>2, <2>2, <2>3, HandlersMoved
<1>3. CASE Install \/ Getaddrinfo \/ Socket \/ Bind \/ Daemon \/ Listen
  BY <1>2, <1>3 DEF Install, Getaddrinfo, Socket, Bind, Daemon, Listen, StartUp,
                    StartLabels, ServingLabels
<1>4. CASE Bound
  BY <1>2, <1>4 DEF Bound, FreeResult, ForgetResult, StartLabels, ServingLabels
<1>5. CASE Loop \/ Accept \/ Malloc \/ Insert
  BY <1>2, <1>5 DEF Loop, Accept, Malloc, Insert, ServingLabels
<1>6. CASE Create
  <2>1. \/ Goto(MAIN, "insert")
        \/ \E c \in Clients :
             frames' = [frames EXCEPT ![c] = <<Frame("serve", NONE)>>,
                                      ![MAIN] = <<Frame("insert", NONE)>>]
    BY <1>6 DEF Create
  <2>2. CASE Goto(MAIN, "insert")
    BY <1>2, <1>6, <2>2 DEF Create, ServingLabels
  <2>3. ASSUME NEW c \in Clients,
               frames' = [frames EXCEPT ![c] = <<Frame("serve", NONE)>>,
                                        ![MAIN] = <<Frame("insert", NONE)>>]
        PROVE  HandlersOK'
    <3>1. frames'[MAIN] = <<Frame("insert", NONE)>>
      BY <1>1, <2>3 DEF FramesOK
    <3>2. \A i \in DOMAIN frames'[MAIN] : ~ (i > 1)
      BY <3>1
    <3> QED
      BY <3>2 DEF HandlersOK
  <2> QED
    BY <2>1, <2>2, <2>3
<1>7. CASE Exit
  BY <1>7, HandlersSame DEF Exit
<1> QED
  BY <1>3, <1>4, <1>5, <1>6, <1>7 DEF Main

LEMMA HandlersNext ==
  ASSUME TypeInv, HandlersOK, [Next]_vars
  PROVE  HandlersOK'
<1>1. FlagsStay /\ FramesOK /\ MAIN \in Threads
  BY FlagsOnlySet DEF TypeInv, Threads
<1>2. ASSUME NEW t \in Threads, Run(t)
      PROVE  HandlersOK'
  <2>1. CASE t = MAIN
    <3>1. MAIN \notin Clients
      BY LifecycleAssumption
    <3> QED
      BY <1>1, <1>2, <2>1, <3>1, HandlersHandler, HandlersCleanup, HandlersMain
         DEF Run
  <2>2. CASE t \in Clients
    BY <1>1, <1>2, <2>2, OthersLeaveMain, HandlersSame
  <2> QED
    BY <2>1, <2>2 DEF Threads
<1>3. ASSUME NEW t \in Threads, DeliverTo(t)
      PROVE  HandlersOK'
  <2>1. \/ UNCHANGED frames
        \/ \E sig : Pushed(t, sig)
    BY <1>3, DeliverStep
  <2>2. ASSUME NEW sig, Pushed(t, sig)
        PROVE  HandlersOK'
    <3>1. CASE t = MAIN
      BY <1>1, <2>2, <3>1, HandlersPushed
    <3>2. CASE t # MAIN
      BY <1>1, <2>2, <3>2, HandlersSame DEF Pushed
    <3> QED
      BY <3>1, <3>2
  <2> QED
    BY <1>1, <2>1, <2>2, HandlersSame
<1>4. ASSUME NEW sig \in Signals, Send(sig)
      PROVE  HandlersOK'
  BY <1>1, <1>4, SendStep, HandlersSame
<1>5. CASE UNCHANGED vars
  BY <1>1, <1>5, HandlersSame DEF vars
<1> QED
  BY <1>2, <1>3, <1>4, <1>5 DEF Next

-----------------------------------------------------------------------------
(* The list that getaddrinfo allocated *)

(* Some frame of main is between freeing the list and setting result. *)
Forgets == \E i \in DOMAIN frames[MAIN] : frames[MAIN][i].at \in Forgetting

(* Main is interrupted, or about to be. *)
Interrupted == Len(frames[MAIN]) > 1 \/ Due(MAIN) # {}

(* A step that leaves the list and main's life alone. *)
LEMMA QuietAddress ==
  ASSUME AddressOK, Alive, UNCHANGED <<result, released, started>>,
         Base' = Base, signal_caught => signal_caught',
         process' = "exited" => result = NULL,
         Forgets => Forgets', Alive' /\ Interrupted => Interrupted'
  PROVE  AddressOK'
  BY DEF AddressOK, Alive, Forgets, Interrupted

(* Main runs its own code only before the list was freed twice. *)
LEMMA UninterruptedFreedOnce ==
  ASSUME AddressOK, Alive, DataOK, ~ Interrupted
  PROVE  released = 0 \/ released = 1
  BY DEF AddressOK, Alive, DataOK, Interrupted

(* A step of main's own code. *)
LEMMA MainAddress ==
  ASSUME AddressOK, Alive, NEW label, Base' = label, UNCHANGED process,
         released' = 0 \/ released' = 1,
         label \in {"install", "getaddrinfo"} => result' = NULL /\ released' = 0,
         label \in {"daemon", "exit"} \union ServingLabels => result' = NULL,
         started' # {} => result' = NULL,
         result' # NULL /\ released' > 0 => Forgets'
  PROVE  AddressOK'
<1>1. process' # "exited"
  BY DEF Alive
<1> QED
  BY <1>1 DEF AddressOK, Forgets

(* The innermost frame moves: who was forgetting still is, unless it moved. *)
LEMMA MovedForgets ==
  ASSUME FramesOK, NEW from, NEW label, At(MAIN, from), Moved(MAIN, label)
  PROVE  /\ Forgets /\ from \notin Forgetting => Forgets'
         /\ label \in Forgetting => Forgets'
         /\ Len(frames[MAIN]) > 1 => Interrupted'
         /\ Len(frames'[MAIN]) = Len(frames[MAIN])
<1> DEFINE n == Len(frames[MAIN])
<1>1. MAIN \in Threads /\ frames[MAIN] # <<>> /\ Top(MAIN).at = from
  BY DEF Threads, FramesOK, At
<1>2. n \in Nat \ {0} /\ Top(MAIN) = frames[MAIN][n]
      /\ DOMAIN frames[MAIN] = 1 .. n
  BY <1>1, TopFrame
<1>3. /\ DOMAIN frames'[MAIN] = 1 .. n /\ n \in 1 .. n
      /\ Len(frames'[MAIN]) = n
  BY <1>1, <1>2, LenProperties DEF Moved
<1>4. /\ \A i \in 1 .. n : i < n => frames'[MAIN][i] = frames[MAIN][i]
      /\ frames'[MAIN][n].at = label
  BY DEF Moved
<1>5. ASSUME Forgets, from \notin Forgetting
      PROVE  Forgets'
  <2>1. PICK i \in 1 .. n : frames[MAIN][i].at \in Forgetting
    BY <1>2, <1>5 DEF Forgets
  <2>2. i < n
    BY <1>1, <1>2, <1>5, <2>1
  <2> QED
    BY <1>3, <1>4, <2>1, <2>2 DEF Forgets
<1>6. label \in Forgetting => Forgets'
  BY <1>3, <1>4 DEF Forgets
<1> QED
  BY <1>3, <1>5, <1>6 DEF Interrupted

(* Main runs when no signal is due. *)
LEMMA RunsUninterrupted ==
  ASSUME TypeInv, Run(MAIN), Len(frames[MAIN]) = 1
  PROVE  ~ Interrupted
  BY DEF Run, Interrupted

LEMMA AddressHandler ==
  ASSUME TypeInv, AddressOK, Alive, FlagsStay, Handler(MAIN)
  PROVE  AddressOK'
<1> DEFINE Calls == {"check", "set", "syslog", "shutdown", "caught", "reraise"}
<1>1. FramesOK /\ DataOK /\ MAIN \in Threads
  BY DEF TypeInv, Threads
<1>2. /\ Calls \subseteq HandlerLabels \ CleanupLabels
      /\ Calls \union {"close_data"} \subseteq HandlerLabels \intersect Labels
      /\ Calls \intersect Forgetting = {}
  BY DEF HandlerLabels, CleanupLabels, Labels, Forgetting
<1>3. UNCHANGED <<process, started, result, released>>
  BY DEF Handler, Check, Set, Syslog, Shutdown, Caught, Reraise, list, address
<1>4. process' # "exited" /\ (signal_caught => signal_caught')
  BY <1>3 DEF Alive, FlagsStay
<1>5. ASSUME NEW from \in Calls, At(MAIN, from), Raise(MAIN)
      PROVE  AddressOK'
  <2>1. /\ Popped(MAIN) /\ Base' = Base /\ Due(MAIN)' # {}
        /\ Len(frames[MAIN]) \in Nat /\ Len(frames[MAIN]) > 1
        /\ FramesOK'
    BY <1>1, <1>2, <1>3, <1>5, RaiseStep
  <2>2. Forgets => Forgets'
    <3> DEFINE n == Len(frames[MAIN])
    <3>1. /\ DOMAIN frames[MAIN] = 1 .. n /\ DOMAIN frames'[MAIN] = 1 .. n - 1
          /\ frames[MAIN] # <<>>
      BY <1>1, <2>1, LenProperties DEF Popped, FramesOK
    <3>2. frames[MAIN][n].at = from
      BY <1>1, <1>5, <3>1, TopFrame DEF At
    <3>3. \A i \in 1 .. n - 1 : frames'[MAIN][i] = frames[MAIN][i]
      BY <2>1 DEF Popped
    <3>4. \A i \in 1 .. n : i # n => i \in 1 .. n - 1
      BY <2>1
    <3> QED
      BY <1>2, <3>1, <3>2, <3>3, <3>4 DEF Forgets
  <2>3. Interrupted'
    BY <2>1 DEF Interrupted
  <2> QED
    BY <1>3, <1>4, <2>1, <2>2, <2>3, QuietAddress
<1>6. ASSUME NEW from \in Calls, NEW label \in Calls \union {"close_data"},
             At(MAIN, from), Goto(MAIN, label)
      PROVE  AddressOK'
  <2>1. MovesOn(MAIN, from, label) /\ Len(frames[MAIN]) # 1
        /\ Len(frames[MAIN]) \in Nat \ {0}
    BY <1>1, <1>2, <1>3, <1>6, GotoStep, LabelDepth
  <2>2. Base' = Base /\ Moved(MAIN, label)
    BY <2>1 DEF MovesOn
  <2>3. Len(frames[MAIN]) > 1
    <3>1. \A m \in Nat \ {0} : m # 1 => m > 1
      OBVIOUS
    <3> QED
      BY <2>1, <3>1
  <2>4. (Forgets => Forgets') /\ Interrupted'
    BY <1>1, <1>2, <1>6, <2>2, <2>3, MovedForgets
  <2> QED
    BY <1>3, <1>4, <2>2, <2>4, QuietAddress
<1> QED
  BY <1>5, <1>6 DEF Handler, Check, Set, Syslog, Shutdown, Caught, Reraise,
                    RaiseAgain

LEMMA AddressCleanup ==
  ASSUME TypeInv, HandlersOK, AddressOK, Alive, FlagsStay, Cleanup(MAIN),
         Due(MAIN) = {}
  PROVE  AddressOK'
<1>1. FramesOK /\ DataOK /\ MAIN \in Threads
  BY DEF TypeInv, Threads
<1>2. UNCHANGED <<started, signal_caught>>
  BY DEF Cleanup, CloseDataFile, First, Unlink, Free, Nullify, Destroy,
         FreeResult, ForgetResult, list, flags
<1>3. ASSUME NEW from \in CleanupLabels,
             NEW label \in CleanupLabels \union {End(MAIN)},
             At(MAIN, from), Goto(MAIN, label),
             UNCHANGED process,
             label = End(MAIN) => result' = NULL,
             \/ UNCHANGED <<result, released>> /\ from # "forget_result"
             \/ result' = NULL /\ UNCHANGED released
             \/ /\ from = "free_result" /\ label = "forget_result"
                /\ result # NULL /\ UNCHANGED result /\ released' = released + 1
      PROVE  AddressOK'
  <2>1. /\ MovesOn(MAIN, from, label) /\ Moved(MAIN, label)
        /\ Base' = Base \/ Base' \in CleanupLabels \union {"exit"}
    BY <1>1, <1>2, <1>3, CleanupMove DEF MovesOn
  <2>2. /\ from \notin Forgetting \/ from = "forget_result"
        /\ "forget_result" \in Forgetting
        /\ "free_result" \notin Forgetting
    BY DEF Forgetting, CleanupLabels
  <2>3. /\ Forgets /\ from \notin Forgetting => Forgets'
        /\ label \in Forgetting => Forgets'
        /\ Len(frames[MAIN]) > 1 => Interrupted'
    BY <1>1, <1>3, <2>1, MovedForgets
  <2>4. /\ Len(frames[MAIN]) \in Nat \ {0}
        /\ Len(frames[MAIN]) # 1 =>
             /\ Len(frames[MAIN]) > 1 /\ signal_caught
             /\ \A i \in DOMAIN frames[MAIN] :
                  i > 1 /\ i # Len(frames[MAIN]) =>
                    frames[MAIN][i].at \in Entering
        /\ Len(frames[MAIN]) = 1 => Base = from
    BY <1>3, CleanupStep
(* The list is there and was freed: then main's first frame was interrupted
   before it set result. *)
  <2>5. ASSUME from = "free_result", result # NULL, released > 0
        PROVE  Len(frames[MAIN]) > 1 /\ Base \in Forgetting
    <3> DEFINE n == Len(frames[MAIN])
    <3>1. PICK i \in DOMAIN frames[MAIN] : frames[MAIN][i].at \in Forgetting
      BY <2>5 DEF AddressOK
    <3>2. /\ frames[MAIN][n].at = from /\ DOMAIN frames[MAIN] = 1 .. n
          /\ i \in 1 .. n
      BY <1>1, <1>3, TopFrame DEF At
    <3>3. i # n
      BY <2>2, <2>5, <3>1, <3>2
    <3>4. n # 1
      BY <3>2, <3>3
    <3>5. ~ (i > 1)
      <4>1. frames[MAIN][i].at \notin Entering
        BY <3>1 DEF Forgetting, Entering
      <4> QED
        BY <2>4, <3>3, <3>4, <4>1
    <3>6. i = 1
      BY <3>2, <3>5
    <3> QED
      BY <2>4, <3>1, <3>4, <3>6 DEF Base
  <2>6. CASE Len(frames[MAIN]) = 1
    <3>1. ~ Interrupted /\ (released = 0 \/ released = 1)
      <4>1. ~ Interrupted
        BY <2>6 DEF Interrupted
      <4> QED
        BY <1>1, <4>1, UninterruptedFreedOnce
    <3>2. /\ Base' = label /\ Base = from
      BY <2>1, <2>6 DEF MovesOn
    <3>3. /\ label \notin {"install", "getaddrinfo", "daemon"} \union ServingLabels
          /\ label = "exit" => label = End(MAIN)
      <4>1. End(MAIN) \in {"exit", "reraise"}
        BY DEF End
      <4> QED
        BY <4>1 DEF CleanupLabels, ServingLabels
    <3>4. released' = 0 \/ released' = 1
      <4>1. CASE released' = released
        BY <3>1, <4>1
      <4>2. CASE released' = released + 1 /\ from = "free_result" /\ result # NULL
        BY <2>5, <2>6, <3>1, <4>2
      <4> QED
        BY <1>3, <4>1, <4>2
    <3>5. result' # NULL => result # NULL
      BY <1>3
    <3>6. result' # NULL /\ released' > 0 => Forgets'
      <4>1. CASE UNCHANGED <<result, released>> /\ from # "forget_result"
        BY <2>2, <2>3, <4>1 DEF AddressOK, Forgets
      <4>2. CASE result' = NULL
        BY <4>2
      <4>3. CASE label = "forget_result"
        BY <2>2, <2>3, <4>3
      <4> QED
        BY <1>3, <4>1, <4>2, <4>3
    <3>7. process' # "exited"
      BY <1>3 DEF Alive
    <3>8. started' # {} => result' = NULL
      BY <1>2, <3>5 DEF AddressOK
    <3> QED
      BY <1>3, <3>2, <3>3, <3>4, <3>6, <3>7, <3>8 DEF AddressOK, Forgets
  <2>7. CASE Len(frames[MAIN]) # 1
    <3>1. Base' = Base
      BY <2>1, <2>7 DEF MovesOn
    <3>2. Interrupted' /\ signal_caught' /\ process' # "exited"
      BY <1>2, <1>3, <2>3, <2>4, <2>7 DEF Alive
    <3>3. CASE UNCHANGED <<result, released>> /\ from # "forget_result"
      BY <1>2, <2>2, <2>3, <3>1, <3>2, <3>3, QuietAddress
    <3>4. CASE result' = NULL /\ UNCHANGED released
      BY <1>2, <3>1, <3>2, <3>4 DEF AddressOK, Interrupted
    <3>5. CASE /\ from = "free_result" /\ label = "forget_result"
               /\ result # NULL /\ UNCHANGED result /\ released' = released + 1
      <4>1. Forgets'
        BY <2>2, <2>3, <3>5
      <4>2. released' > 1 => Base \in Forgetting
        BY <1>1, <2>5, <3>5 DEF DataOK
      <4>3. /\ Base \notin {"install", "getaddrinfo"}
            /\ Base \notin {"daemon", "exit"} \union ServingLabels
            /\ started = {}
        <5>1. started = {} /\ Base \notin {"daemon", "exit"} \union ServingLabels
              /\ Base \notin {"install", "getaddrinfo"}
          BY <3>5 DEF AddressOK
        <5> QED
          BY <5>1
      <4> QED
        BY <1>2, <3>1, <3>2, <3>5, <4>1, <4>2, <4>3
           DEF AddressOK, Forgets, Interrupted
    <3> QED
      BY <1>3, <3>3, <3>4, <3>5
  <2> QED
    BY <2>6, <2>7
<1>4. "exit" \notin CleanupLabels /\ "reraise" \notin CleanupLabels
      /\ End(MAIN) \in {"exit", "reraise"}
  BY DEF CleanupLabels, End
<1>5. CASE \/ CloseDataFile(MAIN) \/ First(MAIN) \/ Free(MAIN)
           \/ Nullify(MAIN) \/ Destroy(MAIN)
  <2>1. UNCHANGED <<process, result, released>>
    BY <1>5 DEF CloseDataFile, First, Free, Nullify, Destroy, address
  <2> QED
    BY <1>3, <1>4, <1>5, <2>1
       DEF CloseDataFile, First, Free, Nullify, Destroy, CleanupLabels
<1>6. CASE Unlink(MAIN)
  <2>1. UNCHANGED <<result, released>> /\ At(MAIN, "remove")
    BY <1>6 DEF Unlink, address
  <2>2. CASE Goto(MAIN, "free") /\ UNCHANGED process
    BY <1>3, <1>4, <2>1, <2>2 DEF CleanupLabels
  <2>3. CASE process' = "crashed" /\ UNCHANGED frames
    <3>1. Base' = Base /\ (Forgets => Forgets') /\ ~ Alive'
          /\ process' # "exited"
      BY <2>3 DEF Base, Forgets, Alive
    <3> QED
      BY <1>2, <2>1, <3>1, QuietAddress
  <2> QED
    BY <1>6, <2>2, <2>3 DEF Unlink
<1>7. CASE FreeResult(MAIN, "free_result", "forget_result", End(MAIN))
  <2>1. UNCHANGED <<process, result>> /\ At(MAIN, "free_result")
    BY <1>7 DEF FreeResult
  <2> QED
    BY <1>3, <1>4, <1>7, <2>1 DEF FreeResult, CleanupLabels
<1>8. CASE ForgetResult(MAIN, "forget_result", End(MAIN))
  BY <1>3, <1>4, <1>8 DEF ForgetResult, Nullified, CleanupLabels
<1> QED
  BY <1>5, <1>6, <1>7, <1>8 DEF Cleanup

(* After pthread_create main is about to insert the node. *)
LEMMA CreateBase ==
  ASSUME FramesOK, Create
  PROVE  Base' = "insert" /\ frames'[MAIN] # <<>> /\ ~ At(MAIN, "remove")'
         /\ ~ At(MAIN, "free")' /\ Len(frames'[MAIN]) = 1
<1>1. MAIN \in Threads /\ At(MAIN, "create") /\ "create" \notin HandlerLabels
      /\ frames \in [Threads -> Seq(FrameSet)] /\ "insert" \in Labels
  BY DEF Create, Threads, FramesOK, HandlerLabels, CleanupLabels, Labels
<1>2. Len(frames[MAIN]) = 1 /\ frames[MAIN] # <<>>
  BY <1>1, LabelDepth
<1>3. PICK c \in Clients :
        \/ frames' = [frames EXCEPT ![c] = <<Frame("serve", NONE)>>,
                                    ![MAIN] = <<Frame("insert", NONE)>>]
        \/ Goto(MAIN, "insert")
  BY DEF Create
<1>4. CASE frames' = [frames EXCEPT ![c] = <<Frame("serve", NONE)>>,
                                    ![MAIN] = <<Frame("insert", NONE)>>]
  <2>1. frames'[MAIN] = <<Frame("insert", NONE)>>
    BY <1>1, <1>4
  <2> QED
    BY <2>1 DEF Base, Frame, At, Top, Last
<1>5. CASE Goto(MAIN, "insert")
  <2>1. Moved(MAIN, "insert")
    BY <1>1, <1>2, <1>5, GotoFrames
  <2>2. Len(frames'[MAIN]) = 1 /\ frames'[MAIN][1].at = "insert"
    BY <1>2, <2>1 DEF Moved
  <2>3. frames'[MAIN] # <<>>
    BY <2>2, EmptySeq
  <2> QED
    BY <2>2, <2>3 DEF Base, At, Top, Last
<1> QED
  BY <1>3, <1>4, <1>5

LEMMA AddressMain ==
  ASSUME TypeInv, AddressOK, Alive, FlagsStay, Main, Due(MAIN) = {}
  PROVE  AddressOK'
<1> DEFINE Calls == StartLabels \union ServingLabels
<1>1. FramesOK /\ DataOK /\ ListOK /\ MAIN \in Threads /\ frames[MAIN] # <<>>
  BY DEF TypeInv, FramesOK, Threads
<1>2. Calls \intersect HandlerLabels = {} /\ "exit" \notin HandlerLabels
  BY DEF StartLabels, ServingLabels, HandlerLabels, CleanupLabels
<1>3. Calls \union {"close_data"} \subseteq BaseLabels(MAIN)
  BY DEF BaseLabels, CleanupLabels
<1>4. ASSUME NEW from \in Calls, NEW label \in Calls \union {"close_data"},
             At(MAIN, from), Goto(MAIN, label), UNCHANGED started
      PROVE  /\ Base = from /\ Base' = label
             /\ released = 0 \/ released = 1
             /\ from \notin Forgetting => result = NULL \/ released = 0
             /\ label \in Forgetting => Forgets'
  <2>1. MovesOn(MAIN, from, label) /\ Len(frames[MAIN]) = 1
        /\ Base = from /\ Base' = label
    BY <1>1, <1>2, <1>3, <1>4, MainMove
  <2>2. ~ Interrupted
    BY <2>1 DEF Interrupted
  <2>3. released = 0 \/ released = 1
    BY <1>1, <2>2, UninterruptedFreedOnce
  <2>4. from \notin Forgetting => ~ Forgets
    <3>1. DOMAIN frames[MAIN] = 1 .. 1
      BY <1>1, <2>1, TopFrame
    <3> QED
      BY <2>1, <3>1 DEF Forgets, Base
  <2>5. from \notin Forgetting => result = NULL \/ released = 0
    BY <2>3, <2>4 DEF AddressOK, Forgets
  <2>6. label \in Forgetting => Forgets'
    BY <1>1, <1>4, <2>1, MovedForgets DEF MovesOn
  <2> QED
    BY <2>1, <2>3, <2>5, <2>6
<1>5. CASE Install
  <2>1. /\ At(MAIN, "install") /\ Goto(MAIN, "getaddrinfo")
        /\ UNCHANGED <<process, started, result, released>>
    BY <1>5 DEF Install, list, address
  <2>2. {"install", "getaddrinfo"} \subseteq Calls
    BY DEF StartLabels
  <2>3. Base = "install" /\ Base' = "getaddrinfo"
    BY <1>4, <2>1, <2>2
  <2>4. result = NULL /\ released = 0
    BY <2>3 DEF AddressOK
  <2> QED
    BY <2>1, <2>3, <2>4, MainAddress
<1>6. CASE Getaddrinfo
  <2>1. PICK label \in {"socket", "close_data"} : Goto(MAIN, label)
    BY <1>6 DEF Getaddrinfo, StartUp
  <2>2. /\ At(MAIN, "getaddrinfo")
        /\ UNCHANGED <<process, started, released>>
    BY <1>6 DEF Getaddrinfo, StartUp, list
  <2>3. {"getaddrinfo", "socket"} \subseteq StartLabels
    BY DEF StartLabels
  <2>4. Base = "getaddrinfo" /\ Base' = label
    BY <1>4, <2>1, <2>2, <2>3
  <2>5. released = 0 /\ started = {}
    BY <1>1, <2>3, <2>4 DEF AddressOK, ListOK
  <2>6. label \notin {"daemon", "exit", "install", "getaddrinfo"}
                       \union ServingLabels
    BY DEF ServingLabels
  <2> QED
    BY <2>2, <2>4, <2>5, <2>6, MainAddress
(* A call that leaves the list alone. *)
<1>7. ASSUME NEW from \in Calls, NEW label \in Calls \union {"close_data"},
             At(MAIN, from), Goto(MAIN, label),
             UNCHANGED <<process, started, result, released>>,
             from \notin {"install", "getaddrinfo"} \union Forgetting,
             label \notin {"install", "getaddrinfo"},
             label \in {"daemon", "exit"} \union ServingLabels =>
               from \in {"daemon"} \union ServingLabels
      PROVE  AddressOK'
  <2>1. /\ Base = from /\ Base' = label /\ (released = 0 \/ released = 1)
        /\ result = NULL \/ released = 0
    BY <1>4, <1>7
  <2>2. label \in {"daemon", "exit"} \union ServingLabels => result = NULL
    BY <1>7, <2>1 DEF AddressOK
  <2>3. started # {} => result = NULL
    BY DEF AddressOK
  <2> QED
    BY <1>7, <2>1, <2>2, <2>3, MainAddress
<1>8. CASE Socket \/ Bind \/ Daemon \/ Listen
  <2>1. UNCHANGED <<process, started, result, released>>
    BY <1>8 DEF Socket, Bind, Daemon, Listen, list, address
  <2>2. \/ At(MAIN, "socket") /\ (Goto(MAIN, "bind") \/ Goto(MAIN, "close_data"))
        \/ At(MAIN, "bind") /\ (Goto(MAIN, "bound") \/ Goto(MAIN, "close_data"))
        \/ At(MAIN, "daemon") /\ (Goto(MAIN, "listen") \/ Goto(MAIN, "close_data"))
        \/ At(MAIN, "listen") /\ (Goto(MAIN, "loop") \/ Goto(MAIN, "close_data"))
    BY <1>8 DEF Socket, Bind, Daemon, Listen, StartUp
  <2> QED
    BY <1>7, <2>1, <2>2 DEF StartLabels, ServingLabels, Forgetting
<1>9. CASE Bound
  <2>1. UNCHANGED <<process, started>>
    BY <1>9 DEF Bound, FreeResult, ForgetResult, list
  <2>2. PICK next \in {"daemon", "listen"} :
          \/ FreeResult(MAIN, "bound", "forget_bound", next)
          \/ ForgetResult(MAIN, "forget_bound", next)
    BY <1>9 DEF Bound
  <2>3. /\ {"bound", "forget_bound", next} \subseteq Calls
        /\ "bound" \notin Forgetting /\ "bound" \in StartLabels
        /\ "forget_bound" \in Forgetting /\ "forget_bound" \in StartLabels
        /\ "forget_bound" \notin {"daemon", "exit", "install", "getaddrinfo"}
                                   \union ServingLabels
        /\ next \notin {"install", "getaddrinfo"}
    BY DEF StartLabels, ServingLabels, Forgetting
  <2>4. CASE At(MAIN, "bound") /\ result = NULL /\ Goto(MAIN, next)
             /\ UNCHANGED <<result, released>>
    <3>1. Base' = next /\ (released = 0 \/ released = 1)
      BY <1>4, <2>1, <2>3, <2>4
    <3> QED
      BY <2>1, <2>3, <2>4, <3>1, MainAddress
  <2>5. CASE At(MAIN, "bound") /\ result # NULL /\ Goto(MAIN, "forget_bound")
             /\ UNCHANGED result /\ released' = released + 1
    <3>1. /\ Base = "bound" /\ Base' = "forget_bound" /\ released = 0
          /\ Forgets'
      BY <1>4, <2>1, <2>3, <2>5
    <3>2. started = {}
      BY <1>1, <2>3, <3>1 DEF ListOK
    <3> QED
      BY <2>1, <2>3, <2>5, <3>1, <3>2, MainAddress
  <2>6. CASE At(MAIN, "forget_bound") /\ result' = NULL /\ Goto(MAIN, next)
             /\ UNCHANGED released
    <3>1. Base' = next /\ (released = 0 \/ released = 1)
      BY <1>4, <2>1, <2>3, <2>6
    <3> QED
      BY <2>1, <2>3, <2>6, <3>1, MainAddress
  <2> QED
    BY <2>2, <2>4, <2>5, <2>6 DEF FreeResult, ForgetResult, Nullified
<1>10. CASE Loop \/ Accept \/ Malloc \/ Insert
  <2>1. UNCHANGED <<process, started, result, released>>
    BY <1>10 DEF Loop, Accept, Malloc, Insert, list, address
  <2>2. \/ At(MAIN, "loop") /\ (Goto(MAIN, "accept") \/ Goto(MAIN, "close_data"))
        \/ At(MAIN, "accept") /\ (Goto(MAIN, "malloc") \/ Goto(MAIN, "close_data"))
        \/ At(MAIN, "malloc") /\ (Goto(MAIN, "create") \/ Goto(MAIN, "close_data"))
        \/ At(MAIN, "insert") /\ Goto(MAIN, "loop")
    BY <1>10 DEF Loop, Accept, Malloc, Insert
  <2> QED
    BY <1>7, <2>1, <2>2 DEF StartLabels, ServingLabels, Forgetting
<1>11. CASE Create
  <2>1. At(MAIN, "create") /\ UNCHANGED <<process, result, released>>
    BY <1>11 DEF Create, address
  <2>2. "create" \in ServingLabels
    BY DEF ServingLabels
  <2>3. Base = "create" /\ Len(frames[MAIN]) = 1
    BY <1>1, <1>2, <2>1, <2>2, LabelDepth
  <2>4. result = NULL
    BY <2>2, <2>3 DEF AddressOK
  <2>5. released = 0 \/ released = 1
    BY <1>1, <2>3, UninterruptedFreedOnce DEF Interrupted
  <2>6. Base' = "insert"
    BY <1>1, <1>11, CreateBase
  <2> QED
    BY <2>1, <2>4, <2>5, <2>6, MainAddress
<1>12. CASE Exit
  <2>1. At(MAIN, "exit") /\ process' = "exited"
        /\ UNCHANGED <<frames, started, result, released, signal_caught>>
    BY <1>12 DEF Exit, list, address, flags
  <2>2. Base = "exit"
    BY <1>1, <1>2, <2>1, LabelDepth
  <2>3. result = NULL
    BY <2>2 DEF AddressOK
  <2>4. Base' = Base /\ (Forgets => Forgets') /\ ~ Alive'
    BY <2>1 DEF Base, Forgets, Alive
  <2> QED
    BY <2>1, <2>3, <2>4, QuietAddress
<1> QED
  BY <1>5, <1>6, <1>8, <1>9, <1>10, <1>11, <1>12 DEF Main

(* No client has the list to free. *)
LEMMA AddressClient ==
  ASSUME TypeInv, AddressOK, Alive, FlagsStay, NEW c \in Clients, Run(c)
  PROVE  AddressOK'
<1>1. /\ FramesOK /\ c \in Threads /\ c \in started /\ At(c, Top(c).at)
  BY DEF TypeInv, FramesOK, Threads, Run, At
<1>2. result = NULL
  BY <1>1 DEF AddressOK
<1>3. frames'[MAIN] = frames[MAIN] /\ pending'[MAIN] = pending[MAIN]
  BY OthersLeaveMain
<1>4. Base' = Base /\ (Forgets => Forgets') /\ (Interrupted => Interrupted')
  BY <1>3 DEF Base, Forgets, Interrupted, Due, Handling
<1>5. c # MAIN
  BY LifecycleAssumption
<1>6. result' = NULL /\ released' = released
  BY <1>2, <1>5 DEF Run, Handler, Check, Set, Syslog, Shutdown, Caught, Reraise,
       Cleanup, CloseDataFile, First, Unlink, Free, Nullify, Destroy,
         FreeResult, ForgetResult,
       Nullified, Serve, address
<1>7. started' = started
  BY <1>5 DEF Run, Handler, Check, Set, Syslog, Shutdown, Caught, Reraise,
       Cleanup, CloseDataFile, First, Unlink, Free, Nullify, Destroy,
         FreeResult, ForgetResult,
       Serve, list
<1> QED
  BY <1>2, <1>4, <1>6, <1>7, QuietAddress DEF FlagsStay

LEMMA AddressSignal ==
  ASSUME TypeInv, AddressOK, Alive,
         \/ \E sig \in Signals : Send(sig)
         \/ \E t \in Threads : DeliverTo(t)
  PROVE  AddressOK'
<1>1. FramesOK /\ MAIN \in Threads
  BY DEF TypeInv, Threads
<1>2. ASSUME NEW sig \in Signals, Send(sig)
      PROVE  AddressOK'
  <2>1. UNCHANGED <<process, frames, result, released, started, signal_caught>>
    BY <1>2 DEF Send, address, list, flags
  <2>2. pending[MAIN] \subseteq pending'[MAIN]
    BY <1>1, <1>2, SendStep
  <2>3. Base' = Base /\ (Forgets => Forgets') /\ (Interrupted => Interrupted')
    BY <2>1, <2>2 DEF Base, Forgets, Interrupted, Due, Handling
  <2> QED
    BY <2>1, <2>3, QuietAddress DEF Alive
<1>3. ASSUME NEW t \in Threads, DeliverTo(t)
      PROVE  AddressOK'
  <2>1. UNCHANGED <<result, released, started, signal_caught>>
    BY <1>3, DeliverStep DEF address, list, flags
  <2>2. CASE process' = "terminated" /\ UNCHANGED frames
    <3>1. Base' = Base /\ (Forgets => Forgets') /\ ~ Alive'
      BY <2>2 DEF Base, Forgets, Alive
    <3> QED
      BY <2>1, <2>2, <3>1, QuietAddress
  <2>3. ASSUME UNCHANGED process, NEW sig \in pending[t], Pushed(t, sig)
        PROVE  AddressOK'
    <3>1. CASE t = MAIN
      <4> DEFINE n == Len(frames[MAIN])
      <4>1. /\ n \in Nat \ {0} /\ DOMAIN frames[MAIN] = 1 .. n
            /\ DOMAIN frames'[MAIN] = 1 .. n + 1 /\ Len(frames'[MAIN]) = n + 1
        <5>1. frames[MAIN] # <<>>
          BY <1>1 DEF FramesOK
        <5> QED
          BY <1>1, <2>3, <3>1, <5>1, TopFrame, LenProperties DEF Pushed
      <4>2. \A i \in 1 .. n : frames'[MAIN][i] = frames[MAIN][i]
        BY <2>3, <3>1 DEF Pushed
      <4>3. Base' = Base /\ (Forgets => Forgets') /\ Interrupted'
        <5>1. 1 \in 1 .. n /\ n + 1 > 1 /\ 1 .. n \subseteq 1 .. n + 1
          BY <4>1
        <5> QED
          BY <4>1, <4>2, <5>1 DEF Base, Forgets, Interrupted
      <4> QED
        BY <2>1, <2>3, <4>3, QuietAddress DEF Alive
    <3>2. CASE t # MAIN
      <4>1. frames'[MAIN] = frames[MAIN] /\ pending'[MAIN] = pending[MAIN]
        BY <1>1, <1>3, <2>3, <3>2, DeliverStep DEF Pushed
      <4>2. Base' = Base /\ (Forgets => Forgets')
            /\ (Interrupted => Interrupted')
        BY <4>1 DEF Base, Forgets, Interrupted, Due, Handling
      <4> QED
        BY <2>1, <2>3, <4>2, QuietAddress DEF Alive
    <3> QED
      BY <3>1, <3>2
  <2> QED
    BY <1>3, <2>2, <2>3, DeliverStep
<1> QED
  BY <1>2, <1>3

LEMMA AddressInit == Init => AddressInv
<1> SUFFICES ASSUME Init
             PROVE  AddressInv
  OBVIOUS
<1>1. TypeInv
  BY TypeInit
<1>2. MAIN \in Threads /\ frames[MAIN] = <<Frame("install", NONE)>>
  BY DEF Init, Threads
<1>3. HandlersOK
  <2>1. \A i \in DOMAIN frames[MAIN] : ~ (i > 1)
    BY <1>2
  <2> QED
    BY <2>1 DEF HandlersOK
<1>4. AddressOK
  BY DEF Init, AddressOK
<1> QED
  BY <1>1, <1>3, <1>4 DEF AddressInv

LEMMA AddressNext == AddressInv /\ [Next]_vars => AddressInv'
<1> SUFFICES ASSUME AddressInv, [Next]_vars
             PROVE  AddressInv'
  OBVIOUS
<1>1. TypeInv /\ HandlersOK /\ AddressOK
  BY DEF AddressInv
<1>2. TypeInv' /\ HandlersOK'
  BY <1>1, TypeNext, HandlersNext
<1>3. AddressOK'
  <2>1. CASE UNCHANGED vars
    <3>1. UNCHANGED <<process, frames, pending, started, result, released,
                      signal_caught>>
      BY <2>1 DEF vars, signals, list, address, flags
    <3> QED
      BY <1>1, <3>1 DEF AddressOK, Base, Alive, Due, Handling
  <2>2. CASE Next
    <3>1. Alive /\ FlagsStay
      BY <2>2, FlagsOnlySet DEF Next
    <3>2. ASSUME NEW t \in Threads, Run(t)
          PROVE  AddressOK'
      <4>1. CASE t = MAIN
        <5>1. MAIN \notin Clients /\ Due(MAIN) = {}
          BY <3>2, <4>1, LifecycleAssumption DEF Run
        <5> QED
          BY <1>1, <3>1, <3>2, <4>1, <5>1, AddressHandler, AddressCleanup,
             AddressMain DEF Run
      <4>2. CASE t \in Clients
        BY <1>1, <3>1, <3>2, <4>2, AddressClient
      <4> QED
        BY <4>1, <4>2 DEF Threads
    <3> QED
      BY <1>1, <2>2, <3>1, <3>2, AddressSignal DEF Next
  <2> QED
    BY <2>1, <2>2
<1> QED
  BY <1>2, <1>3 DEF AddressInv

(* Whatever fails and however many signals come, the list that getaddrinfo *)
(* allocated is freed on every way out, and a second time only if a signal *)
(* comes between freeaddrinfo and the assignment of NULL:                  *)
(* src/server/aesdsocket.c, free_and_nullify_result.                       *)
THEOREM AddressListIsFreedOnce == Spec => []AddressListFreedOnce
<1>1. AddressInv => AddressListFreedOnce
  BY DEF AddressInv, AddressOK, AddressListFreedOnce, Base, Forgetting
<1> QED
  BY <1>1, AddressInit, AddressNext, PTL DEF Spec

-----------------------------------------------------------------------------
(* The nodes, when one signal comes *)

(* How main's stack and signals change when it runs. *)
LEMMA MainSteps ==
  ASSUME TypeInv, Run(MAIN)
  PROVE  /\ sent' = sent
         /\ \/ UNCHANGED <<pending, frames>>
            \/ UNCHANGED pending /\ \E label : Moved(MAIN, label)
            \/ /\ Len(frames[MAIN]) > 1 /\ Popped(MAIN)
               /\ Due(MAIN)' # {}
               /\ \A u \in Threads : u # MAIN => pending'[u] = pending[u]
            \/ UNCHANGED pending /\ Create
<1>1. FramesOK /\ DataOK /\ MAIN \in Threads /\ frames[MAIN] # <<>>
  BY DEF TypeInv, FramesOK, Threads
<1>2. ASSUME NEW label \in Labels, Goto(MAIN, label)
      PROVE  Moved(MAIN, label)
  BY <1>1, <1>2, GotoFrames
<1>3. CASE Handler(MAIN)
  <2>1. UNCHANGED <<sent, started>>
    BY <1>3 DEF Handler, Check, Set, Syslog, Shutdown, Caught, Reraise, signals,
                list
  <2>2. ASSUME NEW from \in {"check", "reraise"}, At(MAIN, from), Raise(MAIN)
        PROVE  /\ Len(frames[MAIN]) > 1 /\ Popped(MAIN)
               /\ Due(MAIN)' # {}
               /\ \A u \in Threads : u # MAIN => pending'[u] = pending[u]
    <3>1. from \in HandlerLabels \ CleanupLabels
      BY DEF HandlerLabels, CleanupLabels
    <3> QED
      BY <1>1, <2>1, <2>2, <3>1, RaiseStep
  <2>3. \/ /\ UNCHANGED pending
           /\ \E label \in {"set", "syslog", "shutdown", "caught", "close_data"} :
                Goto(MAIN, label)
        \/ \E from \in {"check", "reraise"} : At(MAIN, from) /\ Raise(MAIN)
    BY <1>3 DEF Handler, Check, Set, Syslog, Shutdown, Caught, Reraise,
                RaiseAgain, signals
  <2>4. {"set", "syslog", "shutdown", "caught", "close_data"} \subseteq Labels
    BY DEF Labels
  <2> QED
    BY <1>2, <2>1, <2>2, <2>3, <2>4
<1>4. CASE Cleanup(MAIN)
  <2>1. UNCHANGED <<sent, pending>>
    BY <1>4 DEF Cleanup, CloseDataFile, First, Unlink, Free, Nullify, Destroy,
         FreeResult, ForgetResult, signals
  <2>2. \/ UNCHANGED frames
        \/ \E label \in CleanupLabels \union {End(MAIN)} : Goto(MAIN, label)
    BY <1>4 DEF Cleanup, CloseDataFile, First, Unlink, Free, Nullify, Destroy,
         FreeResult, ForgetResult, CleanupLabels
  <2>3. CleanupLabels \union {End(MAIN)} \subseteq Labels
    BY DEF CleanupLabels, End, Labels
  <2> QED
    BY <1>2, <2>1, <2>2, <2>3
<1>5. CASE Main
  <2>1. UNCHANGED <<sent, pending>>
    BY <1>5 DEF Main, Install, Getaddrinfo, Socket, Bind, Bound, FreeResult,
                ForgetResult, Daemon, Listen, Loop, Accept, Malloc, Create,
                Insert, Exit, signals
  <2>2. \/ UNCHANGED frames \/ Create
        \/ \E label \in StartLabels \union ServingLabels \union {"close_data"} :
             Goto(MAIN, label)
    <3>1. CASE Install \/ Getaddrinfo \/ Socket \/ Bind \/ Daemon \/ Listen
      BY <3>1 DEF Install, Getaddrinfo, Socket, Bind, Daemon, Listen, StartUp,
                  StartLabels, ServingLabels
    <3>2. CASE Bound
      BY <3>2 DEF Bound, FreeResult, ForgetResult, StartLabels, ServingLabels
    <3>3. CASE Loop \/ Accept \/ Malloc \/ Insert
      BY <3>3 DEF Loop, Accept, Malloc, Insert, ServingLabels
    <3>4. CASE Create \/ Exit
      BY <3>4 DEF Exit
    <3> QED
      BY <1>5, <3>1, <3>2, <3>3, <3>4 DEF Main
  <2>3. StartLabels \union ServingLabels \union {"close_data"} \subseteq Labels
    BY DEF StartLabels, ServingLabels, Labels
  <2> QED
    BY <1>2, <2>1, <2>2, <2>3
<1>6. MAIN \notin Clients
  BY LifecycleAssumption
<1> QED
  BY <1>3, <1>4, <1>5, <1>6 DEF Run

(* A client that no signal reached is in its own code. *)
LEMMA ClientServes ==
  ASSUME TypeInv, OneSignal, NEW c \in Clients, Run(c)
  PROVE  /\ Serve(c)
         /\ \A u \in Threads : u # c => frames'[u] = frames[u]
         /\ Len(frames'[c]) \in {0, 1}
         /\ UNCHANGED <<sent, pending>>
<1>1. FramesOK /\ c \in Threads /\ c # MAIN /\ frames[c] # <<>>
  BY LifecycleAssumption DEF TypeInv, Threads, Run
<1>2. Len(frames[c]) \in Nat \ {0} /\ Len(frames[c]) \in {0, 1}
  BY <1>1, TopFrame DEF OneSignal
<1>3. Len(frames[c]) = 1
  BY <1>2
<1>4. ASSUME NEW from \in HandlerLabels, At(c, from)
      PROVE  FALSE
  <2>1. from \in BaseLabels(c)
    BY <1>1, <1>3, <1>4, LabelDepth
  <2> QED
    BY <1>1, <2>1 DEF BaseLabels, HandlerLabels, CleanupLabels
<1>5. ~ Handler(c) /\ ~ Cleanup(c)
  BY <1>4 DEF Handler, Check, Set, Syslog, Shutdown, Caught, Reraise, Cleanup,
     CloseDataFile, First, Unlink, Free, Nullify, Destroy, FreeResult, ForgetResult,
     HandlerLabels, CleanupLabels
<1>6. Serve(c)
  BY <1>1, <1>5 DEF Run
<1>7. (\E label \in Labels : Moved(c, label)) \/ Popped(c)
  <2>1. {"logging", "open"} \subseteq Labels
    BY DEF Labels
  <2> QED
    BY <1>1, <1>6, <2>1, GotoFrames, ReturnFrames DEF Serve
<1>8. Len(frames'[c]) \in {0, 1}
  <2>1. (\E label \in Labels : Moved(c, label)) => Len(frames'[c]) = 1
    BY <1>3 DEF Moved
  <2>2. Popped(c) => Len(frames'[c]) = 1 - 1
    BY <1>3 DEF Popped
  <2> QED
    BY <1>7, <2>1, <2>2
<1> QED
  BY <1>6, <1>7, <1>8 DEF Moved, Popped, Serve, signals

(* While no signal was sent, the first goes to main; no other is. *)
LEMMA OneSignalNext ==
  ASSUME MaxSent <= 1, TypeInv, OneSignal, [Next]_vars
  PROVE  OneSignal'
<1>1. /\ FramesOK /\ MAIN \in Threads /\ frames[MAIN] # <<>>
      /\ MaxSent \in Nat /\ sent \in Nat
      /\ \A c \in Clients : c \in Threads /\ c # MAIN
  BY LifecycleAssumption DEF TypeInv, FramesOK, Threads, OneSignal
<1>2. ASSUME NEW sig \in Signals, Send(sig)
      PROVE  OneSignal'
  <2>1. sent = 0 /\ sent' = 1
    BY <1>1, <1>2, SendStep
  <2>2. pending[MAIN] = {} /\ Len(frames[MAIN]) = 1
    BY <2>1 DEF OneSignal
  <2>3. sig \notin Handling(MAIN)
    <3>1. DOMAIN frames[MAIN] = 1 .. 1 /\ StackOK(MAIN, frames[MAIN])
      BY <1>1, <2>2, TopFrame DEF FramesOK
    <3>2. frames[MAIN][1].sig = NONE
      BY <3>1 DEF StackOK
    <3> QED
      BY <3>1, <3>2 DEF Handling
  <2>4. MAIN \in Unblocked(sig)
    BY <1>1, <2>3 DEF Unblocked
  <2>5. Takers(sig) = {MAIN}
    BY <2>2, <2>4 DEF Takers
  <2>6. UNCHANGED frames /\ \A c \in Clients : pending'[c] = pending[c]
    BY <1>1, <1>2, <2>5, SendStep
  <2> QED
    BY <1>1, <1>2, <2>1, <2>6, SendStep DEF OneSignal
<1>3. ASSUME NEW t \in Threads, DeliverTo(t)
      PROVE  OneSignal'
  <2>1. CASE pending[t] = {}
    <3>1. Due(t) = {}
      BY <2>1 DEF Due
    <3> QED
      BY <1>3, <3>1 DEF DeliverTo, Deliver
  <2>2. CASE pending[t] # {}
    <3>1. t = MAIN /\ sent # 0
      BY <2>2 DEF OneSignal, Threads
    <3>2. /\ sent' = sent
          /\ \A c \in Clients : pending'[c] = pending[c] /\ frames'[c] = frames[c]
      BY <1>1, <1>3, <3>1, DeliverStep DEF Pushed
    <3> QED
      BY <3>1, <3>2 DEF OneSignal
  <2> QED
    BY <2>1, <2>2
<1>4. CASE Run(MAIN)
  <2>1. sent' = sent
    BY <1>4, MainSteps
  <2>2. CASE UNCHANGED <<pending, frames>>
    BY <2>1, <2>2 DEF OneSignal
  <2>3. ASSUME UNCHANGED pending, NEW label, Moved(MAIN, label)
        PROVE  OneSignal'
    BY <1>1, <2>1, <2>3 DEF OneSignal, Moved
  <2>4. CASE /\ Len(frames[MAIN]) > 1 /\ Popped(MAIN)
             /\ \A u \in Threads : u # MAIN => pending'[u] = pending[u]
    <3>1. sent # 0
      <4>1. \A n \in Nat : n > 1 => n # 1
        OBVIOUS
      <4>2. Len(frames[MAIN]) \in Nat
        BY <1>1, TopFrame
      <4>3. Len(frames[MAIN]) # 1
        BY <2>4, <4>1, <4>2
      <4> QED
        BY <4>3 DEF OneSignal
    <3> QED
      BY <1>1, <2>1, <2>4, <3>1 DEF OneSignal, Popped
  <2>5. CASE UNCHANGED pending /\ Create
    <3>1. \A c \in Clients : Len(frames'[c]) \in {0, 1}
      <4>1. PICK d \in Clients :
              \/ frames' = [frames EXCEPT ![d] = <<Frame("serve", NONE)>>,
                                          ![MAIN] = <<Frame("insert", NONE)>>]
              \/ Goto(MAIN, "insert")
        BY <2>5 DEF Create
      <4>2. \A c \in Clients :
              frames'[c] = frames[c] \/ frames'[c] = <<Frame("serve", NONE)>>
        BY <1>1, <4>1 DEF Goto, FramesOK
      <4>3. \A c \in Clients : Len(frames[c]) \in {0, 1}
        BY DEF OneSignal
      <4>4. Len(<<Frame("serve", NONE)>>) = 1
        OBVIOUS
      <4> QED
        BY <4>2, <4>3, <4>4
    <3>2. Len(frames'[MAIN]) = 1
      BY <1>1, <2>5, CreateBase
    <3> QED
      BY <2>1, <2>5, <3>1, <3>2 DEF OneSignal
  <2> QED
    BY <1>4, <2>2, <2>3, <2>4, <2>5, MainSteps
<1>5. ASSUME NEW c \in Clients, Run(c)
      PROVE  OneSignal'
  BY <1>1, <1>5, ClientServes DEF OneSignal
<1>6. CASE UNCHANGED vars
  BY <1>6 DEF vars, signals, OneSignal
<1> QED
  BY <1>2, <1>3, <1>4, <1>5, <1>6 DEF Next, Threads

(* Main is at neither of the calls that take a node from the list. *)
Elsewhere == ~ At(MAIN, "remove") /\ ~ At(MAIN, "free")

(* A step that leaves the list and the nodes alone. *)
LEMMA QuietNodes ==
  ASSUME NodesOK, UNCHANGED <<head, freed, started>>, process' # "crashed",
         Base' = "insert" => Base = "insert" /\ freshNode' = freshNode,
         Alive' /\ Due(MAIN)' = {} => Elsewhere'
  PROVE  NodesOK'
  BY DEF NodesOK, Elsewhere

(* A step of another thread, or a signal for one. *)
LEMMA OtherNodes ==
  ASSUME NodesOK, Alive, UNCHANGED <<list, process>>,
         frames'[MAIN] = frames[MAIN], pending[MAIN] \subseteq pending'[MAIN]
  PROVE  NodesOK'
<1>1. UNCHANGED <<head, node, freshNode, freed, started>>
  BY DEF list
<1>2. Due(MAIN)' = {} => Due(MAIN) = {}
  BY DEF Due, Handling
<1>3. Base' = Base
  BY DEF Base
<1>4. /\ At(MAIN, "remove")' <=> At(MAIN, "remove")
      /\ At(MAIN, "free")' <=> At(MAIN, "free")
  BY DEF At, Top, Last
<1> QED
  BY <1>1, <1>2, <1>3, <1>4 DEF NodesOK, Alive

(* Main moves, and where it is then is known. *)
LEMMA MovedElsewhere ==
  ASSUME FramesOK, NEW label, Moved(MAIN, label),
         label \notin {"remove", "free"}
  PROVE  Elsewhere'
<1>1. MAIN \in Threads /\ frames[MAIN] # <<>>
  BY DEF FramesOK, Threads
<1> QED
  BY <1>1, MovedAt DEF Elsewhere

LEMMA NodesHandler ==
  ASSUME TypeInv, NodesOK, Alive, Handler(MAIN)
  PROVE  NodesOK'
<1> DEFINE Calls == {"check", "set", "syslog", "shutdown", "caught", "reraise"}
<1>1. FramesOK /\ DataOK /\ MAIN \in Threads
  BY DEF TypeInv, Threads
<1>2. /\ Calls \subseteq HandlerLabels \ CleanupLabels
      /\ Calls \union {"close_data"} \subseteq HandlerLabels \intersect Labels
      /\ (Calls \union {"close_data"}) \intersect {"remove", "free"} = {}
  BY DEF HandlerLabels, CleanupLabels, Labels
<1>3. UNCHANGED <<process, head, freshNode, freed, started>>
  BY DEF Handler, Check, Set, Syslog, Shutdown, Caught, Reraise, list
<1>4. process' # "crashed"
  BY <1>3 DEF NodesOK
<1>5. ASSUME NEW from \in Calls, At(MAIN, from), Raise(MAIN)
      PROVE  NodesOK'
  <2>1. Base' = Base /\ Due(MAIN)' # {}
    BY <1>1, <1>2, <1>3, <1>5, RaiseStep
  <2> QED
    BY <1>3, <1>4, <2>1, QuietNodes
<1>6. ASSUME NEW from \in Calls, NEW label \in Calls \union {"close_data"},
             At(MAIN, from), Goto(MAIN, label)
      PROVE  NodesOK'
  <2>1. MovesOn(MAIN, from, label) /\ Len(frames[MAIN]) # 1
    BY <1>1, <1>2, <1>3, <1>6, GotoStep, LabelDepth
  <2>2. Base' = Base /\ Moved(MAIN, label)
    BY <2>1 DEF MovesOn
  <2>3. Elsewhere'
    BY <1>1, <1>2, <2>2, MovedElsewhere
  <2> QED
    BY <1>3, <1>4, <2>2, <2>3, QuietNodes
<1> QED
  BY <1>5, <1>6 DEF Handler, Check, Set, Syslog, Shutdown, Caught, Reraise,
                    RaiseAgain

LEMMA NodesCleanup ==
  ASSUME TypeInv, NodesOK, Alive, Cleanup(MAIN), Due(MAIN) = {}
  PROVE  NodesOK'
<1>1. /\ FramesOK /\ DataOK /\ ListOK /\ MAIN \in Threads
      /\ frames[MAIN] # <<>>
  BY DEF TypeInv, FramesOK, Threads
<1>2. UNCHANGED <<freshNode, started>>
  BY DEF Cleanup, CloseDataFile, First, Unlink, Free, Nullify, Destroy,
         FreeResult, ForgetResult, list
<1>3. /\ head \in Seq(started) /\ Len(head) \in Nat
      /\ DOMAIN head = 1 .. Len(head)
      /\ started \subseteq Clients /\ freed \in [Clients -> Nat]
  BY <1>1, LenProperties DEF ListOK
<1>4. ASSUME NEW from \in CleanupLabels,
             NEW label \in CleanupLabels \union {End(MAIN)},
             At(MAIN, from), Goto(MAIN, label)
      PROVE  /\ Moved(MAIN, label)
             /\ Base' = "insert" => Base = "insert"
             /\ \A other : At(MAIN, other)' <=> label = other
  <2>1. MovesOn(MAIN, from, label)
        /\ (Base' = Base \/ Base' \in CleanupLabels \union {"exit"})
    BY <1>1, <1>2, <1>4, CleanupMove
  <2> QED
    BY <1>1, <2>1, MovedAt DEF MovesOn, CleanupLabels
<1>5. ASSUME NEW from \in CleanupLabels,
             NEW label \in CleanupLabels \union {End(MAIN)},
             At(MAIN, from), Goto(MAIN, label), label \notin {"remove", "free"},
             UNCHANGED <<process, head, freed>>
      PROVE  NodesOK'
  <2>1. process' # "crashed"
    BY <1>5 DEF NodesOK
  <2>2. Moved(MAIN, label) /\ (Base' = "insert" => Base = "insert")
    BY <1>4, <1>5
  <2> QED
    BY <1>1, <1>2, <1>5, <2>1, <2>2, MovedElsewhere, QuietNodes
<1>6. /\ End(MAIN) \notin {"remove", "free"}
      /\ {"close_data", "first", "remove", "free", "nullify", "destroy",
          "free_result", "forget_result"} = CleanupLabels
  BY DEF End, CleanupLabels
<1>12. CASE CloseDataFile(MAIN)
  BY <1>5, <1>6, <1>12 DEF CloseDataFile, list
<1>7. CASE First(MAIN)
  <2>1. UNCHANGED <<process, head, freed>> /\ At(MAIN, "first")
    BY <1>7 DEF First
  <2>2. CASE head = <<>> /\ Goto(MAIN, "destroy")
    BY <1>5, <1>6, <2>1, <2>2
  <2>3. CASE head # <<>> /\ node' = Head(head) /\ Goto(MAIN, "remove")
    <3>1. node' \in ToSet(head)
      <4>1. 1 \in DOMAIN head /\ Head(head) = head[1]
        BY <1>3, <2>3, EmptySeq
      <4> QED
        BY <2>3, <4>1 DEF ToSet
    <3>2. /\ Base' = "insert" => Base = "insert"
          /\ ~ At(MAIN, "free")'
      BY <1>4, <1>6, <2>1, <2>3
    <3> QED
      BY <1>2, <2>1, <3>1, <3>2 DEF NodesOK
  <2> QED
    BY <1>7, <2>2, <2>3 DEF First
<1>8. CASE Unlink(MAIN)
  <2>1. /\ At(MAIN, "remove") /\ node \in ToSet(head)
        /\ UNCHANGED <<node, freed>>
    BY <1>8 DEF Unlink, NodesOK
  <2>2. PICK i \in DOMAIN head : head[i] = node /\ head' = RemoveAt(head, i)
    BY <1>8, <2>1 DEF Unlink
  <2>3. Goto(MAIN, "free") /\ UNCHANGED process
    BY <1>8, <2>1 DEF Unlink
  <2>4. /\ head' \in Seq(started) /\ Len(head') = Len(head) - 1
        /\ DOMAIN head' = 1 .. Len(head) - 1
        /\ \A j \in 1 .. Len(head) - 1 :
             head'[j] = IF j < i THEN head[j] ELSE head[j + 1]
    BY <1>3, <2>2, Unlinked, LenProperties
(* Each node left comes from a place of its own, none from that of node. *)
  <2>5. ASSUME NEW j \in DOMAIN head'
        PROVE  \E k \in DOMAIN head :
                 /\ k # i /\ head'[j] = head[k]
                 /\ k = IF j < i THEN j ELSE j + 1
    <3>1. j \in DOMAIN head /\ j + 1 \in DOMAIN head
      BY <1>3, <2>4
    <3>2. CASE j < i
      BY <1>3, <2>4, <3>1, <3>2
    <3>3. CASE ~ (j < i)
      BY <1>3, <2>4, <3>1, <3>3
    <3> QED
      BY <3>2, <3>3
  <2>6. \A j, k \in DOMAIN head : head[j] = head[k] => j = k
    BY DEF NodesOK
  <2>7. ASSUME NEW j \in DOMAIN head', NEW k \in DOMAIN head',
               head'[j] = head'[k]
        PROVE  j = k
    <3>1. PICK a \in DOMAIN head : head'[j] = head[a]
                                   /\ a = IF j < i THEN j ELSE j + 1
      BY <2>5
    <3>2. PICK b \in DOMAIN head : head'[k] = head[b]
                                   /\ b = IF k < i THEN k ELSE k + 1
      BY <2>5
    <3>3. a = b
      BY <2>6, <2>7, <3>1, <3>2
    <3>4. j \in Nat /\ k \in Nat /\ i \in Nat
      <4>1. /\ i \in 1 .. Len(head) /\ j \in 1 .. Len(head) - 1
            /\ k \in 1 .. Len(head) - 1
        BY <1>3, <2>2, <2>4
      <4> QED
        BY <1>3, <4>1
    <3> QED
      BY <3>1, <3>2, <3>3, <3>4
  <2>8. ToSet(head') \subseteq ToSet(head) /\ node \notin ToSet(head')
    BY <2>2, <2>5, <2>6 DEF ToSet
  <2>9. node \in started /\ freed[node] = 0
    <3>1. node \in started
      BY <1>3, <2>2, ElementOfSeq
    <3> QED
      BY <1>3, <2>1, <3>1 DEF NodesOK
  <2>10. /\ Base' = "insert" => Base = "insert"
         /\ ~ At(MAIN, "remove")'
    BY <1>4, <1>6, <2>1, <2>3
  <2>11. Base = "insert" => node # freshNode
    BY <2>1 DEF NodesOK
  <2>12. process' # "crashed"
    BY <2>3 DEF NodesOK
  <2> QED
    BY <1>2, <2>1, <2>7, <2>8, <2>9, <2>10, <2>11, <2>12 DEF NodesOK
<1>9. CASE Free(MAIN)
  <2>1. /\ At(MAIN, "free") /\ Goto(MAIN, "nullify")
        /\ UNCHANGED <<process, head, node>>
    BY <1>9 DEF Free
  <2>2. /\ node \in started /\ node \notin ToSet(head) /\ freed[node] = 0
        /\ Base = "insert" => node # freshNode
    BY <2>1 DEF NodesOK
  <2>3. node \in Clients /\ node # NULL
    BY <1>3, <2>2, LifecycleAssumption
  <2>4. /\ freed'[node] = 1
        /\ \A c \in Clients : c # node => freed'[c] = freed[c]
    BY <1>3, <1>9, <2>2, <2>3 DEF Free
  <2>5. /\ Base' = "insert" => Base = "insert"
        /\ ~ At(MAIN, "remove")' /\ ~ At(MAIN, "free")'
    BY <1>4, <1>6, <2>1
  <2>6. ASSUME NEW c \in Clients
        PROVE  /\ freed'[c] <= 1
               /\ c \in ToSet(head) \/ c \notin started => freed'[c] = 0
    <3>1. CASE c = node
      BY <2>2, <2>4, <3>1
    <3>2. CASE c # node
      BY <2>4, <3>2 DEF NodesOK
    <3> QED
      BY <3>1, <3>2
  <2>7. Base' = "insert" => freshNode \notin ToSet(head) /\ freed'[freshNode] = 0
    <3> SUFFICES ASSUME Base' = "insert"
                 PROVE  freshNode \notin ToSet(head) /\ freed'[freshNode] = 0
      OBVIOUS
    <3>1. Base = "insert"
      BY <2>5
    <3>2. freshNode \in Clients /\ freshNode # node
      BY <1>1, <1>3, <2>2, <3>1 DEF ListOK
    <3> QED
      BY <2>4, <3>1, <3>2 DEF NodesOK
  <2>8. process' # "crashed"
    BY <2>1 DEF NodesOK
  <2> QED
    BY <1>2, <2>1, <2>5, <2>6, <2>7, <2>8 DEF NodesOK
<1>10. CASE Nullify(MAIN)
  BY <1>5, <1>6, <1>10 DEF Nullify
<1>11. CASE \/ Destroy(MAIN)
            \/ FreeResult(MAIN, "free_result", "forget_result", End(MAIN))
            \/ ForgetResult(MAIN, "forget_result", End(MAIN))
  BY <1>5, <1>6, <1>11 DEF Destroy, FreeResult, ForgetResult, list
<1> QED
  BY <1>7, <1>8, <1>9, <1>10, <1>11, <1>12 DEF Cleanup

LEMMA NodesMain ==
  ASSUME TypeInv, NodesOK, Alive, Main
  PROVE  NodesOK'
<1> DEFINE Calls == StartLabels \union ServingLabels
<1>1. /\ FramesOK /\ DataOK /\ ListOK /\ MAIN \in Threads
      /\ frames[MAIN] # <<>>
  BY DEF TypeInv, FramesOK, Threads
<1>2. Calls \intersect HandlerLabels = {}
      /\ (Calls \union {"close_data"}) \intersect {"remove", "free"} = {}
  BY DEF StartLabels, ServingLabels, HandlerLabels, CleanupLabels
<1>3. Calls \union {"close_data"} \subseteq BaseLabels(MAIN)
  BY DEF BaseLabels, CleanupLabels
<1>4. ASSUME NEW from \in Calls, NEW label \in Calls \union {"close_data"},
             At(MAIN, from), Goto(MAIN, label), UNCHANGED started
      PROVE  Base = from /\ Base' = label /\ Elsewhere'
  <2>1. MovesOn(MAIN, from, label) /\ Base = from /\ Base' = label
    BY <1>1, <1>2, <1>3, <1>4, MainMove
  <2>2. Moved(MAIN, label) /\ label \notin {"remove", "free"}
    BY <1>2, <2>1 DEF MovesOn
  <2> QED
    BY <1>1, <2>1, <2>2, MovedElsewhere
<1>5. ASSUME NEW from \in Calls,
             NEW label \in (Calls \union {"close_data"}) \ {"insert"},
             At(MAIN, from), Goto(MAIN, label), UNCHANGED <<process, list>>
      PROVE  NodesOK'
  <2>1. UNCHANGED <<head, freed, started>> /\ process' # "crashed"
    BY <1>5 DEF list, NodesOK
  <2>2. Base' # "insert" /\ Elsewhere'
    BY <1>4, <1>5, <2>1
  <2> QED
    BY <2>1, <2>2, QuietNodes
<1>6. CASE Install \/ Getaddrinfo \/ Socket \/ Bind \/ Daemon \/ Listen
  BY <1>5, <1>6 DEF Install, Getaddrinfo, Socket, Bind, Daemon, Listen, StartUp,
                    StartLabels, ServingLabels
<1>7. CASE Bound
  <2>1. {"bound", "forget_bound", "daemon", "listen"} \subseteq Calls
    BY DEF StartLabels, ServingLabels
  <2> QED
    BY <1>5, <1>7, <2>1 DEF Bound, FreeResult, ForgetResult
<1>8. CASE Loop \/ Accept \/ Malloc
  <2>1. {"loop", "accept", "malloc", "create"} \subseteq Calls
    BY DEF ServingLabels
  <2> QED
    BY <1>5, <1>8, <2>1 DEF Loop, Accept, Malloc
<1>9. CASE Create
  <2>1. /\ Base' = "insert" /\ Elsewhere'
        /\ UNCHANGED <<process, head, freed>>
    BY <1>1, <1>9, CreateBase DEF Create, Elsewhere
  <2>2. PICK c \in Clients \ started : freshNode' = c
                                       /\ started' = started \union {c}
    BY <1>9 DEF Create
  <2>3. ToSet(head) \subseteq started
    <3>1. head \in Seq(started)
      BY <1>1 DEF ListOK
    <3>2. \A i \in DOMAIN head : head[i] \in started
      BY <3>1, LenProperties, ElementOfSeq
    <3> QED
      BY <3>2 DEF ToSet
  <2>4. c \notin ToSet(head) /\ freed[c] = 0
    BY <2>2, <2>3 DEF NodesOK
  <2>5. process' # "crashed"
    BY <2>1 DEF NodesOK
  <2> QED
    BY <2>1, <2>2, <2>4, <2>5 DEF NodesOK, Elsewhere
<1>10. CASE Insert
  <2>1. /\ At(MAIN, "insert") /\ Goto(MAIN, "loop")
        /\ head' = <<freshNode>> \o head
        /\ UNCHANGED <<process, freed, started>>
    BY <1>10 DEF Insert
  <2>2. {"insert", "loop"} \subseteq Calls
    BY DEF ServingLabels
  <2>3. Base = "insert" /\ Base' = "loop" /\ Elsewhere'
    BY <1>4, <2>1, <2>2
  <2>4. /\ freshNode \in started /\ freshNode \notin ToSet(head)
        /\ freed[freshNode] = 0 /\ head \in Seq(started)
    BY <1>1, <2>3 DEF ListOK, NodesOK
  <2>5. /\ DOMAIN head = 1 .. Len(head) /\ Len(head) \in Nat
        /\ DOMAIN head' = 1 .. Len(head) + 1
        /\ head'[1] = freshNode
        /\ \A i \in 2 .. Len(head) + 1 : head'[i] = head[i - 1]
    <3>1. /\ <<freshNode>> \in Seq(started) /\ Len(<<freshNode>>) = 1
          /\ <<freshNode>>[1] = freshNode
      BY <2>4
    <3>2. Len(head) \in Nat /\ DOMAIN head = 1 .. Len(head)
      BY <2>4, LenProperties
    <3>3. /\ head' \in Seq(started) /\ Len(head') = 1 + Len(head)
          /\ \A i \in 1 .. 1 + Len(head) :
               head'[i] = IF i <= 1 THEN <<freshNode>>[i] ELSE head[i - 1]
      BY <2>1, <2>4, <3>1, ConcatProperties
    <3> QED
      BY <3>1, <3>2, <3>3, LenProperties
  <2>6. \A i \in DOMAIN head' : \/ i = 1 /\ head'[i] = freshNode
                                \/ i - 1 \in DOMAIN head /\ head'[i] = head[i - 1]
    BY <2>5
  <2>7. \A i \in DOMAIN head : head[i] \in ToSet(head)
    BY DEF ToSet
  <2>8. \A i, j \in DOMAIN head' : head'[i] = head'[j] => i = j
    <3> SUFFICES ASSUME NEW i \in DOMAIN head', NEW j \in DOMAIN head',
                        head'[i] = head'[j]
                 PROVE  i = j
      OBVIOUS
    <3>1. CASE i - 1 \in DOMAIN head /\ head'[i] = head[i - 1]
      <4>1. j - 1 \in DOMAIN head /\ head'[j] = head[j - 1]
        BY <2>4, <2>6, <2>7, <3>1
      <4>2. i - 1 = j - 1
        BY <3>1, <4>1 DEF NodesOK
      <4> QED
        BY <2>5, <4>2
    <3>2. CASE i = 1 /\ head'[i] = freshNode
      BY <2>4, <2>6, <2>7, <3>2
    <3> QED
      BY <2>6, <3>1, <3>2
  <2>9. ToSet(head') \subseteq ToSet(head) \union {freshNode}
    BY <2>6, <2>7 DEF ToSet
  <2>10. ASSUME NEW c \in Clients
         PROVE  /\ freed'[c] <= 1
                /\ c \in ToSet(head') \/ c \notin started' => freed'[c] = 0
    BY <2>1, <2>4, <2>9 DEF NodesOK
  <2>11. process' # "crashed"
    BY <2>1 DEF NodesOK
  <2> QED
    BY <2>3, <2>8, <2>10, <2>11 DEF NodesOK, Elsewhere
<1>11. CASE Exit
  <2>1. process' = "exited" /\ UNCHANGED <<frames, head, freed, started, freshNode>>
    BY <1>11 DEF Exit, list
  <2>2. Base' = Base /\ ~ Alive'
    BY <2>1 DEF Base, Alive
  <2> QED
    BY <2>1, <2>2, QuietNodes
<1> QED
  BY <1>6, <1>7, <1>8, <1>9, <1>10, <1>11 DEF Main

LEMMA NodesSignal ==
  ASSUME TypeInv, NodesOK, Alive,
         \/ \E sig \in Signals : Send(sig)
         \/ \E t \in Threads : DeliverTo(t)
  PROVE  NodesOK'
<1>1. FramesOK /\ MAIN \in Threads
  BY DEF TypeInv, Threads
<1>2. ASSUME NEW sig \in Signals, Send(sig)
      PROVE  NodesOK'
  <2>1. UNCHANGED <<list, process, frames>>
    BY <1>2 DEF Send
  <2>2. pending[MAIN] \subseteq pending'[MAIN]
    BY <1>1, <1>2, SendStep
  <2> QED
    BY <2>1, <2>2, OtherNodes
<1>3. ASSUME NEW t \in Threads, DeliverTo(t)
      PROVE  NodesOK'
  <2>1. UNCHANGED <<list, head, freed, started, freshNode>>
    BY <1>3, DeliverStep DEF list
  <2>2. CASE process' = "terminated" /\ UNCHANGED frames
    <3>1. Base' = Base /\ ~ Alive'
      BY <2>2 DEF Base, Alive
    <3> QED
      BY <2>1, <2>2, <3>1, QuietNodes
  <2>3. ASSUME UNCHANGED process, NEW sig \in pending[t], Pushed(t, sig)
        PROVE  NodesOK'
    <3>1. CASE t = MAIN
      <4> DEFINE n == Len(frames[MAIN])
      <4>1. /\ n \in Nat \ {0} /\ Len(frames'[MAIN]) = n + 1
            /\ frames'[MAIN][1] = frames[MAIN][1]
            /\ frames'[MAIN][n + 1].at = "check"
        <5>1. frames[MAIN] # <<>>
          BY <1>1 DEF FramesOK
        <5>2. n \in Nat \ {0}
          BY <1>1, <5>1, TopFrame
        <5>3. 1 \in 1 .. n
          BY <5>2
        <5> QED
          BY <2>3, <3>1, <5>2, <5>3 DEF Pushed, Frame
      <4>2. Base' = Base /\ Elsewhere'
        BY <4>1 DEF Base, Elsewhere, At, Top, Last
      <4>3. process' # "crashed"
        BY <2>3 DEF NodesOK
      <4> QED
        BY <2>1, <4>2, <4>3, QuietNodes
    <3>2. CASE t # MAIN
      BY <1>1, <1>3, <2>1, <2>3, <3>2, DeliverStep, OtherNodes DEF Pushed
    <3> QED
      BY <3>1, <3>2
  <2> QED
    BY <1>3, <2>2, <2>3, DeliverStep
<1> QED
  BY <1>2, <1>3

LEMMA NodesInit == Init => NodesInv
<1> SUFFICES ASSUME Init
             PROVE  NodesInv
  OBVIOUS
<1>1. TypeInv
  BY TypeInit
<1>2. MAIN \in Threads /\ frames[MAIN] = <<Frame("install", NONE)>>
      /\ \A c \in Clients : c \in Threads /\ frames[c] = <<>>
  BY LifecycleAssumption DEF Init, Threads
<1>3. Len(<<>>) = 0 /\ Len(<<Frame("install", NONE)>>) = 1
  OBVIOUS
<1>4. OneSignal
  BY <1>2, <1>3 DEF Init, OneSignal
<1>5. Base = "install" /\ ~ At(MAIN, "remove") /\ ~ At(MAIN, "free")
  BY <1>2 DEF Base, Frame, At, Top, Last
<1>6. NodesOK
  BY <1>5 DEF Init, NodesOK, ToSet
<1> QED
  BY <1>1, <1>4, <1>6 DEF NodesInv

LEMMA NodesNext ==
  ASSUME MaxSent <= 1
  PROVE  NodesInv /\ [Next]_vars => NodesInv'
<1> SUFFICES ASSUME NodesInv, [Next]_vars
             PROVE  NodesInv'
  OBVIOUS
<1>1. TypeInv /\ OneSignal /\ NodesOK
  BY DEF NodesInv
<1>2. TypeInv' /\ OneSignal'
  BY <1>1, TypeNext, OneSignalNext
<1>3. NodesOK'
  <2>1. CASE UNCHANGED vars
    <3>1. UNCHANGED <<process, frames, pending, head, node, freshNode, freed,
                      started>>
      BY <2>1 DEF vars, signals, list
    <3> QED
      BY <1>1, <3>1 DEF NodesOK, Base, Alive, Due, Handling, At, Top
  <2>2. CASE Next
    <3>1. Alive
      BY <2>2 DEF Next
    <3>2. ASSUME NEW t \in Threads, Run(t)
          PROVE  NodesOK'
      <4>1. CASE t = MAIN
        <5>1. MAIN \notin Clients /\ Due(MAIN) = {}
          BY <3>2, <4>1, LifecycleAssumption DEF Run
        <5> QED
          BY <1>1, <3>1, <3>2, <4>1, <5>1, NodesHandler, NodesCleanup, NodesMain
             DEF Run
      <4>2. CASE t \in Clients
        <5>1. /\ Serve(t) /\ UNCHANGED pending /\ MAIN \in Threads /\ t # MAIN
              /\ frames'[MAIN] = frames[MAIN]
          BY <1>1, <3>2, <4>2, ClientServes, LifecycleAssumption DEF Threads
        <5>2. UNCHANGED <<list, process>>
          BY <5>1 DEF Serve
        <5> QED
          BY <1>1, <3>1, <5>1, <5>2, OtherNodes
      <4> QED
        BY <4>1, <4>2 DEF Threads
    <3> QED
      BY <1>1, <2>2, <3>1, <3>2, NodesSignal DEF Next
  <2> QED
    BY <2>1, <2>2
<1> QED
  BY <1>2, <1>3 DEF NodesInv

(* When one signal comes, no node is freed twice and SLIST_REMOVE finds     *)
(* every node, however often the handler interrupts main's own clean-up:    *)
(* src/server/aesdsocket.c, cleanup_on_exit.                                *)
THEOREM NodesAreFreedOnce ==
  ASSUME MaxSent <= 1
  PROVE  Spec => []NodesFreedOnce
<1>1. NodesInv => NodesFreedOnce
  BY DEF NodesInv, NodesOK, NodesFreedOnce
<1> QED
  BY <1>1, NodesInit, NodesNext, PTL DEF Spec
=============================================================================
