-------------------------- MODULE ServerLifecycle --------------------------
(***************************************************************************)
(* The life of the server of server/aesdsocket.c around its accept loop:    *)
(* start-up and run_daemon, handle_termination for the signals, and         *)
(* cleanup_on_exit, called by handlers and by main.                         *)
(*                                                                         *)
(* A thread is a stack of frames: the code it was started with, and above   *)
(* it the handlers that interrupted it.  Signals follow Linux: a signal to  *)
(* the process goes to the main thread if that can take it, a handler runs  *)
(* with its own signal blocked, and raise makes the signal pending for the  *)
(* calling thread.  What the threads do with their clients is the business  *)
(* of SocketServer; here they use their node, or are inside the library.    *)
(***************************************************************************)
EXTENDS Integers, FiniteSets, SequencesExt

CONSTANTS
  MAIN, Clients,  \* the threads: main, and one for each client
  Signals,        \* SIGINT and SIGTERM
  NONE,           \* no signal: the frame a thread was started with
  NOBODY,         \* the owner of a free lock
  NULL,
  Faults,         \* among "STARTUP", "ACCEPT", "MALLOC", "CREATE"
  MaxSent         \* bound: the number of signals sent to the process

ASSUME LifecycleAssumption ==
  /\ MAIN \notin Clients /\ NOBODY \notin Clients \union {MAIN}
  /\ NONE \notin Signals /\ NULL \notin Clients /\ MaxSent \in Nat

VARIABLES
  process,                  \* "alive", or how it ended
  frames,                   \* the stack of each thread, innermost last
  pending,                  \* the signals pending for each thread
  disposition,              \* what a signal does: "handler" or "default"
  sent,                     \* how many signals have been sent
  fatal_error_in_progress,
  signal_caught,            \* s_flags.signal_caught
  head, node,               \* the list of nodes, and the global cursor
  freshNode,                \* the node main works on
  freed,                    \* how often the node of a client was freed
  started,                  \* the clients with a node
  result, released,         \* getaddrinfo's list, and how often it was freed
  socket,                   \* sock_fd: "none", "open", "listening" or "shut"
  streams,                  \* what descriptors 0, 1, 2 are: "terminal", "null"
                            \* or no longer a standard stream, "closed"
  dataFileDescriptor,       \* the global number, from the start on
  mutex,                    \* the threads' mutex: "ready" or "destroyed"
  library                   \* who is inside malloc, free or syslog

signals == <<pending, disposition, sent>>
flags   == <<fatal_error_in_progress, signal_caught>>
list    == <<head, node, freshNode, freed, started>>
address == <<result, released>>
descriptors == <<streams, dataFileDescriptor>>
outside == <<socket, descriptors, mutex>>
vars    == <<process, frames, signals, flags, list, address, outside, library>>

Threads == Clients \union {MAIN}

BEYOND == 3  \* for every number that is none of 0, 1, 2

-----------------------------------------------------------------------------
(* Frames *)

Frame(at, sig) == [at |-> at, sig |-> sig]

Top(t) == Last(frames[t])

At(t, label) == frames[t] # <<>> /\ Top(t).at = label

(* The innermost frame of t goes on at a label, or returns. *)
Goto(t, label) ==
  frames' = [frames EXCEPT ![t] = Append(Front(@), Frame(label, Last(@).sig))]

Return(t) == frames' = [frames EXCEPT ![t] = Front(@)]

Handling(t) == {frames[t][i].sig : i \in DOMAIN frames[t]} \ {NONE}

Due(t) == pending[t] \ Handling(t)

(* kill: main takes the signal unless it is busy with another, or has this  *)
(* one blocked and another thread has not.                                  *)
Unblocked(sig) == {t \in Threads : frames[t] # <<>> /\ sig \notin Handling(t)}

Takers(sig) ==
  CASE Unblocked(sig) = {} -> {MAIN}
    [] MAIN \in Unblocked(sig) /\ pending[MAIN] = {} -> {MAIN}
    [] OTHER -> Unblocked(sig)

Send(sig) ==
  /\ sent < MaxSent
  /\ sent' = sent + 1
  /\ \E t \in Takers(sig) : pending' = [pending EXCEPT ![t] = @ \union {sig}]
  /\ UNCHANGED <<process, frames, disposition, flags, list, address, outside,
                 library>>

(* A pending signal interrupts the thread, or ends the process. *)
Deliver(t) ==
  \E sig \in Due(t) :
    /\ pending' = [pending EXCEPT ![t] = @ \ {sig}]
    /\ \/ /\ disposition[sig] = "handler"
          /\ frames' = [frames EXCEPT ![t] = Append(@, Frame("check", sig))]
          /\ UNCHANGED process
       \/ /\ disposition[sig] = "default"
          /\ process' = "terminated"
          /\ UNCHANGED frames
    /\ UNCHANGED <<disposition, sent, flags, list, address, outside, library>>

-----------------------------------------------------------------------------
(* handle_termination *)

Raise(t) ==
  /\ pending' = [pending EXCEPT ![t] = @ \union {Top(t).sig}]
  /\ Return(t)

Check(t) ==
  /\ At(t, "check")
  /\ \/ /\ fatal_error_in_progress /\ Raise(t)
        /\ UNCHANGED <<disposition, sent>>
     \/ ~ fatal_error_in_progress /\ Goto(t, "set") /\ UNCHANGED signals
  /\ UNCHANGED <<process, flags, list, address, outside, library>>

Set(t) ==
  /\ At(t, "set")
  /\ fatal_error_in_progress' = TRUE
  /\ Goto(t, "syslog")
  /\ UNCHANGED <<process, signals, signal_caught, list, address, outside,
                 library>>

Syslog(t) ==
  /\ At(t, "syslog") /\ library = NOBODY
  /\ Goto(t, "shutdown")
  /\ UNCHANGED <<process, signals, flags, list, address, outside, library>>

Shutdown(t) ==
  /\ At(t, "shutdown")
  /\ socket' = IF socket = "listening" THEN "shut" ELSE socket
  /\ Goto(t, "caught")
  /\ UNCHANGED <<process, signals, flags, list, address, descriptors,
                 mutex, library>>

Caught(t) ==
  /\ At(t, "caught")
  /\ signal_caught' = TRUE
  /\ Goto(t, "close_data")
  /\ UNCHANGED <<process, signals, fatal_error_in_progress, list, address,
                 outside, library>>

(* signal(sig, SIG_DFL).  Faulty variant: the handler stays installed. *)
DefaultForgotten(sig) == disposition

Default(sig) == [disposition EXCEPT ![sig] = "default"]

(* raise(sig).  Faulty variant: the handler just returns. *)
RaiseForgotten(t) == Return(t) /\ UNCHANGED pending

RaiseAgain(t) == Raise(t)

Reraise(t) ==
  /\ At(t, "reraise")
  /\ disposition' = Default(Top(t).sig)
  /\ RaiseAgain(t)
  /\ UNCHANGED <<process, sent, flags, list, address, outside, library>>

Handler(t) ==
  Check(t) \/ Set(t) \/ Syslog(t) \/ Shutdown(t) \/ Caught(t) \/ Reraise(t)

-----------------------------------------------------------------------------
(* cleanup_on_exit, called by handlers and by main.  It closes neither      *)
(* socket, because no code sets the flags that say they are open.           *)

(* syslog, and close(dataFileDescriptor): that is descriptor 0 as long as   *)
(* no client has opened the data file.                                      *)
CloseDataFile(t) ==
  /\ At(t, "close_data") /\ library = NOBODY
  /\ streams' = [d \in 0 .. 2 |->
       IF d = dataFileDescriptor THEN "closed" ELSE streams[d]]
  /\ Goto(t, "first")
  /\ UNCHANGED <<process, signals, flags, list, address, socket,
                 dataFileDescriptor, mutex, library>>

First(t) ==
  /\ At(t, "first")
  /\ \/ head # <<>> /\ node' = Head(head) /\ Goto(t, "remove")
     \/ head = <<>> /\ Goto(t, "destroy") /\ UNCHANGED node
  /\ UNCHANGED <<process, signals, flags, head, freshNode, freed, started,
                 address, outside, library>>

(* SLIST_REMOVE searches the list for the node, which is in it once at the  *)
(* most, and dereferences the NULL at its end.                              *)
Unlink(t) ==
  /\ At(t, "remove")
  /\ \/ /\ \E i \in DOMAIN head :
             head[i] = node /\ head' = RemoveAt(head, i)
        /\ Goto(t, "free")
        /\ UNCHANGED process
     \/ /\ node \notin ToSet(head)
        /\ process' = "crashed"
        /\ UNCHANGED <<head, frames>>
  /\ UNCHANGED <<signals, flags, node, freshNode, freed, started, address,
                 outside, library>>

Free(t) ==
  /\ At(t, "free") /\ library = NOBODY
  /\ freed' = IF node = NULL THEN freed ELSE [freed EXCEPT ![node] = @ + 1]
  /\ Goto(t, "nullify")
  /\ UNCHANGED <<process, signals, flags, head, node, freshNode, started,
                 address, outside, library>>

Nullify(t) ==
  /\ At(t, "nullify")
  /\ node' = NULL
  /\ Goto(t, "first")
  /\ UNCHANGED <<process, signals, flags, head, freshNode, freed, started,
                 address, outside, library>>

Destroy(t) ==
  /\ At(t, "destroy")
  /\ mutex' = IF signal_caught THEN mutex ELSE "destroyed"
  /\ Goto(t, "free_result")
  /\ UNCHANGED <<process, signals, flags, list, address, descriptors,
                 socket, library>>

End(t) == IF Top(t).sig = NONE THEN "exit" ELSE "reraise"

(* free_and_nullify_result, which main also calls.  Faulty variant: it      *)
(* frees only.                                                              *)
FreeResult(t, from, forget, next) ==
  /\ At(t, from)
  /\ \/ result = NULL /\ Goto(t, next) /\ UNCHANGED released
     \/ /\ result # NULL /\ library = NOBODY
        /\ released' = released + 1
        /\ Goto(t, forget)
  /\ UNCHANGED <<process, signals, flags, list, result, outside, library>>

NullifiedNot == result

Nullified == NULL

ForgetResult(t, from, next) ==
  /\ At(t, from)
  /\ result' = Nullified
  /\ Goto(t, next)
  /\ UNCHANGED <<process, signals, flags, list, released, outside, library>>

Cleanup(t) ==
  \/ CloseDataFile(t) \/ First(t) \/ Unlink(t) \/ Free(t) \/ Nullify(t) \/ Destroy(t)
  \/ FreeResult(t, "free_result", "forget_result", End(t))
  \/ ForgetResult(t, "forget_result", End(t))

-----------------------------------------------------------------------------
(* main_socket_application, up to listen.  A call that fails leads to the   *)
(* clean-up.                                                                *)

StartUp(from, next) ==
  /\ At(MAIN, from)
  /\ Goto(MAIN, next) \/ ("STARTUP" \in Faults /\ Goto(MAIN, "close_data"))

Install ==
  /\ At(MAIN, "install")
  /\ disposition' = [sig \in Signals |-> "handler"]
  /\ Goto(MAIN, "getaddrinfo")
  /\ UNCHANGED <<process, pending, sent, flags, list, address, outside,
                 library>>

Getaddrinfo ==
  /\ StartUp("getaddrinfo", "socket")
  /\ result' = IF At(MAIN, "socket")' THEN "list" ELSE result
  /\ UNCHANGED <<process, signals, flags, list, released, outside, library>>

Socket ==
  /\ StartUp("socket", "bind")
  /\ socket' = IF At(MAIN, "bind")' THEN "open" ELSE socket
  /\ UNCHANGED <<process, signals, flags, list, address, descriptors,
                 mutex, library>>

(* setsockopt, bind *)
Bind ==
  /\ StartUp("bind", "bound")
  /\ UNCHANGED <<process, signals, flags, list, address, outside, library>>

(* Without -d the daemon is left out. *)
Bound ==
  \E next \in {"daemon", "listen"} :
       \/ FreeResult(MAIN, "bound", "forget_bound", next)
       \/ ForgetResult(MAIN, "forget_bound", next)

(* run_daemon, in the child: 0, 1 and 2 are closed, so /dev/null is opened  *)
(* as 0, copied to 1 and 2, and the descriptor opened, 0, is closed.        *)
(* Faulty variant: standard error is forgotten.                             *)
RedirectedNotErr ==
  [streams EXCEPT ![0] = "closed", ![1] = "null"]

Redirected == [d \in 0 .. 2 |-> IF d = 0 THEN "closed" ELSE "null"]

(* Its failure leaves the descriptors alone, or the first n redirected. *)
Closed(n) == [d \in 0 .. 2 |-> IF d < n THEN "null" ELSE "closed"]

Daemon ==
  /\ StartUp("daemon", "listen")
  /\ streams' \in
       IF At(MAIN, "listen")' THEN {Redirected}
       ELSE {streams} \union {Closed(n) : n \in 0 .. 2}
  /\ UNCHANGED <<process, signals, flags, list, address, socket,
                 dataFileDescriptor, mutex, library>>

Listen ==
  /\ StartUp("listen", "loop")
  /\ socket' = IF At(MAIN, "loop")' THEN "listening" ELSE socket
  /\ UNCHANGED <<process, signals, flags, list, address, descriptors,
                 mutex, library>>

-----------------------------------------------------------------------------
(* main, from its accept loop to its return *)

Loop ==
  /\ At(MAIN, "loop")
  /\ Goto(MAIN, IF fatal_error_in_progress THEN "close_data" ELSE "accept")
  /\ UNCHANGED <<process, signals, flags, list, address, outside, library>>

(* accept returns a connection, or fails: then main cleans up, whether it   *)
(* takes the failure for an error or for the end.                           *)
Accept ==
  /\ At(MAIN, "accept")
  /\ \/ /\ socket = "listening" /\ library = NOBODY /\ started # Clients
        /\ library' = MAIN
        /\ Goto(MAIN, "malloc")
     \/ /\ socket = "shut" \/ "ACCEPT" \in Faults
        /\ Goto(MAIN, "close_data")
        /\ UNCHANGED library
  /\ UNCHANGED <<process, signals, flags, list, address, outside>>

Malloc ==
  /\ At(MAIN, "malloc")
  /\ library' = NOBODY
  /\ Goto(MAIN, "create") \/ ("MALLOC" \in Faults /\ Goto(MAIN, "close_data"))
  /\ UNCHANGED <<process, signals, flags, list, address, outside>>

(* pthread_create: the thread runs before its node is in the list.  When it *)
(* fails, with an error number that is not ERROR, main goes on as well.     *)
Create ==
  /\ At(MAIN, "create")
  /\ \E c \in Clients \ started :
       /\ \/ frames' = [frames EXCEPT ![c] = <<Frame("serve", NONE)>>,
                                      ![MAIN] = <<Frame("insert", NONE)>>]
          \/ "CREATE" \in Faults /\ Goto(MAIN, "insert")
       /\ freshNode' = c
       /\ started' = started \union {c}
  /\ UNCHANGED <<process, signals, flags, head, node, freed, address,
                 outside, library>>

(* SLIST_INSERT_HEAD.  Faulty variant: freshNode is set to NULL before.     *)
InsertSwapped ==
  /\ At(MAIN, "insert")
  /\ freshNode' = NULL
  /\ head' = <<freshNode'>> \o head
  /\ Goto(MAIN, "loop")
  /\ UNCHANGED <<process, signals, flags, node, freed, started, address,
                 outside, library>>

Insert ==
  /\ At(MAIN, "insert")
  /\ head' = <<freshNode>> \o head
  /\ freshNode' = NULL
  /\ Goto(MAIN, "loop")
  /\ UNCHANGED <<process, signals, flags, node, freed, started, address,
                 outside, library>>

Exit ==
  /\ At(MAIN, "exit")
  /\ process' = "exited"
  /\ UNCHANGED <<frames, signals, flags, list, address, outside, library>>

Main ==
  \/ Install \/ Getaddrinfo \/ Socket \/ Bind \/ Bound \/ Daemon \/ Listen
  \/ Loop \/ Accept \/ Malloc \/ Create \/ Insert \/ Exit

-----------------------------------------------------------------------------
(* client_data_handler: it works on its node, is inside the library at      *)
(* times, opens the data file, and ends.  open may take a number whose      *)
(* standard stream is gone; that of a failed open, -1, is beyond them too.  *)

Serve(c) ==
  /\ \/ At(c, "serve") /\ library = NOBODY
        /\ library' = c /\ Goto(c, "logging")
        /\ UNCHANGED dataFileDescriptor
     \/ At(c, "logging") /\ library' = NOBODY /\ Goto(c, "open")
        /\ UNCHANGED dataFileDescriptor
     \/ At(c, "open") /\ Return(c) /\ UNCHANGED library
        /\ dataFileDescriptor' \in
             {BEYOND} \union {d \in 0 .. 2 : streams[d] = "closed"}
  /\ UNCHANGED <<process, signals, flags, list, address, socket, streams,
                 mutex>>

-----------------------------------------------------------------------------

(* A thread runs its innermost frame unless a signal interrupts it. *)
Run(t) ==
  /\ frames[t] # <<>> /\ Due(t) = {}
  /\ \/ Handler(t) \/ Cleanup(t)
     \/ t = MAIN /\ Main
     \/ t \in Clients /\ Serve(t)

DeliverTo(t) == frames[t] # <<>> /\ Deliver(t)

Init ==
  /\ process = "alive"
  /\ frames = [t \in Threads |->
                  IF t = MAIN THEN <<Frame("install", NONE)>> ELSE <<>>]
  /\ pending = [t \in Threads |-> {}]
  /\ disposition = [sig \in Signals |-> "default"] /\ sent = 0
  /\ fatal_error_in_progress = FALSE /\ signal_caught = FALSE
  /\ result = NULL /\ released = 0 /\ socket = "none"
  /\ streams = [d \in 0 .. 2 |-> "terminal"] /\ dataFileDescriptor = 0
  /\ head = <<>> /\ node = NULL /\ freshNode = NULL
  /\ freed = [c \in Clients |-> 0] /\ started = {}
  /\ mutex = "ready" /\ library = NOBODY

Alive == process = "alive"

Next ==
  /\ Alive
  /\ \/ \E sig \in Signals : Send(sig)
     \/ \E t \in Threads : DeliverTo(t) \/ Run(t)

Spec == Init /\ [][Next]_vars

(* In accept main waits for a client, or for the shutdown of the socket. *)
AwaitsClient(t) == t = MAIN /\ At(t, "accept") /\ socket # "shut"

(* Threads are scheduled, signals delivered, and who waits for a lock of    *)
(* the library gets it when it is released over and over.  No signal has to *)
(* be sent, and no client to come.                                          *)
Fairness ==
  \A t \in Threads :
    /\ WF_vars(Alive /\ DeliverTo(t))
    /\ WF_vars(Alive /\ ~ AwaitsClient(t) /\ Run(t))
    /\ SF_vars(Alive /\ Due(t) = {} /\ (Syslog(t) \/ Cleanup(t)))

FairSpec == Spec /\ Fairness

-----------------------------------------------------------------------------
(* Properties *)

Labels ==
  {"install", "getaddrinfo", "socket", "bind", "bound", "forget_bound",
   "daemon", "listen", "loop", "accept", "malloc", "create", "insert", "exit",
   "serve", "logging", "open", "check", "set", "syslog", "shutdown", "caught",
   "reraise", "close_data", "first", "remove", "free", "nullify", "destroy", "free_result",
   "forget_result"}

TypeOK ==
  /\ process \in {"alive", "terminated", "crashed", "exited"}
  /\ \A t \in Threads : \A i \in DOMAIN frames[t] :
       /\ frames[t][i].at \in Labels
       /\ frames[t][i].sig \in Signals <=> i > 1
  /\ pending \in [Threads -> SUBSET Signals]
  /\ disposition \in [Signals -> {"handler", "default"}]
  /\ ToSet(head) \subseteq started /\ started \subseteq Clients
  /\ node \in Clients \union {NULL} /\ freshNode \in Clients \union {NULL}
  /\ library \in Threads \union {NOBODY}
  /\ result \in {NULL, "list"} /\ released \in Nat
  /\ streams \in [0 .. 2 -> {"terminal", "null", "closed"}]
  /\ dataFileDescriptor \in 0 .. BEYOND

(* No node is freed twice and the list stays whole, though the handler may  *)
(* interrupt main anywhere in its own clean-up: the code interrupted never  *)
(* goes on.                                                                 *)
NodesFreedOnce ==
  process # "crashed" /\ \A c \in Clients : freed[c] <= 1

(* The list getaddrinfo allocated is freed on every way out, and only once, *)
(* unless a signal comes between freeing it and setting result to NULL.     *)
AddressListFreedOnce ==
  /\ released > 1 => /\ signal_caught
                     /\ frames[MAIN][1].at \in {"forget_bound", "forget_result"}
  /\ process = "exited" => result = NULL

(* Output and errors leave the terminal together or not at all, though the  *)
(* clean-up may close descriptor 0, whatever it is at the time.  A server   *)
(* that accepts clients writes to the terminal, or as a daemon that has     *)
(* left it altogether to /dev/null.                                         *)
DaemonDetached ==
  /\ streams[1] = "terminal" <=> streams[2] = "terminal"
  /\ At(MAIN, "accept") =>
       \/ streams[1] = "terminal"
       \/ streams[1] = "null" /\ streams[2] = "null" /\ streams[0] # "terminal"

(* A handler waits for a lock that the code it interrupted holds. *)
SelfDeadlock ==
  /\ library # NOBODY
  /\ \E i \in DOMAIN frames[library] : frames[library][i].sig # NONE

(* The handlers ensure "a graceful shutdown" (aesdsocket.c): once a signal  *)
(* was sent the process ends, unless it interrupted malloc, free or syslog. *)
SignalEndsProcess == (sent > 0) ~> (~ Alive \/ SelfDeadlock)
=============================================================================
