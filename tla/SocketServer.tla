---------------------------- MODULE SocketServer ----------------------------
(***************************************************************************)
(* The server of server/aesdsocket.c, built as it is there with             *)
(* USE_AESD_CHAR_DEVICE: main accepts connections and starts a thread for   *)
(* each; a thread receives until it saw a newline, storing what it received *)
(* in /dev/aesdchar, and sends the device's content back.                   *)
(*                                                                         *)
(* Every system call is a step.  The process has one table of descriptors   *)
(* and, which is the heart of the matter, ONE variable dataFileDescriptor   *)
(* that every thread assigns and uses.  A step that unlocks the mutex does  *)
(* so together with the read or write it protects: nobody could tell the    *)
(* two apart.  Start-up and the termination signals are not in this module. *)
(***************************************************************************)
EXTENDS DriverOps, SequencesExt

CONSTANTS
  Clients,      \* the connections; each has one thread
  Requests,     \* what a client may send, as the chunks recv returns
  Byte,         \* the byte values
  Held,         \* the contents the device may have when the server starts
  FDs,          \* the descriptors free once the server listens
  NOBODY,       \* the owner of an unlocked mutex
  NoSeek,       \* the chunk does not begin with AESDCHAR_IOCSEEKTO:
  GARBLED,      \* it does, but sscanf leaves the struct uninitialised
  SeekValues,   \* the <<write_cmd, write_cmd_offset>> such a struct may hold
  MaxActive,    \* bound: the connections under way at one time
  Faults        \* among "OPEN", "NOMEM" (of a write to the device), "MALLOC",
                \* "CREATE", "RESET", "EOF"

ASSUME ServerAssumption ==
  /\ FDs \subseteq Nat /\ NOBODY \notin Clients /\ MaxActive \in Nat
  /\ IsFiniteSet(Clients)
  /\ SeekValues \subseteq Nat \X Nat
  /\ Requests \subseteq Seq([seek : {NoSeek, GARBLED} \union (Nat \X Nat),
                            data : Seq(Byte)])
  /\ NoSeek \notin Nat \X Nat /\ GARBLED \notin Nat \X Nat /\ NoSeek # GARBLED

(* A new device, or what commands written before left in it.                *)
ASSUME HeldAssumption ==
  \A b \in Held :
    /\ b \in Buffers([buffptr : {NULL} \union Seq(Byte), size : Nat])
    /\ WellShaped(b)
    /\ \A i \in Slots : b.full \/ i < b.in_offs =>
         /\ b.entry[i].buffptr \in Seq(Byte)
         /\ b.entry[i].size = Len(b.entry[i].buffptr)

VARIABLES
  buffer, partial,      \* the device: its commands and its unterminated tail
  fds,                  \* the process's descriptors
  dataFileDescriptor,   \* the global of that name
  lock,                 \* the mutex: its owner, or NOBODY
  backlog,              \* connections not yet accepted
  main,                 \* where the main thread is
  head,                 \* the list of nodes
  isThreadComplete,     \* the flag in each node
  joins,                \* how often each thread was joined
  pc,                   \* where each client thread is
  clientSocketFd,       \* its socket
  receive_buffer,       \* the chunk in its buffer,
  bytes_received,       \* and the bytes of it that the last recv returned
  send_buffer,          \* what it read from the device
  inbox, reply,         \* per connection: sent by the client, sent to it
  received              \* history: the bytes held, then all received to be stored

device  == <<buffer, partial>>
files   == <<fds, dataFileDescriptor>>
accept  == <<backlog, main, head, joins>>
buffers == <<receive_buffer, bytes_received, send_buffer>>
net     == <<inbox, reply>>
vars    == <<device, files, lock, accept, isThreadComplete, pc,
             clientSocketFd, buffers, net, received>>

ERROR == -1

-----------------------------------------------------------------------------
(* Descriptors *)

NoFile == [type |-> "none"]

Socket(c) == [type |-> "socket", conn |-> c]

DataFile(writable) == [type |-> "device", pos |-> 0, writable |-> writable]

At(d) == IF d \in FDs THEN fds[d] ELSE NoFile

Unused == {d \in FDs : fds[d] = NoFile}

LowestUnused == CHOOSE d \in Unused : \A e \in Unused : d <= e

Closed(d) == [e \in FDs |-> IF e = d THEN NoFile ELSE fds[e]]

Goto(c, label) == pc' = [pc EXCEPT ![c] = label]

(* open(DATA_FILE, ...) with its result assigned to dataFileDescriptor. *)
OpenDataFile(c, label, writable, next, onError) ==
  /\ pc[c] = label
  /\ \/ /\ Unused # {}
        /\ fds' = [fds EXCEPT ![LowestUnused] = DataFile(writable)]
        /\ dataFileDescriptor' = LowestUnused
        /\ Goto(c, next)
     \/ /\ Unused = {} \/ "OPEN" \in Faults
        /\ dataFileDescriptor' = ERROR
        /\ Goto(c, onError)
        /\ UNCHANGED fds
  /\ UNCHANGED <<device, lock, accept, isThreadComplete, clientSocketFd,
                 buffers, net, received>>

(* pthread_mutex_lock *)
MutexLock(c, label, next) ==
  /\ pc[c] = label
  /\ lock = NOBODY
  /\ lock' = c
  /\ Goto(c, next)
  /\ UNCHANGED <<device, files, accept, isThreadComplete, clientSocketFd,
                 buffers, net, received>>

(* return NULL, wherever an error makes the thread give up: no descriptor   *)
(* is closed, no mutex unlocked, the flag is not set.                       *)
GiveUp(c) ==
  /\ Goto(c, "failed")
  /\ UNCHANGED <<device, files, lock, accept, isThreadComplete,
                 clientSocketFd, buffers, net, received>>

-----------------------------------------------------------------------------
(* client_data_handler: receiving *)

Received(c) == SubSeq(receive_buffer[c].data, 1, bytes_received[c])

(* The strncmp on receive_buffer; a recv of no bytes leaves it as it was.   *)
Branch(chunk) == IF chunk.seek = NoSeek THEN "open_write" ELSE "open_seek"

Stored(chunk) == IF chunk.seek = NoSeek THEN chunk.data ELSE <<>>

Recv(c) ==
  /\ pc[c] = "recv"
  /\ LET f == At(clientSocketFd[c])
     IN  \/ /\ f.type # "socket" \/ "RESET" \in Faults
            /\ GiveUp(c)
         \/ /\ f.type = "socket" /\ inbox[f.conn] # <<>>
            /\ LET chunk == Head(inbox[f.conn])
               IN  /\ receive_buffer' = [receive_buffer EXCEPT ![c] = chunk]
                   /\ bytes_received' =
                        [bytes_received EXCEPT ![c] = Len(chunk.data)]
                   /\ received' = received \o Stored(chunk)
                   /\ Goto(c, Branch(chunk))
            /\ inbox' = [inbox EXCEPT ![f.conn] = Tail(@)]
            /\ UNCHANGED <<device, files, lock, accept, isThreadComplete,
                           clientSocketFd, send_buffer, reply>>
         \/ /\ f.type = "socket" /\ inbox[f.conn] = <<>> /\ "EOF" \in Faults
            /\ bytes_received' = [bytes_received EXCEPT ![c] = 0]
            /\ Goto(c, Branch(receive_buffer[c]))
            /\ UNCHANGED <<device, files, lock, accept, isThreadComplete,
                           clientSocketFd, receive_buffer, send_buffer, net,
                           received>>

(* The loop goes on until the chunk just handled contained a newline; a     *)
(* seek keeps its descriptor for the reading.  Faulty variant: it does not. *)
AfterChunkReopens(c) ==
  IF NewlineFound(Received(c)) THEN "open_read" ELSE "recv"

AfterChunk(c) ==
  IF ~ NewlineFound(Received(c)) THEN "recv"
  ELSE IF receive_buffer[c].seek = NoSeek THEN "open_read" ELSE "lock_read"

SeekTargets(seek) == IF seek = GARBLED THEN SeekValues ELSE {seek}

(* ioctl(dataFileDescriptor, AESDCHAR_IOCSEEKTO, ...); a failure is logged. *)
Ioctl(c) ==
  /\ pc[c] = "ioctl"
  /\ \E to \in SeekTargets(receive_buffer[c].seek) :
       LET offset == AdjustedOffset(buffer, to[1], to[2])
       IN  fds' = IF At(dataFileDescriptor).type = "device" /\ offset >= 0
                  THEN [fds EXCEPT ![dataFileDescriptor].pos = offset]
                  ELSE fds
  /\ Goto(c, AfterChunk(c))
  /\ UNCHANGED <<device, dataFileDescriptor, lock, accept, isThreadComplete,
                 clientSocketFd, buffers, net, received>>

(* What the device holds: its commands, oldest first, and their bytes.       *)
Commands == [i \in 1 .. Count(buffer) |-> Contents(buffer)[i].buffptr]

Content == FlattenSeq(Commands)

(* The device's part of a write: the bytes up to a newline are stored and   *)
(* counted; the server does not look at the count.  Faulty variants: a      *)
(* command goes without the tail that was waiting for its newline; the tail *)
(* is kept when its command is complete.                                    *)
DeviceWriteDropsTail(data) ==
  LET n == AppendIndex(data)
  IN  IF NewlineFound(data)
      THEN /\ buffer' = AddEntry(buffer,
                [buffptr |-> SubSeq(data, 1, n), size |-> n])
           /\ partial' = <<>>
      ELSE partial' = partial \o data /\ UNCHANGED buffer

DeviceWriteKeepsTail(data) ==
  LET line == partial \o SubSeq(data, 1, AppendIndex(data))
  IN  /\ partial' = line
      /\ IF NewlineFound(data)
         THEN buffer' = AddEntry(buffer, [buffptr |-> line, size |-> Len(line)])
         ELSE UNCHANGED buffer

DeviceWrite(data) ==
  LET n    == AppendIndex(data)
      line == partial \o SubSeq(data, 1, n)
  IN  IF NewlineFound(data)
      THEN /\ buffer' = AddEntry(buffer, [buffptr |-> line, size |-> Len(line)])
           /\ partial' = <<>>
      ELSE partial' = line /\ UNCHANGED buffer

(* write(dataFileDescriptor, ...): to the device, or to whatever the        *)
(* descriptor means by now.  A thread whose write fails returns with the    *)
(* mutex locked, so nobody sees what is left of the device's unterminated   *)
(* tail when there was no memory: CharDriver shows that.                    *)
Write(c) ==
  /\ pc[c] = "write"
  /\ LET f    == At(dataFileDescriptor)
         data == Received(c)
     IN  \/ /\ f.type = "device" /\ f.writable
            /\ DeviceWrite(data)
            /\ fds' = [fds EXCEPT ![dataFileDescriptor].pos =
                                     @ + AppendIndex(data)]
            /\ lock' = NOBODY
            /\ Goto(c, "close_write")
            /\ UNCHANGED <<dataFileDescriptor, accept, isThreadComplete,
                           clientSocketFd, buffers, net, received>>
         \/ /\ f.type = "socket"
            /\ reply' = [reply EXCEPT ![f.conn] = @ \o data]
            /\ lock' = NOBODY
            /\ Goto(c, "close_write")
            /\ UNCHANGED <<device, files, accept, isThreadComplete,
                           clientSocketFd, buffers, inbox, received>>
         \/ /\ \/ f.type = "none"
               \/ f.type = "device" /\ (~ f.writable \/ "NOMEM" \in Faults)
               \/ f.type = "socket" /\ "RESET" \in Faults
            /\ GiveUp(c)

(* close(dataFileDescriptor), and the test for the newline. *)
CloseWrite(c) ==
  /\ pc[c] = "close_write"
  /\ fds' = Closed(dataFileDescriptor)
  /\ Goto(c, AfterChunk(c))
  /\ UNCHANGED <<device, dataFileDescriptor, lock, accept, isThreadComplete,
                 clientSocketFd, buffers, net, received>>

-----------------------------------------------------------------------------
(* client_data_handler: sending *)

(* What one read of the device returns: the rest of one command. *)
DeviceRead(pos) ==
  LET hit   == FindEntry(buffer, pos)
      entry == buffer.entry[hit.slot]
  IN  IF hit = NotFound
      THEN <<>>
      ELSE SubSeq(entry.buffptr, hit.byte + 1, entry.size)

(* read(dataFileDescriptor, ...); from a socket it waits, the mutex held,   *)
(* for that client to send something, or to be gone.                        *)
Read(c) ==
  /\ pc[c] = "read"
  /\ LET f == At(dataFileDescriptor)
     IN  \/ /\ f.type = "device"
            /\ send_buffer' = [send_buffer EXCEPT ![c] = DeviceRead(f.pos)]
            /\ fds' = [fds EXCEPT ![dataFileDescriptor].pos =
                                     @ + Len(DeviceRead(f.pos))]
            /\ lock' = NOBODY
            /\ Goto(c, "send")
            /\ UNCHANGED <<device, dataFileDescriptor, accept,
                           isThreadComplete, clientSocketFd, receive_buffer,
                           bytes_received, net, received>>
         \/ /\ f.type = "socket" /\ inbox[f.conn] # <<>>
            /\ send_buffer' =
                 [send_buffer EXCEPT ![c] = Head(inbox[f.conn]).data]
            /\ inbox' = [inbox EXCEPT ![f.conn] = Tail(@)]
            /\ lock' = NOBODY
            /\ Goto(c, "send")
            /\ UNCHANGED <<device, files, accept, isThreadComplete,
                           clientSocketFd, receive_buffer, bytes_received,
                           reply, received>>
         \/ /\ f.type = "socket" /\ inbox[f.conn] = <<>> /\ "EOF" \in Faults
            /\ send_buffer' = [send_buffer EXCEPT ![c] = <<>>]
            /\ lock' = NOBODY
            /\ Goto(c, "send")
            /\ UNCHANGED <<device, files, accept, isThreadComplete,
                           clientSocketFd, receive_buffer, bytes_received,
                           net, received>>
         \/ /\ f.type = "none" \/ (f.type = "socket" /\ "RESET" \in Faults)
            /\ GiveUp(c)

(* send; an empty read was the last. *)
Send(c) ==
  /\ pc[c] = "send"
  /\ LET f == At(clientSocketFd[c])
     IN  \/ /\ f.type = "socket"
            /\ reply' = [reply EXCEPT ![f.conn] = @ \o send_buffer[c]]
            /\ Goto(c, IF send_buffer[c] = <<>> THEN "close_client"
                       ELSE "lock_read")
            /\ UNCHANGED <<device, files, lock, accept, isThreadComplete,
                           clientSocketFd, buffers, inbox, received>>
         \/ /\ f.type # "socket" \/ "RESET" \in Faults
            /\ GiveUp(c)

(* A client that is gone may also cost the process its life, at a send or a *)
(* write to its socket: SIGPIPE is neither caught nor ignored.              *)
Sigpipe(c) ==
  /\ "RESET" \in Faults
  /\ \/ pc[c] = "send" /\ At(clientSocketFd[c]).type = "socket"
     \/ pc[c] = "write" /\ At(dataFileDescriptor).type = "socket"
  /\ main' = [at |-> "killed"]
  /\ UNCHANGED <<device, files, lock, backlog, head, joins, isThreadComplete,
                 pc, clientSocketFd, buffers, net, received>>

CloseClient(c) ==
  /\ pc[c] = "close_client"
  /\ fds' = Closed(clientSocketFd[c])
  /\ Goto(c, "complete")
  /\ UNCHANGED <<device, dataFileDescriptor, lock, accept, isThreadComplete,
                 clientSocketFd, buffers, net, received>>

Complete(c) ==
  /\ pc[c] = "complete"
  /\ isThreadComplete' = [isThreadComplete EXCEPT ![c] = TRUE]
  /\ Goto(c, "close_data")
  /\ UNCHANGED <<device, files, lock, accept, clientSocketFd, buffers, net,
                 received>>

CloseData(c) ==
  /\ pc[c] = "close_data"
  /\ fds' = Closed(dataFileDescriptor)
  /\ Goto(c, "ended")
  /\ UNCHANGED <<device, dataFileDescriptor, lock, accept, isThreadComplete,
                 clientSocketFd, buffers, net, received>>

Handler(c) ==
  \/ Recv(c)
  \/ OpenDataFile(c, "open_seek", TRUE, "ioctl", "failed")
  \/ Ioctl(c)
  \/ OpenDataFile(c, "open_write", TRUE, "lock_write", "lock_write")
  \/ MutexLock(c, "lock_write", "write") \/ Write(c) \/ CloseWrite(c)
  \/ OpenDataFile(c, "open_read", FALSE, "lock_read", "failed")
  \/ MutexLock(c, "lock_read", "read") \/ Read(c)
  \/ Send(c) \/ Sigpipe(c)
  \/ CloseClient(c) \/ Complete(c) \/ CloseData(c)

-----------------------------------------------------------------------------
(* accept_and_log_client *)

Scanning(nodes) == [at |-> "scan", left |-> nodes]

(* accept, malloc, pthread_create, SLIST_INSERT_HEAD.  pthread_create fails *)
(* with an error number, not with the ERROR it is compared to: then the     *)
(* node is inserted all the same, for a thread that never runs.             *)
Accept ==
  /\ main.at = "accept" /\ backlog # <<>>
  /\ LET c == Head(backlog)
     IN  /\ Unused # {}
         /\ fds' = [fds EXCEPT ![LowestUnused] = Socket(c)]
         /\ clientSocketFd' = [clientSocketFd EXCEPT ![c] = LowestUnused]
         /\ head' = <<c>> \o head
         /\ main' = Scanning(head')
         /\ Goto(c, "recv") \/ ("CREATE" \in Faults /\ Goto(c, "unstarted"))
  /\ backlog' = Tail(backlog)
  /\ UNCHANGED <<device, dataFileDescriptor, lock, joins, isThreadComplete,
                 buffers, net, received>>

(* No descriptor or no memory for a connection: main returns, and with it   *)
(* every thread is gone.                                                    *)
AcceptFails ==
  /\ main.at = "accept" /\ backlog # <<>>
  /\ Unused = {} \/ "MALLOC" \in Faults
  /\ main' = [at |-> "exited"]
  /\ UNCHANGED <<device, files, lock, backlog, head, joins, isThreadComplete,
                 pc, clientSocketFd, buffers, net, received>>

(* SLIST_FOREACH: a node whose thread is complete is joined, each time the  *)
(* list is scanned, for nodes are never removed.  Faulty variant: threads   *)
(* that are not complete are joined as well.                                *)
DueAlways(c) == TRUE

Due(c) == isThreadComplete[c]

Skip ==
  /\ main.at = "scan" /\ main.left # <<>>
  /\ ~ Due(Head(main.left))
  /\ main' = Scanning(Tail(main.left))

Join ==
  /\ main.at = "scan" /\ main.left # <<>>
  /\ LET c == Head(main.left)
     IN  /\ Due(c)
         /\ joins' = [joins EXCEPT ![c] = @ + 1]
         /\ IF joins[c] = 0
            THEN main' = [at |-> "join", on |-> c, left |-> Tail(main.left)]
            ELSE \* undefined: ESRCH, a crash, or another thread that took
                 \* over the descriptor of the one joined before
                 \/ main' = Scanning(Tail(main.left))
                 \/ main' = [at |-> "killed"]
                 \/ \E d \in ToSet(head) \ {c} :
                      main' = [at |-> "join", on |-> d, left |-> Tail(main.left)]

Joined ==
  /\ main.at = "join" /\ pc[main.on] \in {"ended", "failed"}
  /\ main' = IF pc[main.on] = "failed" THEN [at |-> "exited"]
             ELSE Scanning(main.left)

ScanDone == main.at = "scan" /\ main.left = <<>> /\ main' = [at |-> "accept"]

Main ==
  \/ Accept \/ AcceptFails
  \/ /\ Skip \/ Joined \/ ScanDone
     /\ UNCHANGED <<device, files, lock, backlog, head, joins,
                    isThreadComplete, pc, clientSocketFd, buffers, net,
                    received>>
  \/ /\ Join
     /\ UNCHANGED <<device, files, lock, backlog, head, isThreadComplete, pc,
                    clientSocketFd, buffers, net, received>>

-----------------------------------------------------------------------------

Active ==
  {c \in Clients : pc[c] \notin {"none", "unstarted", "ended", "failed"}}

(* A client connects and sends its request. *)
Connect(c) ==
  /\ pc[c] = "none" /\ Cardinality(Active) < MaxActive
  /\ backlog' = Append(backlog, c)
  /\ \E request \in Requests : inbox' = [inbox EXCEPT ![c] = request]
  /\ Goto(c, "pending")
  /\ UNCHANGED <<device, files, lock, main, head, joins, isThreadComplete,
                 clientSocketFd, buffers, reply, received>>

Init ==
  /\ buffer \in Held /\ received = Content
  /\ partial = <<>>
  /\ fds = [d \in FDs |-> NoFile] /\ dataFileDescriptor = 0
  /\ lock = NOBODY
  /\ backlog = <<>> /\ main = [at |-> "accept"] /\ head = <<>>
  /\ isThreadComplete = [c \in Clients |-> FALSE]
  /\ joins = [c \in Clients |-> 0]
  /\ pc = [c \in Clients |-> "none"]
  /\ clientSocketFd = [c \in Clients |-> ERROR]
  /\ receive_buffer = [c \in Clients |-> [seek |-> NoSeek, data |-> <<>>]]
  /\ bytes_received = [c \in Clients |-> 0]
  /\ send_buffer = [c \in Clients |-> <<>>]
  /\ inbox = [c \in Clients |-> <<>>] /\ reply = [c \in Clients |-> <<>>]

Running == main.at \notin {"exited", "killed"}

Next ==
  /\ Running
  /\ Main \/ \E c \in Clients : Handler(c) \/ Connect(c)

Spec == Init /\ [][Next]_vars

(* A thread waits on a socket for a client that has sent all it has to say. *)
AwaitsClient(c) ==
  \E d \in Clients :
    /\ inbox[d] = <<>>
    /\ \/ pc[c] = "recv" /\ At(clientSocketFd[c]) = Socket(d)
       \/ pc[c] = "read" /\ At(dataFileDescriptor) = Socket(d)

(* Threads are scheduled, and a mutex that is released over and over is     *)
(* obtained by each that wants it.  No client has to close or be gone.      *)
Fairness ==
  /\ WF_vars(Running /\ Main)
  /\ \A c \in Clients :
       /\ WF_vars(Running /\ ~ AwaitsClient(c) /\ Handler(c))
       /\ SF_vars(Running /\ MutexLock(c, "lock_read", "read"))
       /\ SF_vars(Running /\ MutexLock(c, "lock_write", "write"))

FairSpec == Spec /\ Fairness

-----------------------------------------------------------------------------
(* Properties *)

Labels ==
  {"none", "pending", "unstarted", "recv", "open_seek", "ioctl", "open_write",
   "lock_write", "write", "close_write", "open_read", "lock_read", "read",
   "send", "close_client", "complete", "close_data", "ended", "failed"}

TypeOK ==
  /\ \A d \in FDs : \/ fds[d] = NoFile
                    \/ fds[d] \in {Socket(c) : c \in Clients}
                    \/ fds[d].type = "device" /\ fds[d].pos \in Nat
  /\ dataFileDescriptor \in FDs \union {0, ERROR}
  /\ lock \in Clients \union {NOBODY}
  /\ pc \in [Clients -> Labels]
  /\ ToSet(head) \subseteq Clients /\ ToSet(backlog) \subseteq Clients
  /\ isThreadComplete \in [Clients -> BOOLEAN]
  /\ buffer.in_offs \in Slots /\ buffer.out_offs \in Slots

(* No thread gives up: the handler does both things its comment lists,      *)
(* receive and store, read and send (aesdsocket.c, client_data_handler).    *)
ClientsAreServed == \A c \in Clients : pc[c] # "failed"

(* What a seek asks for, counted in commands kept. *)
From(seek) ==
  IF /\ seek # NoSeek
     /\ seek[1] < Len(Commands) /\ seek[2] < Len(Commands[seek[1] + 1])
  THEN Len(FlattenSeq(SubSeq(Commands, 1, seek[1]))) + seek[2]
  ELSE 0

(* When the reply is complete it is the device's content, all of it or from *)
(* the position of the client's seek on.  The device counts slots where the *)
(* seek counts commands: they agree while the oldest command is in slot 0.  *)
ReplyIsTheContent ==
  [][\A c \in Clients :
       /\ pc[c] # "close_client" /\ pc'[c] = "close_client"
       /\ receive_buffer[c].seek = NoSeek \/ buffer.out_offs = 0
       => reply'[c] = SubSeq(Content, From(receive_buffer[c].seek) + 1,
                            Len(Content))]_vars

(* "Receives data from the client and writes it to the file": between two   *)
(* requests the device holds the bytes received, in their order, and unless *)
(* it is full all of them.                                                  *)
EveryByteStored ==
  (\A c \in Clients : pc[c] \in {"none", "pending", "recv", "ended"}) =>
    /\ IsSuffix(Content \o partial, received)
    /\ ~ buffer.full => Content \o partial = received

(* A server without clients has no descriptor open but its own: the one a   *)
(* seek leaves open "will be reused for reading" and closed then.           *)
DescriptorsClosed ==
  (\A c \in Clients : pc[c] \in {"none", "pending", "ended"}) => Unused = FDs

(* What a second join of a thread does is undefined. *)
Rejoined == \E c \in Clients : joins[c] > 1

(* The accept loop waits only for threads that are done with their client,  *)
(* so no client can keep others from being accepted, as long as no thread   *)
(* was joined twice.                                                        *)
AcceptLoopFree ==
  main.at = "join" /\ ~ Rejoined => pc[main.on] \in {"close_data", "ended"}

(* However the threads race, the device never holds a byte more than was    *)
(* received for it: no chunk is stored twice.                               *)
NothingStoredTwice == Len(Content) + Len(partial) <= Len(received)

(* Every client that connects is answered and its thread ends, unless a     *)
(* thread was joined twice.                                                 *)
ClientsAnswered ==
  \A c \in Clients : (pc[c] = "pending") ~> (pc[c] = "ended" \/ Rejoined)
=============================================================================
