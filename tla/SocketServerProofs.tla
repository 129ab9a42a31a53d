-------------------------- MODULE SocketServerProofs --------------------------
(***************************************************************************)
(* For every number of clients, every request, every descriptor table and   *)
(* every fault the model knows: the accept loop waits only for threads that *)
(* are done with their clients, the state is well typed, and the device     *)
(* never holds a byte more than was received for it.                        *)
(*                                                                         *)
(* For clients that come one after the other: all of them are served, no    *)
(* descriptor is left open, every byte received is stored, and a reply is   *)
(* the device's content.                                                    *)
(***************************************************************************)
EXTENDS SocketServer, DriverOpsProofs, FiniteSetTheorems

MainType ==
  \/ main \in [at : {"accept", "exited", "killed"}]
  \/ main \in [at : {"scan"}, left : Seq(Clients)]
  \/ main \in [at : {"join"}, on : Clients, left : Seq(Clients)]

AcceptTypeOK ==
  /\ pc \in [Clients -> Labels]
  /\ isThreadComplete \in [Clients -> BOOLEAN]
  /\ joins \in [Clients -> Nat]
  /\ head \in Seq(Clients) /\ backlog \in Seq(Clients)
  /\ MainType

(* A connection waits in the backlog once, and only until it is accepted:   *)
(* the thread of a node that is complete is not started again.              *)
BacklogPending ==
  /\ \A i \in 1 .. Len(backlog) : pc[backlog[i]] = "pending"
  /\ \A i, j \in 1 .. Len(backlog) : backlog[i] = backlog[j] => i = j

(* The flag is set after the client's socket was closed, and is not reset.  *)
CompleteIsDone ==
  \A c \in Clients : isThreadComplete[c] => pc[c] \in {"close_data", "ended"}

AcceptInv ==
  /\ AcceptTypeOK /\ BacklogPending /\ CompleteIsDone /\ AcceptLoopFree

-----------------------------------------------------------------------------
(* The client threads *)

(* What the accept loop sees of a thread's step: it goes on to a label from *)
(* which it is not accepted again, and one that is done stays so; its flag  *)
(* changes only when it is.                                                 *)
ThreadMoved(c) ==
  /\ \E label \in Labels :
       /\ pc' = [pc EXCEPT ![c] = label]
       /\ pc[c] \in {"close_data", "ended"} => label = "ended"
       /\ \/ UNCHANGED isThreadComplete
          \/ /\ label = "close_data"
             /\ isThreadComplete' = [isThreadComplete EXCEPT ![c] = TRUE]
  /\ pc[c] # "pending"
  /\ UNCHANGED accept

LEMMA GiveUpMoves ==
  ASSUME AcceptTypeOK, NEW c \in Clients, GiveUp(c),
         pc[c] \notin {"pending", "close_data", "ended"}
  PROVE  ThreadMoved(c)
  BY DEF GiveUp, Goto, ThreadMoved, Labels

LEMMA OpenMoves ==
  ASSUME AcceptTypeOK, NEW c \in Clients, NEW next \in Labels,
         NEW onError \in Labels, NEW writable,
         NEW label \in {"open_seek", "open_write", "open_read"},
         OpenDataFile(c, label, writable, next, onError)
  PROVE  ThreadMoved(c)
  BY DEF OpenDataFile, Goto, ThreadMoved

LEMMA LockMoves ==
  ASSUME AcceptTypeOK, NEW c \in Clients, NEW next \in Labels,
         NEW label \in {"lock_write", "lock_read"}, MutexLock(c, label, next)
  PROVE  ThreadMoved(c)
  BY DEF MutexLock, Goto, ThreadMoved

(* A thread's step, whatever its descriptors mean by now. *)
LEMMA HandlerMoves ==
  ASSUME AcceptTypeOK, NEW c \in Clients, Handler(c)
  PROVE  ThreadMoved(c) \/ (main' = [at |-> "killed"]
                            /\ UNCHANGED <<backlog, head, joins, pc,
                                           isThreadComplete>>)
<1>1. CASE Recv(c)
  <2>1. pc[c] = "recv"
    BY <1>1 DEF Recv
  <2>2. \A chunk : Branch(chunk) \in Labels
    BY DEF Branch, Labels
  <2> QED
    BY <1>1, <2>1, <2>2, GiveUpMoves DEF Recv, Goto, ThreadMoved
<1>2. CASE OpenDataFile(c, "open_seek", TRUE, "ioctl", "failed")
           \/ OpenDataFile(c, "open_write", TRUE, "lock_write", "lock_write")
           \/ OpenDataFile(c, "open_read", FALSE, "lock_read", "failed")
  BY <1>2, OpenMoves DEF Labels
<1>3. CASE MutexLock(c, "lock_write", "write")
           \/ MutexLock(c, "lock_read", "read")
  BY <1>3, LockMoves DEF Labels
<1>4. CASE Ioctl(c) \/ CloseWrite(c)
  <2>1. AfterChunk(c) \in Labels
    BY DEF AfterChunk, Labels
  <2> QED
    BY <1>4, <2>1 DEF Ioctl, CloseWrite, Goto, ThreadMoved
<1>5. CASE Write(c)
  <2>1. pc[c] = "write"
    BY <1>5 DEF Write
  <2>2. CASE GiveUp(c)
    BY <2>1, <2>2, GiveUpMoves
  <2>3. CASE ~ GiveUp(c)
    BY <1>5, <2>1, <2>3 DEF Write, Goto, ThreadMoved, Labels
  <2> QED
    BY <2>2, <2>3
<1>6. CASE Read(c)
  <2>1. pc[c] = "read"
    BY <1>6 DEF Read
  <2>2. CASE GiveUp(c)
    BY <2>1, <2>2, GiveUpMoves
  <2>3. CASE ~ GiveUp(c)
    BY <1>6, <2>1, <2>3 DEF Read, Goto, ThreadMoved, Labels
  <2> QED
    BY <2>2, <2>3
<1>7. CASE Send(c)
  <2>1. pc[c] = "send"
    BY <1>7 DEF Send
  <2>2. CASE GiveUp(c)
    BY <2>1, <2>2, GiveUpMoves
  <2>3. CASE ~ GiveUp(c)
    BY <1>7, <2>1, <2>3 DEF Send, Goto, ThreadMoved, Labels
  <2> QED
    BY <2>2, <2>3
<1>8. CASE Sigpipe(c)
  BY <1>8 DEF Sigpipe
<1>9. CASE CloseClient(c) \/ Complete(c) \/ CloseData(c)
  BY <1>9 DEF CloseClient, Complete, CloseData, Goto, ThreadMoved, Labels
<1> QED
  BY <1>1, <1>2, <1>3, <1>4, <1>5, <1>6, <1>7, <1>8, <1>9 DEF Handler

LEMMA ThreadKeeps ==
  ASSUME AcceptInv, NEW c \in Clients, ThreadMoved(c)
  PROVE  AcceptInv'
<1> USE DEF AcceptInv, AcceptTypeOK
<1>1. PICK label \in Labels :
        /\ pc' = [pc EXCEPT ![c] = label]
        /\ pc[c] \in {"close_data", "ended"} => label = "ended"
        /\ \/ UNCHANGED isThreadComplete
           \/ /\ label = "close_data"
              /\ isThreadComplete' = [isThreadComplete EXCEPT ![c] = TRUE]
  BY DEF ThreadMoved
<1>2. UNCHANGED <<backlog, main, head, joins>> /\ pc[c] # "pending"
  BY DEF ThreadMoved, accept
<1>3. isThreadComplete' \in [Clients -> BOOLEAN]
  BY <1>1
<1>4. AcceptTypeOK'
  BY <1>1, <1>2, <1>3 DEF MainType
<1>5. BacklogPending'
  BY <1>1, <1>2 DEF BacklogPending
<1>6. CompleteIsDone'
  BY <1>1 DEF CompleteIsDone
<1>7. AcceptLoopFree'
  BY <1>1, <1>2 DEF AcceptLoopFree, Rejoined, MainType
<1> QED
  BY <1>4, <1>5, <1>6, <1>7

-----------------------------------------------------------------------------
(* The main thread, and the clients *)

LEMMA InitAccepts == Init => AcceptInv
<1> SUFFICES ASSUME Init
             PROVE  AcceptInv
  OBVIOUS
<1>1. isThreadComplete \in [Clients -> BOOLEAN]
  BY Zenon DEF Init
<1>2. AcceptTypeOK
  BY <1>1 DEF Init, AcceptTypeOK, MainType, Labels
<1>3. BacklogPending /\ CompleteIsDone
  BY DEF Init, BacklogPending, CompleteIsDone
<1>4. AcceptLoopFree
  BY DEF Init, AcceptLoopFree
<1> QED
  BY <1>2, <1>3, <1>4 DEF AcceptInv

LEMMA ConnectKeeps ==
  ASSUME AcceptInv, NEW c \in Clients, Connect(c)
  PROVE  AcceptInv'
<1> USE DEF AcceptInv, AcceptTypeOK
<1>1. /\ pc[c] = "none" /\ pc' = [pc EXCEPT ![c] = "pending"]
      /\ backlog' = Append(backlog, c)
      /\ UNCHANGED <<main, head, joins, isThreadComplete>>
  BY DEF Connect, Goto
<1>2. AcceptTypeOK'
  BY <1>1 DEF MainType, Labels
<1>3. BacklogPending'
  BY <1>1 DEF BacklogPending
<1>4. CompleteIsDone' /\ AcceptLoopFree'
  BY <1>1 DEF CompleteIsDone, AcceptLoopFree, Rejoined, MainType
<1> QED
  BY <1>2, <1>3, <1>4

LEMMA AcceptKeeps ==
  ASSUME AcceptInv, Accept
  PROVE  AcceptInv'
<1> USE DEF AcceptInv, AcceptTypeOK
<1> DEFINE c == Head(backlog)
<1>1. PICK label \in {"recv", "unstarted"} :
        /\ backlog # <<>> /\ backlog' = Tail(backlog)
        /\ pc' = [pc EXCEPT ![c] = label]
        /\ head' = <<c>> \o head
        /\ main' = [at |-> "scan", left |-> head']
        /\ UNCHANGED <<joins, isThreadComplete>>
  BY DEF Accept, Goto, Scanning
<1>2. c = backlog[1] /\ c \in Clients /\ pc[c] = "pending"
  BY <1>1 DEF BacklogPending
<1>3. AcceptTypeOK'
  <2>1. head' \in Seq(Clients) /\ backlog' \in Seq(Clients)
    BY <1>1, <1>2
  <2>2. pc' \in [Clients -> Labels]
    BY <1>1 DEF Labels
  <2> QED
    BY <1>1, <2>1, <2>2 DEF MainType
<1>4. BacklogPending'
  <2>1. /\ Len(backlog') = Len(backlog) - 1 /\ Len(backlog) \in Nat
        /\ \A i \in 1 .. Len(backlog') : backlog'[i] = backlog[i + 1]
    BY <1>1
  <2>0. /\ 1 \in 1 .. Len(backlog)
        /\ \A i \in 1 .. Len(backlog') :
             i + 1 \in 1 .. Len(backlog) /\ i + 1 # 1
    BY <1>1, <2>1
  <2>2. \A i \in 1 .. Len(backlog') : backlog'[i] # c
    BY <1>2, <2>0, <2>1, Zenon DEF AcceptInv, BacklogPending
  <2>3. \A i \in 1 .. Len(backlog') : pc'[backlog'[i]] = "pending"
    BY <1>1, <2>1, <2>2 DEF BacklogPending
  <2>4. ASSUME NEW i \in 1 .. Len(backlog'), NEW j \in 1 .. Len(backlog'),
               backlog'[i] = backlog'[j]
        PROVE  i = j
    <3>1. backlog[i + 1] = backlog[j + 1]
      BY <2>1, <2>4, Zenon
    <3>2. i + 1 = j + 1
      BY <2>0, <3>1, Zenon DEF AcceptInv, BacklogPending
    <3> QED
      BY <3>2
  <2> QED
    BY <2>3, <2>4 DEF BacklogPending
<1>5. CompleteIsDone' /\ AcceptLoopFree'
  BY <1>1, <1>2 DEF CompleteIsDone, AcceptLoopFree
<1> QED
  BY <1>3, <1>4, <1>5

LEMMA JoinKeeps ==
  ASSUME AcceptInv, Join,
         UNCHANGED <<backlog, head, isThreadComplete, pc>>
  PROVE  AcceptInv'
<1> USE DEF AcceptInv, AcceptTypeOK
<1> DEFINE c == Head(main.left)
<1>1. /\ main.left \in Seq(Clients) /\ main.left # <<>>
      /\ isThreadComplete[c]
      /\ joins' = [joins EXCEPT ![c] = @ + 1]
  BY DEF Join, Due, MainType
<1>2. c \in Clients /\ Tail(main.left) \in Seq(Clients)
  BY <1>1
<1>3. joins' \in [Clients -> Nat] /\ joins'[c] = joins[c] + 1
  BY <1>1, <1>2
<1>4. ToSet(head) \subseteq Clients
  BY DEF ToSet
<1>5. MainType' /\ (main'.at = "join" /\ joins[c] = 0 => main'.on = c)
  <2>1. \/ main' = [at |-> "scan", left |-> Tail(main.left)]
        \/ main' = [at |-> "killed"]
        \/ \E d \in Clients :
             /\ joins[c] = 0 => d = c
             /\ main' = [at |-> "join", on |-> d, left |-> Tail(main.left)]
    BY <1>2, <1>4 DEF Join, Scanning
  <2>2. CASE main' = [at |-> "scan", left |-> Tail(main.left)]
    BY <1>2, <2>2 DEF MainType
  <2>3. CASE main' = [at |-> "killed"]
    BY <2>3 DEF MainType
  <2>4. ASSUME NEW d \in Clients, joins[c] = 0 => d = c,
               main' = [at |-> "join", on |-> d, left |-> Tail(main.left)]
        PROVE  MainType' /\ (joins[c] = 0 => main'.on = c)
    BY <1>2, <2>4 DEF MainType
  <2> QED
    BY <2>1, <2>2, <2>3, <2>4
<1>6. joins[c] # 0 => Rejoined'
  BY <1>2, <1>3 DEF Rejoined
<1>7. AcceptLoopFree'
  BY <1>1, <1>2, <1>5, <1>6 DEF AcceptLoopFree, CompleteIsDone
<1>8. BacklogPending' /\ CompleteIsDone'
  BY DEF BacklogPending, CompleteIsDone
<1> QED
  BY <1>3, <1>5, <1>7, <1>8

LEMMA ScanKeeps ==
  ASSUME AcceptInv, Skip \/ Joined \/ ScanDone \/ main' = [at |-> "exited"]
                    \/ main' = [at |-> "killed"],
         UNCHANGED <<backlog, head, joins, isThreadComplete, pc>>
  PROVE  AcceptInv'
<1> USE DEF AcceptInv, AcceptTypeOK
<1>1. MainType' /\ main'.at # "join"
  <2>1. \/ main' \in [at : {"accept", "exited", "killed"}]
        \/ \E nodes \in Seq(Clients) : main' = [at |-> "scan", left |-> nodes]
    <3>1. CASE Skip
      <4>1. main.left \in Seq(Clients) /\ main.left # <<>>
        BY <3>1 DEF Skip, MainType
      <4>2. Tail(main.left) \in Seq(Clients)
        BY <4>1
      <4>3. main' = [at |-> "scan", left |-> Tail(main.left)]
        BY <3>1 DEF Skip, Scanning
      <4> QED
        BY <4>2, <4>3
    <3>2. CASE Joined
      <4>1. main.left \in Seq(Clients)
        BY <3>2 DEF Joined, MainType
      <4>2. \/ main' = [at |-> "exited"]
            \/ main' = [at |-> "scan", left |-> main.left]
        BY <3>2 DEF Joined, Scanning
      <4> QED
        BY <4>1, <4>2
    <3>3. CASE ~ Skip /\ ~ Joined
      BY <3>3 DEF ScanDone
    <3> QED
      BY <3>1, <3>2, <3>3
  <2> QED
    BY <2>1 DEF MainType
<1>2. AcceptLoopFree'
  BY <1>1 DEF AcceptLoopFree
<1>3. BacklogPending' /\ CompleteIsDone'
  BY DEF BacklogPending, CompleteIsDone
<1> QED
  BY <1>1, <1>2, <1>3

LEMMA AcceptInvStep ==
  ASSUME AcceptInv, [Next]_vars
  PROVE  AcceptInv'
<1>1. CASE Main
  <2>1. CASE Accept
    BY <2>1, AcceptKeeps
  <2>2. CASE AcceptFails
    BY <2>2, ScanKeeps DEF AcceptFails
  <2>3. CASE /\ Skip \/ Joined \/ ScanDone
             /\ UNCHANGED <<backlog, head, joins, isThreadComplete, pc>>
    BY <2>3, ScanKeeps
  <2>4. CASE Join /\ UNCHANGED <<backlog, head, isThreadComplete, pc>>
    BY <2>4, JoinKeeps
  <2> QED
    BY <1>1, <2>1, <2>2, <2>3, <2>4 DEF Main
<1>2. ASSUME NEW c \in Clients, Handler(c)
      PROVE  AcceptInv'
  BY <1>2, HandlerMoves, ThreadKeeps, ScanKeeps DEF AcceptInv
<1>3. CASE UNCHANGED vars
  BY <1>3 DEF vars, accept, AcceptInv, AcceptTypeOK, MainType, BacklogPending,
              CompleteIsDone, AcceptLoopFree, Rejoined
<1> QED
  BY <1>1, <1>2, <1>3, ConnectKeeps DEF Next

(* The accept loop never waits for a thread that still serves its client,   *)
(* so no client keeps another from being accepted.                          *)
THEOREM AcceptLoopIsFree == Spec => []AcceptLoopFree
<1>1. AcceptInv /\ [Next]_vars => AcceptInv'
  BY AcceptInvStep
<1>2. AcceptInv => AcceptLoopFree
  BY DEF AcceptInv
<1> QED
  BY <1>1, <1>2, InitAccepts, PTL DEF Spec

-----------------------------------------------------------------------------
(* One client after the other *)

Chunk == [seek : {NoSeek, GARBLED} \union (Nat \X Nat), data : Seq(Byte)]

Chunks == UNION {ToSet(request) : request \in Requests}

(* A seek command and its newline come together.                            *)
SeeksAreWhole ==
  \A chunk \in Chunks : chunk.seek # NoSeek => NewlineFound(chunk.data)

FilesTyped ==
  /\ fds = [d \in FDs |-> fds[d]]
  /\ \A d \in FDs : fds[d].type = "device" =>
       fds[d] = [type |-> "device", pos |-> fds[d].pos,
                 writable |-> fds[d].writable]

BuffersTyped ==
  /\ clientSocketFd \in [Clients -> FDs \union {ERROR}]
  /\ receive_buffer = [c \in Clients |-> receive_buffer[c]]
  /\ bytes_received = [c \in Clients |-> bytes_received[c]]
  /\ inbox \in [Clients -> Seq(Chunks)]

SocketLabels == {"recv", "open_seek", "open_write", "open_read"}

BothLabels ==
  {"ioctl", "lock_write", "write", "close_write", "lock_read", "read", "send",
   "close_client"}

DataLabels == {"complete", "close_data"}

(* Before its thread runs, and while it receives lines, the chunk in a      *)
(* client's buffer is not a seek.                                           *)
LineLabels ==
  {"none", "pending", "recv", "open_write", "lock_write", "write", "close_write"}

SocketOpen(c) ==
  clientSocketFd[c] \in FDs /\ fds[clientSocketFd[c]] = Socket(c)

DataFileOpen ==
  dataFileDescriptor \in FDs /\ fds[dataFileDescriptor].type = "device"

(* The descriptors in use are those the thread opened and has not closed.   *)
Turn(c) ==
  /\ pc[c] \in SocketLabels \union BothLabels => SocketOpen(c)
  /\ pc[c] \in BothLabels \union DataLabels => DataFileOpen
  /\ pc[c] \in SocketLabels => Unused = FDs \ {clientSocketFd[c]}
  /\ pc[c] \in BothLabels =>
       Unused = FDs \ {clientSocketFd[c], dataFileDescriptor}
  /\ pc[c] \in DataLabels => Unused = FDs \ {dataFileDescriptor}
  /\ pc[c] \in {"lock_write", "write"} => fds[dataFileDescriptor].writable
  /\ pc[c] \in LineLabels => receive_buffer[c].seek = NoSeek
  /\ pc[c] \in {"open_seek", "ioctl"} =>
       receive_buffer[c].seek # NoSeek /\ NewlineFound(Received(c))
  /\ pc[c] \notin {"failed", "unstarted"}

OneAtATime == \A c, d \in Active : c = d

TurnInv ==
  /\ FilesTyped /\ BuffersTyped
  /\ OneAtATime /\ DescriptorsClosed
  /\ \A c \in Clients : Turn(c)

(* The conditions: no thread is without a descriptor, a socket or a start.  *)
InTurn ==
  /\ MaxActive <= 1 /\ Faults \subseteq {"MALLOC", "EOF"}
  /\ SeeksAreWhole
  /\ \E d, e \in FDs : d # e

(* A set of descriptors that is not empty has a lowest.                     *)
LEMMA LowestIsUnused ==
  ASSUME Unused # {}
  PROVE  LowestUnused \in Unused
<1>1. Unused \in SUBSET Nat
  BY ServerAssumption DEF Unused
<1> QED
  BY <1>1, LeastNatural DEF LowestUnused

LEMMA ChunksTyped ==
  ASSUME NEW chunk \in Chunks
  PROVE  /\ chunk \in Chunk
         /\ chunk = [seek |-> chunk.seek, data |-> chunk.data]
         /\ SubSeq(chunk.data, 1, Len(chunk.data)) = chunk.data
<1>1. PICK request \in Requests : chunk \in ToSet(request)
  BY DEF Chunks
<1>2. request \in Seq(Chunk)
  BY ServerAssumption DEF Chunk
<1>3. PICK i \in 1 .. Len(request) : chunk = request[i]
  BY <1>1, <1>2 DEF ToSet
<1>4. chunk \in Chunk
  BY <1>2, <1>3
<1>5. chunk.data \in Seq(Byte) /\ chunk = [seek |-> chunk.seek, data |-> chunk.data]
  BY <1>4 DEF Chunk
<1> QED
  BY <1>4, <1>5

(* The turn of a client goes on, or ends: the others have not begun theirs  *)
(* or have had it.                                                          *)
LEMMA TurnGoesOn ==
  ASSUME TurnInv, AcceptTypeOK, NEW c \in Active, NEW label \in Labels,
         pc' = [pc EXCEPT ![c] = label],
         \A d \in Clients \ {c} : receive_buffer'[d] = receive_buffer[d],
         FilesTyped', BuffersTyped', Turn(c)',
         label \in {"none", "pending", "ended"} => Unused' = FDs
  PROVE  TurnInv'
<1>1. /\ c \in Clients
      /\ \A d \in Clients \ {c} :
           pc[d] \in {"none", "ended"} /\ pc'[d] = pc[d]
  <2>1. c \in Clients
    BY DEF Active
  <2>2. \A d \in Clients \ {c} : pc[d] \in {"none", "unstarted", "ended", "failed"}
    BY DEF TurnInv, OneAtATime, Active
  <2> QED
    BY <2>1, <2>2 DEF TurnInv, Turn, AcceptTypeOK
<1>2. OneAtATime'
  BY <1>1 DEF OneAtATime, Active
<1>3. DescriptorsClosed'
  BY <1>1 DEF DescriptorsClosed, AcceptTypeOK
<1>4. ASSUME NEW d \in Clients \ {c}
      PROVE  Turn(d)'
  <2>1. pc'[d] \in {"none", "ended"} /\ pc'[d] = pc[d]
    BY <1>1
  <2>2. pc'[d] = "none" => receive_buffer'[d].seek = NoSeek
    BY <2>1 DEF TurnInv, Turn, LineLabels
  <2> QED
    BY <2>1, <2>2 DEF Turn, SocketLabels, BothLabels, DataLabels, LineLabels
<1> QED
  BY <1>1, <1>2, <1>3, <1>4 DEF TurnInv

(* What a client finds that has the turn. *)
LEMMA TurnFinds ==
  ASSUME TurnInv, AcceptTypeOK, NEW c \in Clients
  PROVE  /\ pc[c] \in SocketLabels \union BothLabels =>
              At(clientSocketFd[c]) = Socket(c)
         /\ pc[c] \in BothLabels \union DataLabels =>
              /\ At(dataFileDescriptor).type = "device"
              /\ dataFileDescriptor \in FDs
         /\ pc[c] \in BothLabels => clientSocketFd[c] # dataFileDescriptor
BY DEF TurnInv, Turn, SocketOpen, DataFileOpen, At, Socket

LEMMA TurnRecv ==
  ASSUME TurnInv, AcceptTypeOK, InTurn, NEW c \in Clients, Recv(c)
  PROVE  TurnInv'
<1>1. /\ pc[c] = "recv" /\ c \in Active
      /\ At(clientSocketFd[c]) = Socket(c) /\ Turn(c)
      /\ "RESET" \notin Faults
  BY TurnFinds DEF Recv, Active, SocketLabels, InTurn, TurnInv
<1>2. Socket(c).type = "socket" /\ Socket(c).conn = c
  BY DEF Socket
<1>3. UNCHANGED <<fds, dataFileDescriptor, clientSocketFd>>
  BY DEF Recv, GiveUp, files
<1>4. CASE /\ inbox[c] # <<>>
           /\ LET chunk == Head(inbox[c])
              IN  /\ receive_buffer' = [receive_buffer EXCEPT ![c] = chunk]
                  /\ bytes_received' =
                       [bytes_received EXCEPT ![c] = Len(chunk.data)]
                  /\ Goto(c, Branch(chunk))
           /\ inbox' = [inbox EXCEPT ![c] = Tail(@)]
  <2> DEFINE chunk == Head(inbox[c])
  <2>1. chunk \in Chunks /\ Tail(inbox[c]) \in Seq(Chunks)
    BY <1>4 DEF TurnInv, BuffersTyped
  <2>2. /\ receive_buffer'[c] = chunk
        /\ bytes_received'[c] = Len(chunk.data)
        /\ receive_buffer' = [d \in Clients |-> receive_buffer'[d]]
        /\ bytes_received' = [d \in Clients |-> bytes_received'[d]]
    BY <1>4 DEF TurnInv, BuffersTyped
  <2>3. FilesTyped' /\ BuffersTyped'
    BY <1>3, <1>4, <2>1, <2>2 DEF TurnInv, FilesTyped, BuffersTyped
  <2>4. /\ Received(c)' = chunk.data
        /\ chunk.seek # NoSeek => NewlineFound(chunk.data)
    BY <2>1, <2>2, ChunksTyped DEF Received, InTurn, SeeksAreWhole
  <2>5. /\ pc' = [pc EXCEPT ![c] = Branch(chunk)]
        /\ Branch(chunk) \in {"open_write", "open_seek"}
        /\ Branch(chunk) = "open_write" <=> chunk.seek = NoSeek
        /\ pc'[c] = Branch(chunk)
    BY <1>4 DEF Goto, Branch, AcceptTypeOK
  <2>6. Turn(c)'
    <3>1. SocketOpen(c)' /\ (Unused = FDs \ {clientSocketFd[c]})'
      BY <1>1, <1>3 DEF Turn, SocketOpen, SocketLabels, Unused
    <3> QED
      BY <2>2, <2>4, <2>5, <3>1
         DEF Turn, SocketLabels, BothLabels, DataLabels, LineLabels
  <2>7. \A d \in Clients \ {c} : receive_buffer'[d] = receive_buffer[d]
    BY <1>4
  <2>8. Branch(chunk) \in Labels \ {"none", "pending", "ended"}
    BY <2>5 DEF Labels
  <2> HIDE DEF chunk
  <2> QED
    BY <1>1, <2>3, <2>5, <2>6, <2>7, <2>8, TurnGoesOn
<1>5. CASE /\ bytes_received' = [bytes_received EXCEPT ![c] = 0]
           /\ Goto(c, Branch(receive_buffer[c]))
           /\ UNCHANGED <<receive_buffer, inbox>>
  <2>1. pc' = [pc EXCEPT ![c] = "open_write"] /\ pc'[c] = "open_write"
    BY <1>1, <1>5 DEF Goto, Branch, Turn, LineLabels, AcceptTypeOK
  <2>2. FilesTyped' /\ BuffersTyped'
    BY <1>3, <1>5 DEF TurnInv, FilesTyped, BuffersTyped
  <2>3. Turn(c)'
    BY <1>1, <1>3, <1>5, <2>1 DEF Turn, SocketOpen, SocketLabels, BothLabels,
       DataLabels, LineLabels, Unused
  <2> QED
    BY <1>1, <1>5, <2>1, <2>2, <2>3, TurnGoesOn DEF Labels
<1> QED
  BY <1>1, <1>2, <1>4, <1>5 DEF Recv, net

LEMMA TurnOpen ==
  ASSUME TurnInv, AcceptTypeOK, InTurn, NEW c \in Clients, NEW writable,
         NEW label \in {"open_seek", "open_write", "open_read"},
         NEW next \in {"ioctl", "lock_write", "lock_read"}, NEW onError,
         OpenDataFile(c, label, writable, next, onError),
         next = "ioctl" <=> label = "open_seek",
         next = "lock_write" <=> label = "open_write",
         label = "open_write" => writable = TRUE
  PROVE  TurnInv'
<1> DEFINE d == LowestUnused
<1>1. /\ pc[c] = label /\ c \in Active /\ Turn(c) /\ SocketOpen(c)
      /\ Unused = FDs \ {clientSocketFd[c]}
      /\ "OPEN" \notin Faults
  BY DEF OpenDataFile, Active, SocketLabels, InTurn, TurnInv, Turn
<1>2. Unused # {}
  BY <1>1 DEF InTurn
<1>3. d \in FDs \ {clientSocketFd[c]}
  BY <1>1, <1>2, LowestIsUnused
<1>4. /\ fds' = [fds EXCEPT ![d] = DataFile(writable)]
      /\ dataFileDescriptor' = d
      /\ pc' = [pc EXCEPT ![c] = next] /\ pc'[c] = next
      /\ UNCHANGED <<clientSocketFd, receive_buffer, bytes_received, inbox>>
  BY <1>1, <1>2 DEF OpenDataFile, Goto, buffers, net, AcceptTypeOK
<1> HIDE DEF d
<1>5. /\ DataFile(writable) = [type |-> "device", pos |-> 0, writable |-> writable]
      /\ DataFile(writable) # NoFile
      /\ \A e \in FDs : fds'[e] = IF e = d THEN DataFile(writable) ELSE fds[e]
      /\ fds' = [e \in FDs |-> fds'[e]]
  BY <1>3, <1>4 DEF DataFile, NoFile, TurnInv, FilesTyped
<1>6. FilesTyped' /\ BuffersTyped'
  BY <1>4, <1>5 DEF TurnInv, FilesTyped, BuffersTyped
<1>7. Unused' = FDs \ {clientSocketFd[c], d}
  BY <1>1, <1>3, <1>5 DEF Unused
<1>8. Turn(c)'
  <2>1. SocketOpen(c)' /\ DataFileOpen'
    BY <1>1, <1>3, <1>4, <1>5 DEF SocketOpen, DataFileOpen
  <2>2. next = "lock_write" => fds'[dataFileDescriptor'].writable
    BY <1>3, <1>4, <1>5
  <2>3. /\ next = "lock_write" => receive_buffer'[c].seek = NoSeek
        /\ next = "ioctl" => /\ receive_buffer'[c].seek # NoSeek
                             /\ NewlineFound(Received(c)')
    BY <1>1, <1>4 DEF Turn, LineLabels, Received
  <2> QED
    BY <1>4, <1>7, <2>1, <2>2, <2>3
       DEF Turn, SocketLabels, BothLabels, DataLabels, LineLabels
<1> QED
  BY <1>1, <1>4, <1>6, <1>8, TurnGoesOn DEF Labels

(* A step with both descriptors that opens and closes none, and lets the    *)
(* position of the data file move.                                          *)
OnlyPositionMoves ==
  /\ \E p : fds' \in {fds, [fds EXCEPT ![dataFileDescriptor].pos = p]}
  /\ UNCHANGED <<dataFileDescriptor, clientSocketFd, receive_buffer,
                 bytes_received, inbox>>

LEMMA TurnWithBoth ==
  ASSUME TurnInv, AcceptTypeOK, NEW c \in Clients,
         pc[c] \in BothLabels, NEW label \in BothLabels \ {"ioctl"},
         pc' = [pc EXCEPT ![c] = label], OnlyPositionMoves,
         label \in {"lock_write", "write"} => fds[dataFileDescriptor].writable,
         label \in LineLabels => receive_buffer[c].seek = NoSeek
  PROVE  TurnInv'
<1> DEFINE f == fds[dataFileDescriptor]
<1>0. UNCHANGED <<dataFileDescriptor, clientSocketFd, receive_buffer,
                  bytes_received, inbox>>
  BY DEF OnlyPositionMoves
<1>1. /\ c \in Active /\ Turn(c) /\ SocketOpen(c) /\ DataFileOpen
      /\ clientSocketFd[c] # dataFileDescriptor
      /\ pc'[c] = label
  BY TurnFinds DEF Active, TurnInv, Turn, BothLabels, AcceptTypeOK
<1>2. f = [type |-> "device", pos |-> f.pos, writable |-> f.writable]
  BY <1>1 DEF DataFileOpen, TurnInv, FilesTyped
<1>3. PICK p : fds' \in {fds, [fds EXCEPT ![dataFileDescriptor].pos = p]}
  BY DEF OnlyPositionMoves
<1>4. \E q : fds' = [d \in FDs |-> IF d = dataFileDescriptor
                                  THEN [type |-> "device", pos |-> q,
                                        writable |-> f.writable]
                                  ELSE fds[d]]
  <2>1. CASE fds' = fds
    <3>1. fds' = [d \in FDs |-> IF d = dataFileDescriptor
                                THEN [type |-> "device", pos |-> f.pos,
                                      writable |-> f.writable]
                                ELSE fds[d]]
      BY <1>2, <2>1 DEF TurnInv, FilesTyped
    <3> QED
      BY <3>1
  <2>2. CASE fds' = [fds EXCEPT ![dataFileDescriptor].pos = p]
    <3>1. [f EXCEPT !.pos = p] = [type |-> "device", pos |-> p,
                                  writable |-> f.writable]
      BY <1>2
    <3>2. fds' = [d \in FDs |-> IF d = dataFileDescriptor
                                THEN [f EXCEPT !.pos = p] ELSE fds[d]]
      BY <1>1, <2>2 DEF DataFileOpen, TurnInv, FilesTyped
    <3>3. fds' = [d \in FDs |-> IF d = dataFileDescriptor
                                THEN [type |-> "device", pos |-> p,
                                      writable |-> f.writable]
                                ELSE fds[d]]
      BY <3>1, <3>2
    <3> QED
      BY <3>3
  <2> QED
    BY <1>3, <2>1, <2>2
<1>5. /\ fds' = [d \in FDs |-> fds'[d]]
      /\ \A d \in FDs \ {dataFileDescriptor} : fds'[d] = fds[d]
      /\ fds'[dataFileDescriptor].type = "device"
      /\ fds'[dataFileDescriptor].writable = f.writable
      /\ fds'[dataFileDescriptor] =
           [type |-> "device", pos |-> fds'[dataFileDescriptor].pos,
            writable |-> fds'[dataFileDescriptor].writable]
  BY <1>1, <1>4 DEF DataFileOpen
<1>6. FilesTyped' /\ BuffersTyped'
  BY <1>0, <1>5 DEF TurnInv, FilesTyped, BuffersTyped
<1>7. Unused' = Unused
  BY <1>1, <1>5 DEF Unused, DataFileOpen, NoFile
<1>8. SocketOpen(c)' /\ DataFileOpen'
  BY <1>0, <1>1, <1>5 DEF SocketOpen, DataFileOpen
<1>9. Turn(c)'
  BY <1>0, <1>1, <1>5, <1>7, <1>8
     DEF Turn, SocketLabels, BothLabels, DataLabels, LineLabels
<1>10. label \in Labels \ {"none", "pending", "ended"}
  BY DEF Labels, BothLabels
<1> QED
  BY <1>0, <1>1, <1>6, <1>9, <1>10, TurnGoesOn

LEMMA TurnIoctl ==
  ASSUME TurnInv, AcceptTypeOK, NEW c \in Clients, Ioctl(c)
  PROVE  TurnInv'
<1>1. /\ pc[c] = "ioctl" /\ receive_buffer[c].seek # NoSeek
      /\ NewlineFound(Received(c))
  BY DEF Ioctl, TurnInv, Turn
<1>2. pc' = [pc EXCEPT ![c] = "lock_read"]
  BY <1>1 DEF Ioctl, AfterChunk, Goto
<1>3. OnlyPositionMoves
  <2>1. \E p : fds' \in {fds, [fds EXCEPT ![dataFileDescriptor].pos = p]}
    BY DEF Ioctl
  <2> QED
    BY <2>1 DEF Ioctl, OnlyPositionMoves, buffers, net
<1> QED
  BY <1>1, <1>2, <1>3, TurnWithBoth DEF BothLabels, LineLabels

LEMMA TurnLock ==
  ASSUME TurnInv, AcceptTypeOK, NEW c \in Clients,
         \/ MutexLock(c, "lock_write", "write")
         \/ MutexLock(c, "lock_read", "read")
  PROVE  TurnInv'
<1>1. OnlyPositionMoves
  BY DEF MutexLock, OnlyPositionMoves, files, buffers, net
<1>2. Turn(c)
  BY DEF TurnInv
<1>3. CASE MutexLock(c, "lock_write", "write")
  <2>1. /\ pc[c] = "lock_write" /\ pc' = [pc EXCEPT ![c] = "write"]
        /\ fds[dataFileDescriptor].writable
        /\ receive_buffer[c].seek = NoSeek
    BY <1>2, <1>3 DEF MutexLock, Goto, Turn, LineLabels
  <2> QED
    BY <1>1, <2>1, TurnWithBoth DEF BothLabels
<1>4. CASE MutexLock(c, "lock_read", "read")
  <2>1. pc[c] = "lock_read" /\ pc' = [pc EXCEPT ![c] = "read"]
    BY <1>4 DEF MutexLock, Goto
  <2> QED
    BY <1>1, <2>1, TurnWithBoth DEF BothLabels, LineLabels
<1> QED
  BY <1>3, <1>4

(* The descriptor is that of the data file, so the write succeeds. *)
LEMMA TurnWrite ==
  ASSUME TurnInv, AcceptTypeOK, InTurn, NEW c \in Clients, Write(c)
  PROVE  TurnInv'
<1>0. "NOMEM" \notin Faults
  BY DEF InTurn
<1>1. /\ pc[c] = "write" /\ Turn(c)
      /\ At(dataFileDescriptor).type = "device"
      /\ At(dataFileDescriptor).writable
      /\ receive_buffer[c].seek = NoSeek
  BY TurnFinds DEF Write, TurnInv, Turn, BothLabels, LineLabels, At
<1>2. /\ pc' = [pc EXCEPT ![c] = "close_write"]
      /\ fds' = [fds EXCEPT ![dataFileDescriptor].pos =
                               @ + AppendIndex(Received(c))]
      /\ UNCHANGED <<dataFileDescriptor, clientSocketFd, buffers, net>>
  BY <1>0, <1>1 DEF Write, GiveUp, Goto
<1>3. OnlyPositionMoves
  BY <1>2 DEF OnlyPositionMoves, buffers, net
<1> QED
  BY <1>1, <1>2, <1>3, TurnWithBoth DEF BothLabels

LEMMA TurnRead ==
  ASSUME TurnInv, AcceptTypeOK, NEW c \in Clients, Read(c)
  PROVE  TurnInv'
<1>1. pc[c] = "read" /\ At(dataFileDescriptor).type = "device"
  BY TurnFinds DEF Read, BothLabels
<1>2. /\ pc' = [pc EXCEPT ![c] = "send"]
      /\ \E p : fds' = [fds EXCEPT ![dataFileDescriptor].pos = p]
      /\ UNCHANGED <<dataFileDescriptor, clientSocketFd, receive_buffer,
                     bytes_received, net>>
  BY <1>1 DEF Read, GiveUp, Goto
<1>3. OnlyPositionMoves
  BY <1>2 DEF OnlyPositionMoves, net
<1> QED
  BY <1>1, <1>2, <1>3, TurnWithBoth DEF BothLabels, LineLabels

LEMMA TurnSend ==
  ASSUME TurnInv, AcceptTypeOK, InTurn, NEW c \in Clients, Send(c)
  PROVE  TurnInv'
<1>1. pc[c] = "send"
  BY DEF Send
<1>2. At(clientSocketFd[c]).type = "socket" /\ "RESET" \notin Faults
  <2>1. At(clientSocketFd[c]) = Socket(c)
    BY <1>1, TurnFinds DEF BothLabels
  <2> QED
    BY <2>1 DEF Socket, InTurn
<1>3. PICK label \in {"close_client", "lock_read"} :
        pc' = [pc EXCEPT ![c] = label]
  BY <1>2 DEF Send, Goto
<1>4. OnlyPositionMoves
  BY <1>2 DEF Send, OnlyPositionMoves, files, buffers
<1>5. label \in BothLabels \ {"ioctl"} /\ label \notin LineLabels
      /\ label \notin {"lock_write", "write"} /\ pc[c] \in BothLabels
  BY <1>1 DEF BothLabels, LineLabels
<1> QED
  BY <1>3, <1>4, <1>5, TurnWithBoth

(* A close of one of the descriptors that are open. *)
LEMMA CloseLeaves ==
  ASSUME TurnInv, NEW d \in FDs, fds' = Closed(d)
  PROVE  /\ Unused' = Unused \union {d}
         /\ \A e \in FDs \ {d} : fds'[e] = fds[e]
         /\ FilesTyped'
<1>1. /\ fds' = [e \in FDs |-> fds'[e]]
      /\ \A e \in FDs : fds'[e] = IF e = d THEN NoFile ELSE fds[e]
      /\ NoFile.type # "device"
  BY DEF Closed, NoFile
<1> QED
  BY <1>1 DEF Unused, TurnInv, FilesTyped

LEMMA TurnCloseWrite ==
  ASSUME TurnInv, AcceptTypeOK, NEW c \in Clients, CloseWrite(c)
  PROVE  TurnInv'
<1>1. /\ pc[c] = "close_write" /\ c \in Active /\ Turn(c) /\ SocketOpen(c)
      /\ receive_buffer[c].seek = NoSeek
      /\ clientSocketFd[c] # dataFileDescriptor
      /\ dataFileDescriptor \in FDs
      /\ Unused = FDs \ {clientSocketFd[c], dataFileDescriptor}
      /\ fds' = Closed(dataFileDescriptor)
      /\ UNCHANGED <<clientSocketFd, receive_buffer, bytes_received, inbox>>
  BY TurnFinds DEF CloseWrite, Active, TurnInv, Turn, BothLabels, LineLabels,
                   buffers, net
<1>2. PICK label \in {"recv", "open_read"} :
        pc' = [pc EXCEPT ![c] = label] /\ pc'[c] = label
  BY <1>1 DEF CloseWrite, Goto, AfterChunk, AcceptTypeOK
<1>3. /\ Unused' = FDs \ {clientSocketFd[c]}
      /\ fds'[clientSocketFd[c]] = fds[clientSocketFd[c]]
      /\ FilesTyped'
  BY <1>1, CloseLeaves DEF SocketOpen
<1>4. SocketOpen(c)' /\ BuffersTyped'
  BY <1>1, <1>3 DEF SocketOpen, TurnInv, BuffersTyped
<1>5. Turn(c)'
  BY <1>1, <1>2, <1>3, <1>4
     DEF Turn, SocketLabels, BothLabels, DataLabels, LineLabels
<1> QED
  BY <1>1, <1>2, <1>3, <1>4, <1>5, TurnGoesOn DEF Labels

LEMMA TurnCloseClient ==
  ASSUME TurnInv, AcceptTypeOK, NEW c \in Clients, CloseClient(c)
  PROVE  TurnInv'
<1>1. /\ pc[c] = "close_client" /\ c \in Active /\ Turn(c) /\ DataFileOpen
      /\ clientSocketFd[c] # dataFileDescriptor /\ clientSocketFd[c] \in FDs
      /\ Unused = FDs \ {clientSocketFd[c], dataFileDescriptor}
      /\ fds' = Closed(clientSocketFd[c])
      /\ UNCHANGED <<dataFileDescriptor, clientSocketFd, receive_buffer,
                     bytes_received, inbox>>
  BY TurnFinds DEF CloseClient, Active, TurnInv, Turn, BothLabels, SocketOpen,
                   buffers, net
<1>2. pc' = [pc EXCEPT ![c] = "complete"] /\ pc'[c] = "complete"
  BY DEF CloseClient, Goto, AcceptTypeOK
<1>3. /\ Unused' = FDs \ {dataFileDescriptor}
      /\ fds'[dataFileDescriptor] = fds[dataFileDescriptor]
      /\ FilesTyped'
  BY <1>1, CloseLeaves DEF DataFileOpen
<1>4. DataFileOpen' /\ BuffersTyped'
  BY <1>1, <1>3 DEF DataFileOpen, TurnInv, BuffersTyped
<1>5. Turn(c)'
  BY <1>1, <1>2, <1>3, <1>4
     DEF Turn, SocketLabels, BothLabels, DataLabels, LineLabels
<1> QED
  BY <1>1, <1>2, <1>3, <1>4, <1>5, TurnGoesOn DEF Labels

LEMMA TurnComplete ==
  ASSUME TurnInv, AcceptTypeOK, NEW c \in Clients, Complete(c)
  PROVE  TurnInv'
<1>1. /\ pc[c] = "complete" /\ c \in Active /\ Turn(c) /\ DataFileOpen
      /\ Unused = FDs \ {dataFileDescriptor}
      /\ UNCHANGED <<fds, dataFileDescriptor, clientSocketFd, receive_buffer,
                     bytes_received, inbox>>
  BY DEF Complete, Active, TurnInv, Turn, DataLabels, files, buffers, net
<1>2. pc' = [pc EXCEPT ![c] = "close_data"] /\ pc'[c] = "close_data"
  BY DEF Complete, Goto, AcceptTypeOK
<1>3. FilesTyped' /\ BuffersTyped' /\ DataFileOpen' /\ Unused' = Unused
  BY <1>1 DEF TurnInv, FilesTyped, BuffersTyped, DataFileOpen, Unused
<1>4. Turn(c)'
  BY <1>1, <1>2, <1>3
     DEF Turn, SocketLabels, BothLabels, DataLabels, LineLabels
<1> QED
  BY <1>1, <1>2, <1>3, <1>4, TurnGoesOn DEF Labels

(* The last close: nothing is open any more. *)
LEMMA TurnCloseData ==
  ASSUME TurnInv, AcceptTypeOK, NEW c \in Clients, CloseData(c)
  PROVE  TurnInv'
<1>1. /\ pc[c] = "close_data" /\ c \in Active /\ Turn(c) /\ DataFileOpen
      /\ Unused = FDs \ {dataFileDescriptor}
      /\ fds' = Closed(dataFileDescriptor)
      /\ UNCHANGED <<clientSocketFd, receive_buffer, bytes_received, inbox>>
  BY DEF CloseData, Active, TurnInv, Turn, DataLabels, buffers, net
<1>2. pc' = [pc EXCEPT ![c] = "ended"] /\ pc'[c] = "ended"
  BY DEF CloseData, Goto, AcceptTypeOK
<1>3. Unused' = FDs /\ FilesTyped'
  BY <1>1, CloseLeaves DEF DataFileOpen
<1>4. BuffersTyped'
  BY <1>1 DEF TurnInv, BuffersTyped
<1>5. Turn(c)'
  BY <1>2 DEF Turn, SocketLabels, BothLabels, DataLabels, LineLabels
<1> QED
  BY <1>1, <1>2, <1>3, <1>4, <1>5, TurnGoesOn DEF Labels

LEMMA TurnHandler ==
  ASSUME TurnInv, AcceptTypeOK, InTurn, NEW c \in Clients, Handler(c)
  PROVE  TurnInv'
<1>1. CASE OpenDataFile(c, "open_seek", TRUE, "ioctl", "failed")
  BY <1>1, TurnOpen
<1>2. CASE OpenDataFile(c, "open_write", TRUE, "lock_write", "lock_write")
  BY <1>2, TurnOpen
<1>3. CASE OpenDataFile(c, "open_read", FALSE, "lock_read", "failed")
  BY <1>3, TurnOpen
<1>4. ~ Sigpipe(c)
  BY DEF Sigpipe, InTurn
<1> QED
  BY <1>1, <1>2, <1>3, <1>4, TurnRecv, TurnIoctl, TurnLock, TurnWrite,
     TurnCloseWrite, TurnRead, TurnSend, TurnCloseClient, TurnComplete,
     TurnCloseData DEF Handler

(* A client connects only when no other has the turn. *)
LEMMA TurnConnect ==
  ASSUME TurnInv, AcceptTypeOK, InTurn, NEW c \in Clients, Connect(c)
  PROVE  TurnInv'
<1>1. /\ pc[c] = "none" /\ pc' = [pc EXCEPT ![c] = "pending"]
      /\ Cardinality(Active) < MaxActive
      /\ \E request \in Requests : inbox' = [inbox EXCEPT ![c] = request]
      /\ UNCHANGED <<fds, dataFileDescriptor, clientSocketFd, receive_buffer,
                     bytes_received>>
  BY DEF Connect, Goto, files, buffers
<1>2. Active = {}
  <2>1. IsFiniteSet(Active)
    BY ServerAssumption, FS_Subset DEF Active
  <2>2. Cardinality(Active) \in Nat
    BY <2>1, FS_CardinalityType
  <2>3. Cardinality(Active) = 0
    BY <1>1, <2>2, ServerAssumption DEF InTurn
  <2> QED
    BY <2>1, <2>3, FS_EmptySet
<1>3. \A d \in Clients : pc[d] \in {"none", "ended"}
  BY <1>2 DEF Active, TurnInv, Turn
<1>4. /\ \A d \in Clients : pc'[d] = IF d = c THEN "pending" ELSE pc[d]
  BY <1>1 DEF AcceptTypeOK
<1>5. FilesTyped' /\ BuffersTyped'
  <2>1. \A request \in Requests : request \in Seq(Chunks)
    <3> SUFFICES ASSUME NEW request \in Requests
                 PROVE  request \in Seq(Chunks)
      OBVIOUS
    <3>1. request \in Seq(Chunk)
      BY ServerAssumption DEF Chunk
    <3>2. \A i \in 1 .. Len(request) : request[i] \in ToSet(request)
      BY <3>1 DEF ToSet
    <3>3. \A i \in 1 .. Len(request) : request[i] \in Chunks
      BY <3>2 DEF Chunks
    <3>4. request = [i \in 1 .. Len(request) |-> request[i]]
          /\ Len(request) \in Nat
      BY <3>1
    <3> QED
      BY <3>3, <3>4
  <2>2. inbox' \in [Clients -> Seq(Chunks)]
    BY <1>1, <2>1 DEF TurnInv, BuffersTyped
  <2> QED
    BY <1>1, <2>2 DEF TurnInv, FilesTyped, BuffersTyped
<1>6. Unused' = FDs
  BY <1>1, <1>3 DEF TurnInv, DescriptorsClosed, Unused
<1>7. OneAtATime' /\ DescriptorsClosed'
  BY <1>3, <1>4, <1>6 DEF OneAtATime, Active, DescriptorsClosed
<1>8. ASSUME NEW d \in Clients
      PROVE  Turn(d)'
  <2>1. pc'[d] \in {"none", "pending", "ended"}
    BY <1>3, <1>4
  <2>2. pc'[d] # "ended" => receive_buffer'[d].seek = NoSeek
    BY <1>1, <1>3, <1>4 DEF TurnInv, Turn, LineLabels
  <2> QED
    BY <2>1, <2>2 DEF Turn, SocketLabels, BothLabels, DataLabels, LineLabels
<1> QED
  BY <1>5, <1>7, <1>8 DEF TurnInv

(* It is accepted with every descriptor free. *)
LEMMA TurnAccept ==
  ASSUME TurnInv, AcceptInv, InTurn, Accept
  PROVE  TurnInv'
<1>1. backlog # <<>> /\ Head(backlog) = backlog[1] /\ backlog[1] \in Clients
  BY DEF Accept, AcceptInv, AcceptTypeOK
<1>2. PICK c \in Clients, s \in Unused :
        c = Head(backlog) /\ s = LowestUnused
  BY <1>1, LowestIsUnused DEF Accept
<1>3. /\ backlog # <<>>
      /\ fds' = [fds EXCEPT ![s] = Socket(c)]
      /\ clientSocketFd' = [clientSocketFd EXCEPT ![c] = s]
      /\ pc' = [pc EXCEPT ![c] = "recv"]
      /\ UNCHANGED <<dataFileDescriptor, receive_buffer, bytes_received, inbox>>
  BY <1>2 DEF Accept, Goto, InTurn, buffers, net
<1>4. c = backlog[1] /\ 1 \in 1 .. Len(backlog) /\ c \in Clients
  BY <1>1, <1>2, <1>3 DEF AcceptInv, AcceptTypeOK
<1>5. pc[c] = "pending" /\ c \in Active
  BY <1>4 DEF AcceptInv, BacklogPending, Active
<1>6. s \in FDs
  BY <1>2 DEF Unused
<1>7. Unused = FDs
  <2>1. \A d \in Clients \ {c} : pc[d] \in {"none", "unstarted", "ended", "failed"}
    BY <1>5 DEF TurnInv, OneAtATime, Active
  <2>2. \A d \in Clients : pc[d] \in {"none", "pending", "ended"}
    BY <1>5, <2>1 DEF TurnInv, Turn
  <2> QED
    BY <2>2 DEF TurnInv, DescriptorsClosed
<1>8. /\ \A d \in FDs : fds'[d] = IF d = s THEN Socket(c) ELSE fds[d]
      /\ fds' = [d \in FDs |-> fds'[d]]
      /\ Socket(c) # NoFile /\ Socket(c).type # "device"
  BY <1>3, <1>6 DEF TurnInv, FilesTyped, Socket, NoFile
<1>9. FilesTyped'
  BY <1>8 DEF TurnInv, FilesTyped
<1>10. BuffersTyped' /\ clientSocketFd'[c] = s
  BY <1>3, <1>4, <1>6 DEF TurnInv, BuffersTyped
<1>11. Unused' = FDs \ {s}
  BY <1>7, <1>8 DEF Unused
<1>12. pc'[c] = "recv" /\ AcceptTypeOK
  BY <1>3, <1>4 DEF AcceptInv, AcceptTypeOK
<1>13. Turn(c)'
  <2>1. SocketOpen(c)'
    BY <1>6, <1>8, <1>10 DEF SocketOpen
  <2>2. receive_buffer'[c].seek = NoSeek
    BY <1>3, <1>4, <1>5 DEF TurnInv, Turn, LineLabels
  <2> QED
    BY <1>10, <1>11, <1>12, <2>1, <2>2
       DEF Turn, SocketLabels, BothLabels, DataLabels, LineLabels
<1> QED
  BY <1>3, <1>5, <1>9, <1>10, <1>12, <1>13, TurnGoesOn DEF Labels

LEMMA TurnUnchanged ==
  ASSUME TurnInv,
         UNCHANGED <<fds, dataFileDescriptor, clientSocketFd, receive_buffer,
                     bytes_received, inbox, pc>>
  PROVE  TurnInv'
BY DEF TurnInv, FilesTyped, BuffersTyped, OneAtATime, Active,
       DescriptorsClosed, Unused, Turn, SocketOpen, DataFileOpen, Received

LEMMA TurnInit == Init => TurnInv
<1> SUFFICES ASSUME Init
             PROVE  TurnInv
  OBVIOUS
<1>1. /\ fds = [d \in FDs |-> NoFile] /\ pc = [c \in Clients |-> "none"]
      /\ clientSocketFd = [c \in Clients |-> ERROR]
      /\ receive_buffer = [c \in Clients |-> [seek |-> NoSeek, data |-> <<>>]]
      /\ bytes_received = [c \in Clients |-> 0]
      /\ inbox = [c \in Clients |-> <<>>]
  BY DEF Init
<1>2. FilesTyped
  BY <1>1 DEF FilesTyped, NoFile
<1>3. BuffersTyped
  BY <1>1 DEF BuffersTyped
<1>4. OneAtATime /\ DescriptorsClosed
  BY <1>1 DEF OneAtATime, Active, DescriptorsClosed, Unused
<1>5. \A c \in Clients : Turn(c)
  BY <1>1 DEF Turn, SocketLabels, BothLabels, DataLabels, LineLabels
<1> QED
  BY <1>2, <1>3, <1>4, <1>5 DEF TurnInv

LEMMA TurnNext ==
  ASSUME InTurn
  PROVE  AcceptInv /\ TurnInv /\ [Next]_vars => TurnInv'
<1> SUFFICES ASSUME AcceptInv, TurnInv, [Next]_vars
             PROVE  TurnInv'
  OBVIOUS
<1>1. AcceptTypeOK
  BY DEF AcceptInv
<1>2. CASE Main
  <2>1. CASE Accept
    BY <2>1, TurnAccept
  <2>2. CASE ~ Accept
    BY <1>2, <2>2, TurnUnchanged DEF Main, AcceptFails, files, buffers, net
  <2> QED
    BY <2>1, <2>2
<1>3. ASSUME NEW c \in Clients, Handler(c)
      PROVE  TurnInv'
  BY <1>1, <1>3, TurnHandler
<1>4. ASSUME NEW c \in Clients, Connect(c)
      PROVE  TurnInv'
  BY <1>1, <1>4, TurnConnect
<1>5. CASE UNCHANGED vars
  BY <1>5, TurnUnchanged DEF vars, files, buffers, net
<1> QED
  BY <1>2, <1>3, <1>4, <1>5 DEF Next

LEMMA TurnAlways ==
  ASSUME InTurn
  PROVE  Spec => []TurnInv
<1>1. AcceptInv /\ [Next]_vars => AcceptInv'
  BY AcceptInvStep
<1> QED
  BY <1>1, InitAccepts, TurnInit, TurnNext, PTL DEF Spec

(* Clients that come one after the other are all served: no thread gives    *)
(* up, whatever they send, as long as a seek and its newline come together. *)
THEOREM ClientsInTurnAreServed ==
  ASSUME MaxActive <= 1, Faults \subseteq {"MALLOC", "EOF"},
         SeeksAreWhole, \E d, e \in FDs : d # e
  PROVE  Spec => []ClientsAreServed
<1>1. InTurn
  BY DEF InTurn
<1>2. TurnInv => ClientsAreServed
  BY DEF TurnInv, Turn, ClientsAreServed
<1> QED
  BY <1>1, <1>2, TurnAlways, PTL

(* Under the same conditions no descriptor is open when no client has the   *)
(* turn.                                                                    *)
THEOREM DescriptorsAreClosed ==
  ASSUME MaxActive <= 1, Faults \subseteq {"MALLOC", "EOF"},
         SeeksAreWhole, \E d, e \in FDs : d # e
  PROVE  Spec => []DescriptorsClosed
<1>1. InTurn
  BY DEF InTurn
<1>2. TurnInv => DescriptorsClosed
  BY DEF TurnInv
<1> QED
  BY <1>1, <1>2, TurnAlways, PTL

-----------------------------------------------------------------------------
(* What the device holds *)

Entry == [buffptr : {NULL} \union Seq(Byte), size : Nat]

(* A buffer that holds lines of bytes, as an addition finds and leaves it.  *)
Kept(b) ==
  /\ b \in Buffers(Entry) /\ WellShaped(b)
  /\ \A i \in Filled(b) : /\ b.entry[i].buffptr \in Seq(Byte)
                          /\ b.entry[i].size = Len(b.entry[i].buffptr)

LinesOf(b) == [i \in 1 .. Count(b) |-> Contents(b)[i].buffptr]

DeviceKept == Kept(buffer) /\ partial \in Seq(Byte)

(* Its n lines, one for each slot that is filled. *)
Lists(b, lines, n) ==
  /\ n \in 0 .. MAX_OPS /\ n = Count(b) /\ n \in Nat
  /\ lines \in Seq(Seq(Byte)) /\ Len(lines) = n
  /\ \A i \in 1 .. n : lines[i] = b.entry[Slot(b, i - 1)].buffptr

LEMMA LinesTyped ==
  ASSUME NEW b, Kept(b)
  PROVE  Lists(b, LinesOf(b), Count(b)) /\ Carries(b, LinesOf(b), Byte)
<1>0. PICK lines : lines = LinesOf(b)
  OBVIOUS
<1>1. /\ Count(b) \in 0 .. MAX_OPS
      /\ \A i \in 1 .. Count(b) : Slot(b, i - 1) \in Filled(b)
  BY ContentsPlaces DEF Kept
<1>2. PICK n \in Nat : n = Count(b)
  BY <1>1, MaxOpsAssumption
<1>3. ASSUME NEW i \in 1 .. n
      PROVE  /\ lines[i] = b.entry[Slot(b, i - 1)].buffptr
             /\ lines[i] \in Seq(Byte)
             /\ Len(lines[i]) = b.entry[Slot(b, i - 1)].size
  <2>1. lines[i] = b.entry[Slot(b, i - 1)].buffptr
    BY <1>0, <1>2 DEF LinesOf, Contents
  <2>2. PICK s \in Filled(b) : s = Slot(b, i - 1)
    BY <1>1, <1>2
  <2> QED
    BY <2>1, <2>2 DEF Kept
<1>4. lines = [i \in 1 .. n |-> lines[i]]
  BY <1>0, <1>2 DEF LinesOf
<1>5. lines \in Seq(Seq(Byte)) /\ Len(lines) = n
  BY <1>3, <1>4
<1>6. Carries(b, lines, Byte)
  BY <1>2, <1>3, <1>5 DEF Carries
<1>7. Lists(b, lines, n)
  BY <1>1, <1>2, <1>3, <1>5 DEF Lists
<1> QED
  BY <1>0, <1>2, <1>6, <1>7

LEMMA CommandsTyped ==
  DeviceKept => /\ Commands \in Seq(Seq(Byte)) /\ Content \in Seq(Byte)
                /\ Carries(buffer, Commands, Byte)
<1> SUFFICES ASSUME DeviceKept
             PROVE  /\ Commands \in Seq(Seq(Byte)) /\ Content \in Seq(Byte)
                    /\ Carries(buffer, Commands, Byte)
  OBVIOUS
<1>1. Commands = LinesOf(buffer)
  BY DEF Commands, LinesOf
<1>2. Commands \in Seq(Seq(Byte)) /\ Carries(buffer, Commands, Byte)
  BY <1>1, LinesTyped DEF DeviceKept, Lists
<1> QED
  BY <1>2, FlattenTyped DEF Content

(* What a write adds: the data up to its newline. *)
Taken(data) == SubSeq(data, 1, AppendIndex(data))

LEMMA TakenTyped ==
  ASSUME NEW data \in Seq(Byte)
  PROVE  Taken(data) \in Seq(Byte) /\ Len(Taken(data)) = AppendIndex(data)
         /\ AppendIndex(data) \in 0 .. Len(data)
<1>1. PICK n \in 0 .. Len(data) : n = AppendIndex(data)
  BY AppendIndexBounds
<1>2. SubSeq(data, 1, n) \in Seq(Byte) /\ Len(SubSeq(data, 1, n)) = n
  OBVIOUS
<1> QED
  BY <1>1, <1>2 DEF Taken

(* An entry more: the lines shift, the oldest of a full buffer goes.        *)
LEMMA AddedLine ==
  ASSUME NEW d, Kept(d), NEW line \in Seq(Byte),
         NEW b, b = AddEntry(d, [buffptr |-> line, size |-> Len(line)])
  PROVE  /\ Kept(b)
         /\ LinesOf(b) = IF d.full THEN Append(Tail(LinesOf(d)), line)
                         ELSE Append(LinesOf(d), line)
         /\ d.full => LinesOf(d) # <<>> /\ b.full
<1> DEFINE e == [buffptr |-> line, size |-> Len(line)]
<1>1. e \in Entry /\ d \in Buffers(Entry) /\ WellShaped(d)
  BY DEF Entry, Kept
<1>2. /\ b \in Buffers(Entry) /\ WellShaped(b)
      /\ Filled(b) = Filled(d) \union {d.in_offs}
      /\ Count(b) = IF d.full THEN MAX_OPS ELSE Count(d) + 1
      /\ \A i \in 1 .. Count(b) :
           IF i = Count(b)
           THEN Slot(b, i - 1) = d.in_offs
           ELSE /\ Slot(b, i - 1) # d.in_offs
                /\ Slot(b, i - 1) \in Filled(d)
                /\ Slot(b, i - 1) = Slot(d, IF d.full THEN i ELSE i - 1)
  BY <1>1, AddedContents
<1>3. \A i \in Slots : b.entry[i] = IF i = d.in_offs THEN e ELSE d.entry[i]
  BY <1>1, AddEntryType
<1>4. ASSUME NEW i \in Filled(b)
      PROVE  b.entry[i].buffptr \in Seq(Byte)
             /\ b.entry[i].size = Len(b.entry[i].buffptr)
  <2>1. i \in Slots
    BY DEF Filled
  <2>2. CASE i = d.in_offs
    BY <1>3, <2>1, <2>2
  <2>3. CASE i # d.in_offs
    BY <1>2, <1>3, <2>1, <2>3 DEF Kept
  <2> QED
    BY <2>2, <2>3
<1>5. Kept(b)
  BY <1>2, <1>4 DEF Kept
<1>6. PICK old, n : old = LinesOf(d) /\ n = Count(d) /\ Lists(d, old, n)
  BY LinesTyped
<1>7. PICK new, m : new = LinesOf(b) /\ m = Count(b) /\ Lists(b, new, m)
  BY <1>5, LinesTyped
<1>0. /\ n \in Nat /\ old \in Seq(Seq(Byte)) /\ Len(old) = n
      /\ m \in Nat /\ new \in Seq(Seq(Byte)) /\ Len(new) = m
  BY <1>6, <1>7 DEF Lists
<1> USE <1>0 DEF Lists
<1>8. /\ MAX_OPS \in Nat /\ MAX_OPS > 0
      /\ d.full => n = MAX_OPS
  BY <1>1, <1>6, MaxOpsAssumption, ContentsPlaces
<1>9. m = IF d.full THEN n ELSE n + 1
  BY <1>2, <1>6, <1>7, <1>8
<1>10. new[m] = line /\ m > 0
  <2>1. m \in 1 .. m
    BY <1>8, <1>9
  <2>2. Slot(b, m - 1) = d.in_offs /\ d.in_offs \in Slots
    BY <1>1, <1>2, <1>7, <2>1 DEF Buffers
  <2>3. new[m] = b.entry[d.in_offs].buffptr
    BY <1>7, <2>1, <2>2
  <2>4. b.entry[d.in_offs] = e
    BY <1>3, <2>2
  <2> QED
    BY <1>8, <1>9, <2>3, <2>4
<1>11. ASSUME NEW i \in 1 .. m, i # m
       PROVE  new[i] = IF d.full THEN old[i + 1] ELSE old[i]
  <2>1. /\ Slot(b, i - 1) # d.in_offs
        /\ Slot(b, i - 1) \in Filled(d)
        /\ Slot(b, i - 1) = Slot(d, IF d.full THEN i ELSE i - 1)
    BY <1>2, <1>7, <1>11
  <2>2. new[i] = d.entry[Slot(b, i - 1)].buffptr
    BY <1>3, <1>7, <2>1 DEF Filled
  <2>3. CASE d.full
    <3>1. i + 1 \in 1 .. n /\ (i + 1) - 1 = i
      BY <1>9, <1>11, <2>3
    <3> QED
      BY <1>6, <2>1, <2>2, <2>3, <3>1
  <2>4. CASE ~ d.full
    <3>1. i \in 1 .. n
      BY <1>9, <1>11, <2>4
    <3> QED
      BY <1>6, <2>1, <2>2, <2>4, <3>1
  <2> QED
    BY <2>3, <2>4
<1>12. CASE d.full
  <2>1. old # <<>> /\ Tail(old) \in Seq(Seq(Byte)) /\ Len(Tail(old)) = n - 1
        /\ \A i \in 1 .. n - 1 : Tail(old)[i] = old[i + 1]
    BY <1>6, <1>8, <1>12
  <2>2. PICK want \in Seq(Seq(Byte)) : want = Append(Tail(old), line)
    BY <2>1, AppendProperties
  <2>3. Len(want) = n /\ want[n] = line
        /\ \A i \in 1 .. n - 1 : want[i] = old[i + 1]
    BY <2>1, <2>2
  <2>4. ASSUME NEW i \in 1 .. m
        PROVE  new[i] = want[i]
    <3>1. m = n
      BY <1>9, <1>12
    <3>2. CASE i = m
      BY <1>10, <2>3, <3>1, <3>2
    <3>3. CASE i # m
      <4>1. i \in 1 .. n - 1
        BY <3>1, <3>3
      <4>2. new[i] = old[i + 1]
        BY <1>11, <1>12, <3>3
      <4> QED
        BY <2>3, <4>1, <4>2
    <3> QED
      BY <3>2, <3>3
  <2>6. new = want
    BY <1>9, <1>12, <2>3, <2>4, SeqEqual
  <2>5. b.full
    BY <1>12 DEF AddEntry
  <2> QED
    BY <1>5, <1>6, <1>7, <1>12, <2>1, <2>2, <2>5, <2>6
<1>13. CASE ~ d.full
  <2>1. PICK want \in Seq(Seq(Byte)) : want = Append(old, line)
    BY AppendProperties
  <2>2. Len(want) = n + 1 /\ want[n + 1] = line
        /\ \A i \in 1 .. n : want[i] = old[i]
    BY <1>6, <2>1
  <2>3. m = n + 1
    BY <1>9, <1>13
  <2>4. ASSUME NEW i \in 1 .. m
        PROVE  new[i] = want[i]
    <3>1. CASE i = m
      BY <1>10, <2>2, <2>3, <3>1
    <3>2. CASE i # m
      <4>1. i \in 1 .. n
        BY <2>3, <3>2
      <4> QED
        BY <1>11, <1>13, <2>2, <3>2, <4>1
    <3> QED
      BY <3>1, <3>2
  <2>5. new = want
    BY <1>9, <2>1, <2>2, <2>3, <2>4, SeqEqual
  <2> QED
    BY <1>5, <1>6, <1>7, <1>13, <2>1, <2>5
<1> QED
  BY <1>12, <1>13

(* Sequences put together in another order of brackets. *)
Associate(s, t, u) == s \o (t \o u) = (s \o t) \o u

LEMMA SequencesAssociate ==
  ASSUME NEW S, NEW s \in Seq(S), NEW t \in Seq(S), NEW u \in Seq(S)
  PROVE  Associate(s, t, u)
  BY Associates DEF Associate

LEMMA Regroup ==
  ASSUME NEW S, NEW a \in Seq(S), NEW b \in Seq(S), NEW c \in Seq(S)
  PROVE  /\ (a \o b) \o c = <<>> \o (a \o (b \o c))
         /\ (a \o b) \o c = <<>> \o ((a \o (b \o c)) \o <<>>)
<1>1. PICK bc \in Seq(S), abc \in Seq(S) : bc = b \o c /\ abc = a \o bc
  BY ConcatProperties
<1>2. Associate(a, b, c)
  BY SequencesAssociate
<1>3. <<>> \o abc = abc /\ abc \o <<>> = abc
  BY ConcatEmptySeq
<1> QED
  BY <1>1, <1>2, <1>3, Zenon DEF Associate

Regroups(a, b, c, d) ==
  ((a \o b) \o c) \o d = a \o ((b \o (c \o d)) \o <<>>)

LEMMA RegroupRest ==
  ASSUME NEW S, NEW a \in Seq(S), NEW b \in Seq(S), NEW c \in Seq(S),
         NEW d \in Seq(S)
  PROVE  Regroups(a, b, c, d)
<1>1. PICK ab \in Seq(S), cd \in Seq(S), bcd \in Seq(S) :
        ab = a \o b /\ cd = c \o d /\ bcd = b \o cd
  BY ConcatProperties
<1>2. Associate(ab, c, d) /\ Associate(a, b, cd)
  BY SequencesAssociate
<1>3. bcd \o <<>> = bcd
  BY ConcatEmptySeq
<1> QED
  BY <1>1, <1>2, <1>3, Zenon DEF Regroups, Associate

LEMMA FlattenFirst ==
  ASSUME NEW S, NEW q \in Seq(Seq(S)), q # <<>>
  PROVE  /\ Head(q) \in Seq(S) /\ Tail(q) \in Seq(Seq(S))
         /\ FlattenSeq(q) = Head(q) \o FlattenSeq(Tail(q))
<1>1. Head(q) \in Seq(S) /\ Tail(q) \in Seq(Seq(S))
  BY HeadTailProperties
<1>2. PICK first \in Seq(S), rest \in Seq(Seq(S)) :
        first = Head(q) /\ rest = Tail(q)
  BY <1>1
<1>3. PICK one \in Seq(Seq(S)) : one = <<first>>
  <2>1. <<first>> = Append(<<>>, first) /\ <<>> \in Seq(Seq(S))
    OBVIOUS
  <2> QED
    BY <2>1, AppendProperties
<1>4. q = one \o rest
  BY <1>2, <1>3
<1>5. FlattenSeq(one) = first
  BY <1>3, FlattenOne
<1> QED
  BY <1>2, <1>4, <1>5, FlattenConcat

(* The device takes the data up to the newline, and gives up what is old.   *)
Takes(old, data) ==
  /\ (Content \o partial) \o Taken(data) = old \o (Content' \o partial')
  /\ ~ buffer.full => old = <<>>
  /\ buffer.full => buffer'.full

LEMMA WriteStores ==
  ASSUME DeviceKept, NEW data \in Seq(Byte), DeviceWrite(data)
  PROVE  DeviceKept' /\ \E old \in Seq(Byte) : Takes(old, data)
<1>1. PICK t \in Seq(Byte), line \in Seq(Byte) :
        t = Taken(data) /\ line = partial \o t
  BY TakenTyped, ConcatProperties DEF DeviceKept
<1>2. /\ Commands \in Seq(Seq(Byte)) /\ Content \in Seq(Byte)
      /\ partial \in Seq(Byte)
  BY CommandsTyped DEF DeviceKept
<1>3. /\ Commands = LinesOf(buffer) /\ Commands' = LinesOf(buffer')
      /\ Content = FlattenSeq(Commands) /\ Content' = FlattenSeq(Commands')
  BY DEF Commands, LinesOf, Content
<1>4. <<>> \in Seq(Byte)
  OBVIOUS
<1>5. CASE ~ NewlineFound(data)
  <2>1. buffer' = buffer /\ partial' = line
    BY <1>1, <1>5 DEF DeviceWrite, Taken
  <2>2. DeviceKept' /\ Content' = Content
    BY <1>1, <1>3, <2>1 DEF DeviceKept
  <2>3. (Content \o partial) \o t = <<>> \o (Content \o line)
    BY <1>1, <1>2, Regroup
  <2>4. Takes(<<>>, data)
    BY <1>1, <2>1, <2>2, <2>3 DEF Takes
  <2> QED
    BY <1>4, <2>2, <2>4
<1>6. CASE NewlineFound(data)
  <2>1. /\ buffer' = AddEntry(buffer, [buffptr |-> line, size |-> Len(line)])
        /\ partial' = <<>>
    BY <1>1, <1>6 DEF DeviceWrite, Taken
  <2>2. /\ Kept(buffer')
        /\ Commands' = IF buffer.full THEN Append(Tail(Commands), line)
                       ELSE Append(Commands, line)
        /\ buffer.full => Commands # <<>> /\ buffer'.full
    BY <1>3, <2>1, AddedLine DEF DeviceKept
  <2>3. DeviceKept'
    BY <1>4, <2>1, <2>2 DEF DeviceKept
  <2>4. CASE buffer.full
    <3>0. /\ Head(Commands) \in Seq(Byte)
          /\ Tail(Commands) \in Seq(Seq(Byte))
          /\ Content = Head(Commands) \o FlattenSeq(Tail(Commands))
      BY <1>2, <1>3, <2>2, <2>4, FlattenFirst
    <3>1. PICK first \in Seq(Byte), rest \in Seq(Seq(Byte)) :
            /\ first = Head(Commands) /\ rest = Tail(Commands)
            /\ Content = first \o FlattenSeq(rest)
      BY <3>0
    <3>2. PICK r \in Seq(Byte) : r = FlattenSeq(rest)
      BY FlattenTyped
    <3>3. Content' = r \o line
      BY <1>3, <2>2, <2>4, <3>1, <3>2, FlattenAppend
    <3>6. PICK tail \in Seq(Byte) : tail = partial
      BY <1>2
    <3>7. Regroups(first, r, tail, t)
      BY RegroupRest
    <3>5. (Content \o partial) \o t = first \o ((r \o line) \o <<>>)
      BY <1>1, <3>1, <3>2, <3>6, <3>7, Zenon DEF Regroups
    <3>4. Takes(first, data)
      BY <1>1, <2>1, <2>2, <2>4, <3>3, <3>5 DEF Takes
    <3> QED
      BY <2>3, <3>4
  <2>5. CASE ~ buffer.full
    <3>1. Content' = Content \o line
      BY <1>2, <1>3, <2>2, <2>5, FlattenAppend
    <3>3. (Content \o partial) \o t = <<>> \o ((Content \o line) \o <<>>)
      BY <1>1, <1>2, Regroup
    <3>2. Takes(<<>>, data)
      BY <1>1, <2>1, <2>5, <3>1, <3>3 DEF Takes
    <3> QED
      BY <1>4, <2>3, <3>2
  <2> QED
    BY <2>4, <2>5
<1> QED
  BY <1>5, <1>6

(* What one read delivers: nothing at the end, else a piece of the content. *)
Delivers(pos) ==
  IF pos >= Len(Content)
  THEN DeviceRead(pos) = <<>>
  ELSE \E n \in Nat \ {0} :
         /\ pos + n <= Len(Content)
         /\ DeviceRead(pos) = SubSeq(Content, pos + 1, pos + n)
         /\ Len(DeviceRead(pos)) = n

LEMMA ReadDelivers ==
  ASSUME DeviceKept, NEW pos \in Nat
  PROVE  Delivers(pos) /\ DeviceRead(pos) \in Seq(Byte)
<1>1. /\ buffer \in Buffers(Entry) /\ WellShaped(buffer)
      /\ Commands \in Seq(Seq(Byte)) /\ Content \in Seq(Byte)
      /\ Carries(buffer, Commands, Byte)
  BY CommandsTyped DEF DeviceKept, Kept
<1>2. Finds(buffer, Commands, pos)
  BY <1>1, FindsPlace
<1>3. PICK lines, n : /\ lines = Commands /\ n = Count(buffer)
                      /\ Lists(buffer, lines, n)
  <2>1. Commands = LinesOf(buffer)
    BY DEF Commands, LinesOf
  <2> QED
    BY <2>1, LinesTyped DEF DeviceKept
<1>4. CASE pos >= Len(Content)
  <2>1. FindEntry(buffer, pos) = NotFound
    BY <1>2, <1>4 DEF Finds, Content
  <2>2. DeviceRead(pos) = <<>>
    BY <2>1 DEF DeviceRead
  <2> QED
    BY <1>4, <2>2 DEF Delivers
<1>5. CASE ~ (pos >= Len(Content))
  <2>1. PICK i \in 1 .. n : \E k \in 1 .. Len(lines[i]) :
          /\ pos + 1 = Len(Upto(lines, i - 1)) + k
          /\ FindEntry(buffer, pos) =
               [slot |-> Slot(buffer, i - 1), byte |-> k - 1]
    BY <1>2, <1>3, <1>5 DEF Finds, Content
  <2>2. PICK k \in 1 .. Len(lines[i]) :
          /\ pos + 1 = Len(Upto(lines, i - 1)) + k
          /\ FindEntry(buffer, pos) =
               [slot |-> Slot(buffer, i - 1), byte |-> k - 1]
    BY <2>1
  <2>3. /\ i \in 1 .. Len(lines) /\ lines \in Seq(Seq(Byte))
        /\ lines[i] = buffer.entry[Slot(buffer, i - 1)].buffptr
        /\ Len(lines[i]) = buffer.entry[Slot(buffer, i - 1)].size
    BY <1>1, <1>3 DEF Lists, Carries
  <2>4. PICK line \in Seq(Byte), h \in Nat : line = lines[i] /\ h = Len(line)
    BY <2>3
  <2>5. k \in 1 .. h /\ k \in Nat /\ k >= 1 /\ k <= h /\ h - k + 1 \in Nat \ {0}
    BY <2>4
  <2>6. PICK s \in Slots : s = Slot(buffer, i - 1)
    <3>1. Slot(buffer, i - 1) \in Filled(buffer)
      BY <1>1, <1>3, ContentsPlaces
    <3> QED
      BY <3>1 DEF Filled
  <2>7. FindEntry(buffer, pos) = [slot |-> s, byte |-> k - 1]
        /\ s # -1
    BY <2>2, <2>6, MaxOpsAssumption DEF Slots
  <2>8. DeviceRead(pos) = SubSeq(line, k, h)
    <3>1. [slot |-> s, byte |-> k - 1] # NotFound
      BY <2>7 DEF NotFound
    <3>2. buffer.entry[s].buffptr = line /\ buffer.entry[s].size = h
      BY <2>3, <2>4, <2>6
    <3>3. PICK hit : hit = FindEntry(buffer, pos)
      OBVIOUS
    <3>4. hit.slot = s /\ hit.byte = k - 1 /\ hit # NotFound
      BY <2>7, <3>1, <3>3
    <3>5. DeviceRead(pos) = SubSeq(buffer.entry[hit.slot].buffptr, hit.byte + 1,
                                  buffer.entry[hit.slot].size)
      BY <3>3, <3>4 DEF DeviceRead
    <3>6. hit.byte + 1 = k
      BY <2>5, <3>4
    <3> QED
      BY <3>2, <3>4, <3>5, <3>6, Zenon
  <2>9. PICK n1 \in Nat \ {0} : n1 = h - k + 1
    BY <2>5
  <2>10. PICK upto \in Nat : upto = Len(Upto(lines, i - 1)) /\ pos + 1 = upto + k
    BY <2>2, <2>3, UptoGrows
  <2>11. SubSeq(Content, pos + 1, (pos + 1) + n1 - 1) = SubSeq(line, k, k + n1 - 1)
    <3>1. n1 \in 0 .. Len(lines[i]) - k + 1
      BY <2>4, <2>5, <2>9
    <3>2. k \in 1 .. Len(lines[i])
      BY <2>2
    <3>0. i \in 1 .. Len(lines) /\ lines \in Seq(Seq(Byte))
      BY <2>3
    <3>3. PICK at : at = pos + 1
      OBVIOUS
    <3>4. at = Len(Upto(lines, i - 1)) + k
      BY <2>2, <3>3
    <3>5. Slices(lines, i, k, n1, at)
      BY <3>0, <3>1, <3>2, <3>4, FlattenPiece
    <3>6. FlattenSeq(lines) = Content
      BY <1>3 DEF Content
    <3> QED
      BY <2>4, <3>3, <3>5, <3>6, Zenon DEF Slices
  <2>12. upto + h \in 1 .. Len(Content)
    <3>1. h \in 1 .. h
      BY <2>4, <2>5
    <3> QED
      BY <1>3, <2>3, <2>4, <2>10, <3>1, FlattenByte DEF Content
  <2>13. /\ (pos + 1) + n1 - 1 = pos + n1 /\ k + n1 - 1 = h
         /\ pos + n1 = upto + h
    <3>1. h \in Nat /\ n1 \in Nat /\ k \in Nat /\ pos \in Nat /\ upto \in Nat
      BY <2>4, <2>5, <2>9, <2>10
    <3> QED
      BY <2>9, <2>10, <3>1
  <2>14. SubSeq(line, k, h) \in Seq(Byte) /\ Len(SubSeq(line, k, h)) = n1
    BY <2>4, <2>5, <2>9
  <2>15. DeviceRead(pos) = SubSeq(Content, pos + 1, pos + n1)
    BY <2>8, <2>11, <2>13
  <2>16. pos + n1 <= Len(Content)
    BY <2>12, <2>13, <1>1
  <2> QED
    BY <1>5, <2>8, <2>14, <2>15, <2>16 DEF Delivers
<1> QED
  BY <1>4, <1>5

-----------------------------------------------------------------------------
(* The types of what the threads use *)

DeviceFile == [type : {"device"}, pos : Nat, writable : BOOLEAN]

File == {NoFile} \union {Socket(c) : c \in Clients} \union DeviceFile

FilesTypeOK ==
  /\ fds \in [FDs -> File]
  /\ dataFileDescriptor \in FDs \union {0, ERROR}
  /\ clientSocketFd \in [Clients -> FDs \union {ERROR}]
  /\ lock \in Clients \union {NOBODY}

BytesTypeOK ==
  /\ receive_buffer \in [Clients -> Chunk]
  /\ bytes_received \in [Clients -> Nat]
  /\ \A c \in Clients : bytes_received[c] <= Len(receive_buffer[c].data)
  /\ send_buffer \in [Clients -> Seq(Byte)]
  /\ inbox \in [Clients -> Seq(Chunk)]
  /\ reply \in [Clients -> Seq(Byte)]
  /\ received \in Seq(Byte)

DataTypeOK == DeviceKept /\ FilesTypeOK /\ BytesTypeOK

LEMMA FileKinds ==
  ASSUME FilesTypeOK, NEW d
  PROVE  /\ At(d).type \in {"none", "socket", "device"}
         /\ At(d).type = "device" => d \in FDs /\ fds[d] = At(d)
                                     /\ At(d) \in DeviceFile
         /\ At(d).type = "socket" => /\ d \in FDs /\ fds[d] = At(d)
                                     /\ At(d).conn \in Clients
                                     /\ At(d) = Socket(At(d).conn)
<1>1. At(d) \in File /\ (d \notin FDs => At(d) = NoFile)
      /\ (d \in FDs => At(d) = fds[d])
  BY DEF FilesTypeOK, At, File
<1>2. CASE At(d) = NoFile
  BY <1>1, <1>2 DEF NoFile
<1>3. CASE \E c \in Clients : At(d) = Socket(c)
  <2>1. PICK c \in Clients : At(d) = Socket(c)
    BY <1>3
  <2>2. At(d).type = "socket" /\ At(d).conn = c
    BY <2>1 DEF Socket
  <2>3. d \in FDs
    BY <1>1, <2>2 DEF NoFile
  <2> QED
    BY <1>1, <2>1, <2>2, <2>3
<1>4. CASE At(d) \in DeviceFile
  <2>1. At(d).type = "device"
    BY <1>4 DEF DeviceFile
  <2>2. d \in FDs
    BY <1>1, <2>1 DEF NoFile
  <2> QED
    BY <1>1, <1>4, <2>1, <2>2
<1> QED
  BY <1>1, <1>2, <1>3, <1>4 DEF File

(* The position of a data file moves. *)
LEMMA MovedFile ==
  ASSUME FilesTypeOK, NEW d, At(d).type = "device", NEW p \in Nat,
         fds' = [fds EXCEPT ![d].pos = p]
  PROVE  /\ fds' \in [FDs -> File]
         /\ d \in FDs /\ fds'[d].pos = p /\ fds'[d] \in DeviceFile
         /\ \A e \in FDs \ {d} : fds'[e] = fds[e]
<1>1. d \in FDs /\ fds[d] \in DeviceFile
  BY FileKinds
<1>2. [fds[d] EXCEPT !.pos = p] \in DeviceFile
      /\ [fds[d] EXCEPT !.pos = p].pos = p
  BY <1>1 DEF DeviceFile
<1>3. /\ fds \in [FDs -> File]
      /\ fds' = [fds EXCEPT ![d] = [fds[d] EXCEPT !.pos = p]]
  BY DEF FilesTypeOK
<1> QED
  BY <1>1, <1>2, <1>3 DEF File

LEMMA TypedOpen ==
  ASSUME DataTypeOK, NEW c \in Clients, NEW writable \in BOOLEAN,
         NEW label, NEW next, NEW onError,
         OpenDataFile(c, label, writable, next, onError)
  PROVE  DataTypeOK'
<1>1. UNCHANGED <<device, lock, clientSocketFd, buffers, net, received>>
  BY DEF OpenDataFile
<1>2. DataFile(writable) \in File
  BY DEF DataFile, File, DeviceFile
<1>3. fds' \in [FDs -> File] /\ dataFileDescriptor' \in FDs \union {0, ERROR}
  <2>1. CASE Unused # {}
    <3>1. LowestUnused \in FDs
      BY <2>1, LowestIsUnused DEF Unused
    <3>2. PICK d \in FDs : d = LowestUnused
      BY <3>1
    <3> QED
      BY <1>2, <3>2 DEF OpenDataFile, DataTypeOK, FilesTypeOK
  <2>2. CASE Unused = {}
    BY <2>2 DEF OpenDataFile, DataTypeOK, FilesTypeOK
  <2> QED
    BY <2>1, <2>2
<1> QED
  BY <1>1, <1>3 DEF DataTypeOK, FilesTypeOK, BytesTypeOK, DeviceKept, device,
                    buffers, net

LEMMA ReceivedTyped ==
  ASSUME BytesTypeOK, NEW c \in Clients
  PROVE  Received(c) \in Seq(Byte) /\ Len(Received(c)) = bytes_received[c]
<1>1. PICK n \in Nat, data \in Seq(Byte) :
        /\ n = bytes_received[c] /\ data = receive_buffer[c].data
        /\ n <= Len(data)
  BY DEF BytesTypeOK, Chunk
<1> QED
  BY <1>1 DEF Received

LEMMA RequestsTyped ==
  ASSUME NEW chunk \in Chunk
  PROVE  /\ chunk.data \in Seq(Byte) /\ Stored(chunk) \in Seq(Byte)
         /\ chunk.seek = NoSeek => Stored(chunk) = chunk.data
         /\ chunk.seek # NoSeek => Stored(chunk) = <<>>
BY DEF Chunk, Stored

LEMMA TypedRecv ==
  ASSUME DataTypeOK, NEW c \in Clients, Recv(c)
  PROVE  DataTypeOK'
<1> USE DEF DataTypeOK
<1>1. UNCHANGED <<device, files, lock, clientSocketFd, send_buffer, reply>>
  BY DEF Recv, GiveUp, buffers, net
<1>2. DeviceKept' /\ FilesTypeOK'
  BY <1>1 DEF DeviceKept, FilesTypeOK, device, files
<1>3. BytesTypeOK'
  <2>1. CASE GiveUp(c)
    BY <2>1 DEF GiveUp, buffers, net, BytesTypeOK
  <2>2. CASE At(clientSocketFd[c]).type = "socket"
             /\ inbox[At(clientSocketFd[c]).conn] # <<>>
             /\ ~ GiveUp(c) /\ received' = received \o
                      Stored(Head(inbox[At(clientSocketFd[c]).conn]))
    <3>1. PICK d \in Clients : d = At(clientSocketFd[c]).conn
      BY <2>2, FileKinds
    <3>2. PICK chunk \in Chunk : chunk = Head(inbox[d])
      BY <2>2, <3>1, HeadTailProperties DEF BytesTypeOK
    <3>3. Tail(inbox[d]) \in Seq(Chunk)
      BY <2>2, <3>1, HeadTailProperties DEF BytesTypeOK
    <3>4. CASE /\ receive_buffer' = [receive_buffer EXCEPT ![c] = chunk]
               /\ bytes_received' = [bytes_received EXCEPT ![c] = Len(chunk.data)]
               /\ inbox' = [inbox EXCEPT ![d] = Tail(@)]
      <4>1. received' \in Seq(Byte)
        BY <2>2, <3>1, <3>2, RequestsTyped, ConcatProperties DEF BytesTypeOK
      <4>2. Len(chunk.data) \in Nat
        BY RequestsTyped
      <4> QED
        BY <1>1, <3>3, <3>4, <4>1, <4>2 DEF BytesTypeOK
    <3>5. CASE /\ bytes_received' = [bytes_received EXCEPT ![c] = 0]
               /\ inbox[d] = <<>>
      BY <2>2, <3>1, <3>5
    <3> QED
      BY <2>2, <3>1, <3>2, <3>4, <3>5 DEF Recv
  <2>3. CASE /\ bytes_received' = [bytes_received EXCEPT ![c] = 0]
             /\ UNCHANGED <<receive_buffer, inbox, received>>
    <3>1. \A d \in Clients : Len(receive_buffer[d].data) \in Nat
      BY DEF BytesTypeOK, Chunk
    <3> QED
      BY <1>1, <2>3, <3>1 DEF BytesTypeOK
  <2> QED
    BY <2>1, <2>2, <2>3 DEF Recv, net
<1> QED
  BY <1>2, <1>3

LEMMA TypedIoctl ==
  ASSUME DataTypeOK, NEW c \in Clients, Ioctl(c),
         receive_buffer[c].seek # NoSeek
  PROVE  DataTypeOK'
<1> USE DEF DataTypeOK
<1>1. UNCHANGED <<device, dataFileDescriptor, lock, clientSocketFd, buffers,
                  net, received>>
  BY DEF Ioctl
<1>2. fds' \in [FDs -> File]
  <2>1. PICK to \in SeekTargets(receive_buffer[c].seek) :
          LET offset == AdjustedOffset(buffer, to[1], to[2])
          IN  fds' = IF At(dataFileDescriptor).type = "device" /\ offset >= 0
                     THEN [fds EXCEPT ![dataFileDescriptor].pos = offset]
                     ELSE fds
    BY DEF Ioctl
  <2>2. to \in Nat \X Nat
    BY <2>1, ServerAssumption DEF SeekTargets, BytesTypeOK, Chunk
  <2>3. \A k \in Slots : buffer.entry[k].size \in Nat
    BY DEF DeviceKept, Kept, Buffers, Entry
  <2>4. AdjustedOffset(buffer, to[1], to[2]) \in Nat \union {EINVAL}
    BY <2>2, <2>3, AdjustedOffsetType
  <2>5. PICK offset \in Nat \union {EINVAL} :
          fds' = IF At(dataFileDescriptor).type = "device" /\ offset >= 0
                 THEN [fds EXCEPT ![dataFileDescriptor].pos = offset]
                 ELSE fds
    BY <2>1, <2>4
  <2>6. CASE At(dataFileDescriptor).type = "device" /\ offset >= 0
    <3>1. offset \in Nat
      BY <2>6 DEF EINVAL
    <3> QED
      BY <2>5, <2>6, <3>1, MovedFile
  <2>7. CASE ~ (At(dataFileDescriptor).type = "device" /\ offset >= 0)
    BY <2>5, <2>7 DEF FilesTypeOK
  <2> QED
    BY <2>6, <2>7
<1> QED
  BY <1>1, <1>2 DEF FilesTypeOK, BytesTypeOK, DeviceKept, device, buffers, net

LEMMA TypedWrite ==
  ASSUME DataTypeOK, NEW c \in Clients, Write(c)
  PROVE  DataTypeOK'
<1> USE DEF DataTypeOK
<1>1. PICK data \in Seq(Byte) : data = Received(c)
  BY ReceivedTyped
<1>2. UNCHANGED <<dataFileDescriptor, clientSocketFd, buffers, inbox, received>>
      /\ lock' \in {lock, NOBODY}
  BY DEF Write, GiveUp, files, net
<1>3. DeviceKept'
  <2>1. CASE DeviceWrite(data)
    BY <1>1, <2>1, WriteStores
  <2>2. CASE UNCHANGED device
    BY <2>2 DEF DeviceKept, device
  <2> QED
    BY <1>1, <2>1, <2>2 DEF Write, GiveUp
<1>4. fds' \in [FDs -> File]
  <2>1. PICK n \in Nat : n = AppendIndex(data)
    BY AppendIndexBounds
  <2>2. CASE /\ At(dataFileDescriptor).type = "device"
             /\ fds' = [fds EXCEPT ![dataFileDescriptor].pos = @ + n]
    <3>1. fds[dataFileDescriptor].pos + n \in Nat
      BY <2>2, FileKinds DEF DeviceFile
    <3>2. PICK p \in Nat : p = fds[dataFileDescriptor].pos + n
      BY <3>1
    <3>3. fds' = [fds EXCEPT ![dataFileDescriptor].pos = p]
      BY <2>2, <3>2
    <3> QED
      BY <2>2, <3>3, MovedFile
  <2>3. CASE UNCHANGED fds
    BY <2>3 DEF FilesTypeOK
  <2> QED
    BY <1>1, <2>1, <2>2, <2>3 DEF Write, GiveUp, files
<1>5. reply' \in [Clients -> Seq(Byte)]
  <2>1. CASE /\ At(dataFileDescriptor).type = "socket"
             /\ reply' = [reply EXCEPT ![At(dataFileDescriptor).conn] = @ \o data]
    <3>1. PICK d \in Clients : d = At(dataFileDescriptor).conn
      BY <2>1, FileKinds
    <3>2. reply[d] \o data \in Seq(Byte)
      BY ConcatProperties DEF BytesTypeOK
    <3> QED
      BY <2>1, <3>1, <3>2 DEF BytesTypeOK
  <2>2. CASE UNCHANGED reply
    BY <2>2 DEF BytesTypeOK
  <2> QED
    BY <1>1, <2>1, <2>2 DEF Write, GiveUp, net
<1> QED
  BY <1>2, <1>3, <1>4, <1>5 DEF FilesTypeOK, BytesTypeOK, buffers

LEMMA TypedRead ==
  ASSUME DataTypeOK, NEW c \in Clients, Read(c)
  PROVE  DataTypeOK'
<1> USE DEF DataTypeOK
<1>1. UNCHANGED <<device, dataFileDescriptor, clientSocketFd, receive_buffer,
                  bytes_received, reply, received>>
      /\ lock' \in {lock, NOBODY}
  BY DEF Read, GiveUp, files, net, buffers
<1>2. /\ fds' \in [FDs -> File]
      /\ send_buffer' \in [Clients -> Seq(Byte)]
      /\ inbox' \in [Clients -> Seq(Chunk)]
  <2>1. CASE At(dataFileDescriptor).type = "device"
    <3>1. PICK pos \in Nat : pos = At(dataFileDescriptor).pos
                             /\ pos = fds[dataFileDescriptor].pos
      BY <2>1, FileKinds DEF DeviceFile
    <3>2. PICK bytes \in Seq(Byte) : bytes = DeviceRead(pos)
      BY ReadDelivers
    <3>3. PICK p \in Nat : p = pos + Len(bytes)
      OBVIOUS
    <3>4. /\ send_buffer' = [send_buffer EXCEPT ![c] = bytes]
          /\ fds' = [fds EXCEPT ![dataFileDescriptor].pos = p]
          /\ UNCHANGED inbox
      BY <2>1, <3>1, <3>2, <3>3 DEF Read, GiveUp, net
    <3>5. fds' \in [FDs -> File]
      BY <2>1, <3>4, MovedFile
    <3> QED
      BY <3>4, <3>5 DEF BytesTypeOK
  <2>2. CASE At(dataFileDescriptor).type = "socket"
    <3>1. PICK d \in Clients : d = At(dataFileDescriptor).conn
      BY <2>2, FileKinds
    <3>2. CASE inbox[d] # <<>> /\ ~ GiveUp(c)
      <4>1. PICK chunk \in Chunk, rest \in Seq(Chunk) :
              chunk = Head(inbox[d]) /\ rest = Tail(inbox[d])
        BY <3>2, HeadTailProperties DEF BytesTypeOK
      <4>2. /\ send_buffer' = [send_buffer EXCEPT ![c] = chunk.data]
            /\ inbox' = [inbox EXCEPT ![d] = rest]
            /\ UNCHANGED fds
        BY <2>2, <3>1, <3>2, <4>1 DEF Read, files
      <4> QED
        BY <4>2, RequestsTyped DEF BytesTypeOK, FilesTypeOK
    <3>3. CASE send_buffer' = [send_buffer EXCEPT ![c] = <<>>]
               /\ UNCHANGED <<fds, inbox>>
      <4>1. <<>> \in Seq(Byte)
        OBVIOUS
      <4> QED
        BY <3>3, <4>1 DEF BytesTypeOK, FilesTypeOK
    <3>4. CASE GiveUp(c)
      BY <3>4 DEF GiveUp, files, buffers, net, FilesTypeOK, BytesTypeOK
    <3> QED
      BY <2>2, <3>1, <3>2, <3>3, <3>4 DEF Read, files, net
  <2>3. CASE GiveUp(c)
    BY <2>3 DEF GiveUp, files, buffers, net, FilesTypeOK, BytesTypeOK
  <2> QED
    BY <2>1, <2>2, <2>3 DEF Read
<1> QED
  BY <1>1, <1>2 DEF FilesTypeOK, BytesTypeOK, DeviceKept, device

LEMMA TypedSend ==
  ASSUME DataTypeOK, NEW c \in Clients, Send(c)
  PROVE  DataTypeOK'
<1> USE DEF DataTypeOK
<1>1. UNCHANGED <<device, files, lock, clientSocketFd, buffers, inbox, received>>
  BY DEF Send, GiveUp, net
<1>2. reply' \in [Clients -> Seq(Byte)]
  <2>1. CASE /\ At(clientSocketFd[c]).type = "socket"
             /\ reply' = [reply EXCEPT ![At(clientSocketFd[c]).conn] =
                                         @ \o send_buffer[c]]
    <3>1. PICK d \in Clients : d = At(clientSocketFd[c]).conn
      BY <2>1, FileKinds
    <3>2. reply[d] \o send_buffer[c] \in Seq(Byte)
      BY ConcatProperties DEF BytesTypeOK
    <3> QED
      BY <2>1, <3>1, <3>2 DEF BytesTypeOK
  <2>2. CASE UNCHANGED reply
    BY <2>2 DEF BytesTypeOK
  <2> QED
    BY <2>1, <2>2 DEF Send, GiveUp, net
<1> QED
  BY <1>1, <1>2 DEF FilesTypeOK, BytesTypeOK, DeviceKept, device, files, buffers

LEMMA TypedClose ==
  ASSUME DataTypeOK, NEW d, fds' = Closed(d),
         UNCHANGED <<device, dataFileDescriptor, lock, clientSocketFd, buffers,
                     net, received>>
  PROVE  DataTypeOK'
<1>1. fds' \in [FDs -> File]
  BY DEF Closed, DataTypeOK, FilesTypeOK, File
<1> QED
  BY <1>1 DEF DataTypeOK, FilesTypeOK, BytesTypeOK, DeviceKept, device, buffers,
              net

LEMMA TypedUnchanged ==
  ASSUME DataTypeOK, lock' \in Clients \union {NOBODY},
         UNCHANGED <<device, files, clientSocketFd, buffers, net, received>>
  PROVE  DataTypeOK'
BY DEF DataTypeOK, FilesTypeOK, BytesTypeOK, DeviceKept, device, files, buffers,
       net

LEMMA TypedAccept ==
  ASSUME DataTypeOK, AcceptTypeOK, Accept
  PROVE  DataTypeOK'
<1> USE DEF DataTypeOK
<1>1. Head(backlog) \in Clients
  BY HeadTailProperties DEF Accept, AcceptTypeOK
<1>2. PICK c \in Clients, s \in Unused : c = Head(backlog) /\ s = LowestUnused
  BY <1>1, LowestIsUnused DEF Accept
<1>3. s \in FDs
  BY DEF Unused
<1>4. /\ fds' = [fds EXCEPT ![s] = Socket(c)]
      /\ clientSocketFd' = [clientSocketFd EXCEPT ![c] = s]
      /\ UNCHANGED <<device, dataFileDescriptor, lock, buffers, net, received>>
  BY <1>2 DEF Accept
<1>5. Socket(c) \in File
  BY DEF File
<1>6. FilesTypeOK'
  BY <1>3, <1>4, <1>5 DEF FilesTypeOK
<1> QED
  BY <1>4, <1>6 DEF BytesTypeOK, DeviceKept, device, buffers, net

LEMMA TypedConnect ==
  ASSUME DataTypeOK, NEW c \in Clients, Connect(c)
  PROVE  DataTypeOK'
<1> USE DEF DataTypeOK
<1>1. PICK request \in Requests : inbox' = [inbox EXCEPT ![c] = request]
  BY DEF Connect
<1>2. request \in Seq(Chunk)
  BY ServerAssumption DEF Chunk
<1>3. inbox' \in [Clients -> Seq(Chunk)]
  BY <1>1, <1>2 DEF BytesTypeOK
<1>4. UNCHANGED <<device, files, lock, clientSocketFd, buffers, reply, received>>
  BY DEF Connect
<1> QED
  BY <1>3, <1>4 DEF FilesTypeOK, BytesTypeOK, DeviceKept, device, files, buffers

(* A thread that seeks has the seek in its buffer.                          *)
SeekHeld ==
  \A c \in Clients :
    pc[c] \in {"open_seek", "ioctl"} => receive_buffer[c].seek # NoSeek

LEMMA SeekHeldStep ==
  ASSUME DataTypeOK, AcceptTypeOK, SeekHeld, NEW c \in Clients, Handler(c)
  PROVE  SeekHeld'
<1> USE DEF SeekHeld, Goto
<1>1. pc \in [Clients -> Labels] /\ receive_buffer \in [Clients -> Chunk]
  BY DEF AcceptTypeOK, DataTypeOK, BytesTypeOK
<1>2. CASE Recv(c)
  <2>1. CASE UNCHANGED receive_buffer /\ pc' = [pc EXCEPT ![c] = "failed"]
    BY <1>1, <2>1
  <2>2. CASE UNCHANGED receive_buffer
             /\ pc' = [pc EXCEPT ![c] = Branch(receive_buffer[c])]
    BY <1>1, <2>2 DEF Branch
  <2>3. CASE \E chunk :
               /\ receive_buffer' = [receive_buffer EXCEPT ![c] = chunk]
               /\ pc' = [pc EXCEPT ![c] = Branch(chunk)]
    BY <1>1, <2>3 DEF Branch
  <2> QED
    BY <1>2, <2>1, <2>2, <2>3 DEF Recv, GiveUp, buffers
<1>3. CASE OpenDataFile(c, "open_seek", TRUE, "ioctl", "failed")
  BY <1>1, <1>3 DEF OpenDataFile, buffers
<1>4. CASE /\ ~ Recv(c)
           /\ ~ OpenDataFile(c, "open_seek", TRUE, "ioctl", "failed")
  <2>1. UNCHANGED receive_buffer
    BY <1>4 DEF Handler, OpenDataFile, MutexLock, Ioctl, Write, CloseWrite,
       Read, Send, Sigpipe, CloseClient, Complete, CloseData, GiveUp, buffers
  <2>2. CASE MutexLock(c, "lock_write", "write")
             \/ MutexLock(c, "lock_read", "read")
             \/ OpenDataFile(c, "open_write", TRUE, "lock_write", "lock_write")
             \/ OpenDataFile(c, "open_read", FALSE, "lock_read", "failed")
    BY <1>1, <2>1, <2>2 DEF MutexLock, OpenDataFile
  <2>3. CASE Ioctl(c) \/ CloseWrite(c) \/ Write(c) \/ Read(c)
    BY <1>1, <2>1, <2>3 DEF Ioctl, CloseWrite, AfterChunk, Write, Read, GiveUp
  <2>4. CASE Send(c) \/ Sigpipe(c) \/ CloseClient(c) \/ Complete(c) \/ CloseData(c)
    BY <1>1, <2>1, <2>4 DEF Send, Sigpipe, CloseClient, Complete, CloseData,
       GiveUp
  <2> QED
    BY <1>4, <2>2, <2>3, <2>4 DEF Handler
<1> QED
  BY <1>2, <1>3, <1>4

DataInv == AcceptInv /\ DataTypeOK /\ SeekHeld

LEMMA DataInit == Init => DataInv
<1> SUFFICES ASSUME Init
             PROVE  DataInv
  OBVIOUS
<1>1. DeviceKept
  <2>1. PICK b \in Held : b = buffer
    BY DEF Init
  <2>2. b \in Buffers(Entry) /\ WellShaped(b)
    BY HeldAssumption DEF Entry
  <2>3. \A i \in Filled(b) : /\ b.entry[i].buffptr \in Seq(Byte)
                             /\ b.entry[i].size = Len(b.entry[i].buffptr)
    BY HeldAssumption DEF Filled
  <2>4. Kept(b)
    BY <2>2, <2>3 DEF Kept
  <2>5. partial \in Seq(Byte)
    BY DEF Init
  <2> QED
    BY <2>1, <2>4, <2>5 DEF DeviceKept
<1>2. FilesTypeOK
  BY DEF Init, FilesTypeOK, File
<1>3. [seek |-> NoSeek, data |-> <<>>] \in Chunk
  BY DEF Chunk
<1>4. receive_buffer \in [Clients -> Chunk] /\ bytes_received \in [Clients -> Nat]
      /\ \A c \in Clients : bytes_received[c] <= Len(receive_buffer[c].data)
  BY <1>3 DEF Init
<1>5. /\ send_buffer \in [Clients -> Seq(Byte)]
      /\ inbox \in [Clients -> Seq(Chunk)] /\ reply \in [Clients -> Seq(Byte)]
  BY DEF Init
<1>6. received \in Seq(Byte)
  BY <1>1, CommandsTyped DEF Init
<1>7. BytesTypeOK
  BY <1>4, <1>5, <1>6 DEF BytesTypeOK
<1>8. SeekHeld
  BY DEF Init, SeekHeld
<1> QED
  BY <1>1, <1>2, <1>7, <1>8, InitAccepts DEF DataInv, DataTypeOK

LEMMA DataHandler ==
  ASSUME DataInv, NEW c \in Clients, Handler(c)
  PROVE  DataTypeOK' /\ SeekHeld'
<1> USE DEF DataInv
<1>1. AcceptTypeOK
  BY DEF AcceptInv
<1>2. SeekHeld'
  BY <1>1, SeekHeldStep
<1> SUFFICES DataTypeOK'
  BY <1>2
<1>3. CASE OpenDataFile(c, "open_seek", TRUE, "ioctl", "failed")
           \/ OpenDataFile(c, "open_write", TRUE, "lock_write", "lock_write")
           \/ OpenDataFile(c, "open_read", FALSE, "lock_read", "failed")
  BY <1>3, TypedOpen
<1>4. CASE MutexLock(c, "lock_write", "write") \/ MutexLock(c, "lock_read", "read")
  BY <1>4, TypedUnchanged DEF MutexLock
<1>5. CASE Ioctl(c)
  <2>1. receive_buffer[c].seek # NoSeek
    BY <1>5 DEF Ioctl, SeekHeld
  <2> QED
    BY <1>5, <2>1, TypedIoctl
<1>6. CASE CloseWrite(c) \/ CloseClient(c) \/ CloseData(c)
  BY <1>6, TypedClose DEF CloseWrite, CloseClient, CloseData
<1>7. CASE Sigpipe(c) \/ Complete(c)
  <2>1. lock' \in Clients \union {NOBODY}
    BY <1>7 DEF Sigpipe, Complete, DataTypeOK, FilesTypeOK
  <2> QED
    BY <1>7, <2>1, TypedUnchanged DEF Sigpipe, Complete
<1>8. CASE Recv(c) \/ Write(c) \/ Read(c) \/ Send(c)
  BY <1>8, TypedRecv, TypedWrite, TypedRead, TypedSend
<1> QED
  BY <1>2, <1>3, <1>4, <1>5, <1>6, <1>7, <1>8 DEF Handler

LEMMA DataStep == DataInv /\ [Next]_vars => DataInv'
<1> SUFFICES ASSUME DataInv, [Next]_vars
             PROVE  DataTypeOK' /\ SeekHeld'
  BY AcceptInvStep DEF DataInv
<1> USE DEF DataInv
<1>1. AcceptTypeOK /\ lock \in Clients \union {NOBODY}
  BY DEF AcceptInv, DataTypeOK, FilesTypeOK
<1>2. CASE Main
  <2>1. CASE Accept
    <3>1. DataTypeOK'
      BY <1>1, <2>1, TypedAccept
    <3>2. /\ pc' = [pc EXCEPT ![Head(backlog)] = "recv"]
             \/ pc' = [pc EXCEPT ![Head(backlog)] = "unstarted"]
          /\ UNCHANGED receive_buffer
      BY <2>1 DEF Accept, Goto, buffers
    <3>3. SeekHeld'
      BY <1>1, <3>2 DEF SeekHeld, AcceptTypeOK
    <3> QED
      BY <3>1, <3>3
  <2>2. CASE ~ Accept
    <3>1. UNCHANGED <<device, files, lock, pc, clientSocketFd, buffers, net,
                      received>>
      BY <1>2, <2>2 DEF Main, AcceptFails
    <3>2. SeekHeld'
      BY <3>1 DEF SeekHeld, buffers
    <3> QED
      BY <1>1, <3>1, <3>2, TypedUnchanged
  <2> QED
    BY <2>1, <2>2
<1>3. ASSUME NEW c \in Clients, Handler(c)
      PROVE  DataTypeOK' /\ SeekHeld'
  BY <1>3, DataHandler
<1>4. ASSUME NEW c \in Clients, Connect(c)
      PROVE  DataTypeOK' /\ SeekHeld'
  <2>1. pc' = [pc EXCEPT ![c] = "pending"] /\ UNCHANGED receive_buffer
    BY <1>4 DEF Connect, Goto, buffers
  <2>2. SeekHeld'
    BY <1>1, <2>1 DEF SeekHeld, AcceptTypeOK
  <2> QED
    BY <1>4, <2>2, TypedConnect
<1>5. CASE UNCHANGED vars
  <2>1. SeekHeld'
    BY <1>5 DEF vars, buffers, SeekHeld
  <2> QED
    BY <1>1, <1>5, <2>1, TypedUnchanged DEF vars
<1> QED
  BY <1>2, <1>3, <1>4, <1>5 DEF Next

LEMMA DataAlways == Spec => []DataInv
BY DataInit, DataStep, PTL DEF Spec

(* The variables keep their types, whatever fails and however many clients  *)
(* are served at a time.                                                    *)
THEOREM ServerTypeCorrect == Spec => []TypeOK
<1>1. DataInv => TypeOK
  <2> SUFFICES ASSUME DataInv
               PROVE  TypeOK
    OBVIOUS
  <2> USE DEF DataInv, DataTypeOK, FilesTypeOK
  <2>1. ASSUME NEW d \in FDs
        PROVE  \/ fds[d] = NoFile
               \/ fds[d] \in {Socket(c) : c \in Clients}
               \/ fds[d].type = "device" /\ fds[d].pos \in Nat
    BY DEF File, DeviceFile
  <2>2. buffer.in_offs \in Slots /\ buffer.out_offs \in Slots
    BY DEF DeviceKept, Kept, Buffers
  <2>3. ToSet(head) \subseteq Clients /\ ToSet(backlog) \subseteq Clients
    BY DEF AcceptInv, AcceptTypeOK, ToSet
  <2> QED
    BY <2>1, <2>2, <2>3 DEF TypeOK, AcceptInv, AcceptTypeOK
<1> QED
  BY <1>1, DataAlways, PTL

-----------------------------------------------------------------------------
(* No chunk is stored twice *)

(* The bytes that a thread has received and not yet written.                *)
StoreLabels == {"open_write", "lock_write", "write"}

Size(label, n) == IF label \in StoreLabels THEN n ELSE 0

PendingOf(c, label, n) == {c} \X (1 .. Size(label, n))

Pending(labels, counts) ==
  UNION {PendingOf(c, labels[c], counts[c]) : c \in Clients}

StoredOnce ==
  Len(Content) + Len(partial) + Cardinality(Pending(pc, bytes_received))
    <= Len(received)

(* One thread's share and the rest.                                         *)
Others(c, labels, counts) ==
  UNION {PendingOf(d, labels[d], counts[d]) : d \in Clients \ {c}}

Splits(c, labels, counts) ==
  /\ Cardinality(Others(c, labels, counts)) \in Nat
  /\ Cardinality(Pending(labels, counts)) =
       Cardinality(Others(c, labels, counts)) + Size(labels[c], counts[c])

LEMMA PendingSplits ==
  ASSUME NEW c \in Clients, NEW labels, NEW counts \in [Clients -> Nat]
  PROVE  Splits(c, labels, counts)
<1> DEFINE f == [d \in Clients \ {c} |-> PendingOf(d, labels[d], counts[d])]
           T == {f[d] : d \in Clients \ {c}}
<1>1. \A d \in Clients : Size(labels[d], counts[d]) \in Nat
  BY DEF Size
<1>2. ASSUME NEW d \in Clients
      PROVE  /\ IsFiniteSet(PendingOf(d, labels[d], counts[d]))
             /\ Cardinality(PendingOf(d, labels[d], counts[d])) =
                  Size(labels[d], counts[d])
  <2>1. PICK n \in Nat : n = Size(labels[d], counts[d])
    BY <1>1
  <2>2. IsFiniteSet(1 .. n) /\ Cardinality(1 .. n) = n
    <3>1. PICK low, high : low = 1 /\ high = n
      OBVIOUS
    <3>2. low \in Int /\ high \in Int
      BY <3>1
    <3>3. IsFiniteSet(low .. high)
          /\ Cardinality(low .. high) =
               IF low > high THEN 0 ELSE (high - low) + 1
      BY <3>2, FS_Interval, Zenon
    <3>4. (IF low > high THEN 0 ELSE (high - low) + 1) = n
      BY <3>1
    <3> QED
      BY <3>1, <3>3, <3>4, Zenon
  <2>3. IsFiniteSet({d}) /\ Cardinality({d}) = 1
    BY FS_Singleton
  <2>4. IsFiniteSet({d} \X (1 .. n)) /\ Cardinality({d} \X (1 .. n)) = 1 * n
    BY <2>2, <2>3, FS_Product
  <2> QED
    BY <2>1, <2>4 DEF PendingOf
<1>3. IsFiniteSet(T)
  <2>1. IsFiniteSet(Clients \ {c})
    BY ServerAssumption, FS_Subset
  <2>2. f \in Surjection(Clients \ {c}, T)
    BY DEF Surjection
  <2> HIDE DEF f, T
  <2> QED
    BY <2>1, <2>2, FS_Surjection
<1>4. \A t \in T : IsFiniteSet(t)
  BY <1>2
<1>5. Others(c, labels, counts) = UNION T
  BY DEF Others
<1>6. IsFiniteSet(UNION T)
  <2> HIDE DEF T
  <2> QED
    BY <1>3, <1>4, FS_UNION
<1>7. PICK rest, mine : /\ rest = Others(c, labels, counts)
                        /\ mine = PendingOf(c, labels[c], counts[c])
  OBVIOUS
<1>8. rest \cap mine = {}
  BY <1>7 DEF Others, PendingOf
<1>9. Pending(labels, counts) = rest \union mine
  BY <1>7 DEF Others, Pending
<1>10. IsFiniteSet(rest) /\ IsFiniteSet(mine)
       /\ Cardinality(mine) = Size(labels[c], counts[c])
  BY <1>2, <1>5, <1>6, <1>7
<1>11. Cardinality(rest) \in Nat
  BY <1>10, FS_CardinalityType
<1>12. Cardinality(rest \union mine) =
         Cardinality(rest) + Cardinality(mine) - Cardinality(rest \cap mine)
  BY <1>10, FS_Union
<1>13. Cardinality(rest \cap mine) = 0
  BY <1>8, FS_EmptySet
<1> QED
  BY <1>1, <1>7, <1>9, <1>10, <1>11, <1>12, <1>13 DEF Splits

LEMMA BytesKept ==
  ASSUME NEW b, Kept(b)
  PROVE  FlattenSeq(LinesOf(b)) \in Seq(Byte)
BY LinesTyped, FlattenTyped DEF Lists

LEMMA LengthsTyped ==
  ASSUME DataTypeOK, DataTypeOK'
  PROVE  /\ Len(Content) \in Nat /\ Len(partial) \in Nat /\ Len(received) \in Nat
         /\ Content' \in Seq(Byte)
         /\ Len(Content') \in Nat /\ Len(partial') \in Nat
         /\ Len(received') \in Nat
<1>1. /\ Content = FlattenSeq(LinesOf(buffer))
      /\ Content' = FlattenSeq(LinesOf(buffer'))
  BY DEF Content, Commands, LinesOf
<1>2. Content \in Seq(Byte) /\ Content' \in Seq(Byte)
  BY <1>1, BytesKept DEF DataTypeOK, DeviceKept
<1> QED
  BY <1>2 DEF DataTypeOK, DeviceKept, BytesTypeOK

(* What is stored and what is pending grow no more than what was received.  *)
GrowsNoMore(n, m) ==
  Len(Content') + Len(partial') + m + Len(received)
    <= Len(Content) + Len(partial) + n + Len(received')

LEMMA GrowingKeeps ==
  ASSUME NEW held \in Nat, NEW all \in Nat, NEW held1 \in Nat, NEW all1 \in Nat,
         NEW rest \in Nat, NEW n \in Nat, NEW m \in Nat,
         held1 + m + all <= held + n + all1, held + (rest + n) <= all
  PROVE  held1 + (rest + m) <= all1
  OBVIOUS

LEMMA StoredKeeps ==
  ASSUME DataTypeOK, DataTypeOK', StoredOnce, NEW c \in Clients,
         \A d \in Clients \ {c} :
           pc'[d] = pc[d] /\ bytes_received'[d] = bytes_received[d],
         NEW n \in Nat, n = Size(pc[c], bytes_received[c]),
         NEW m \in Nat, m = Size(pc'[c], bytes_received'[c]),
         GrowsNoMore(n, m)
  PROVE  StoredOnce'
<1>1. /\ Splits(c, pc, bytes_received)
      /\ Splits(c, pc', bytes_received')
  <2>1. bytes_received \in [Clients -> Nat] /\ bytes_received' \in [Clients -> Nat]
    BY DEF DataTypeOK, BytesTypeOK
  <2> QED
    BY <2>1, PendingSplits
<1>2. Others(c, pc', bytes_received') = Others(c, pc, bytes_received)
  BY DEF Others
<1>3. PICK rest \in Nat : rest = Cardinality(Others(c, pc, bytes_received))
  BY <1>1 DEF Splits
<1>4. /\ Cardinality(Pending(pc, bytes_received)) = rest + n
      /\ Cardinality(Pending(pc', bytes_received')) = rest + m
  BY <1>1, <1>2, <1>3 DEF Splits
<1>5. PICK held, all, held1, all1 :
        /\ held = Len(Content) + Len(partial) /\ all = Len(received)
        /\ held1 = Len(Content') + Len(partial') /\ all1 = Len(received')
  OBVIOUS
<1>6. held \in Nat /\ all \in Nat /\ held1 \in Nat /\ all1 \in Nat
  BY <1>5, LengthsTyped
<1>7. held1 + m + all <= held + n + all1
  BY <1>5 DEF GrowsNoMore
<1>8. held + (rest + n) <= all
  BY <1>4, <1>5 DEF StoredOnce
<1>9. held1 + (rest + m) <= all1
  BY <1>3, <1>6, <1>7, <1>8, GrowingKeeps
<1> QED
  BY <1>4, <1>5, <1>9 DEF StoredOnce

(* A step that stores nothing and receives nothing.                         *)
LEMMA StoredStays ==
  ASSUME DataTypeOK, DataTypeOK', AcceptTypeOK, StoredOnce, NEW c \in Clients,
         NEW label, pc' = [pc EXCEPT ![c] = label],
         label \in StoreLabels => pc[c] \in StoreLabels,
         UNCHANGED <<device, bytes_received, received>>
  PROVE  StoredOnce'
<1>1. Content' = Content /\ partial' = partial
  BY DEF Content, Commands, device
<1>2. \A d \in Clients : bytes_received'[d] = bytes_received[d]
                         /\ bytes_received[d] \in Nat
  BY DEF DataTypeOK, BytesTypeOK
<1>3. PICK n \in Nat, m \in Nat : /\ n = Size(pc[c], bytes_received[c])
                                  /\ m = Size(pc'[c], bytes_received'[c])
  BY <1>2 DEF Size
<1>4. m <= n
  <2>1. pc'[c] = label
    BY DEF AcceptTypeOK
  <2> QED
    BY <1>2, <1>3, <2>1 DEF Size
<1>5. \A d \in Clients \ {c} : pc'[d] = pc[d]
  BY DEF AcceptTypeOK
<1>6. GrowsNoMore(n, m)
  BY <1>1, <1>4, LengthsTyped DEF GrowsNoMore
<1> QED
  BY <1>2, <1>3, <1>5, <1>6, StoredKeeps

LEMMA StoredRecv ==
  ASSUME DataTypeOK, DataTypeOK', AcceptTypeOK, StoredOnce, NEW c \in Clients,
         Recv(c)
  PROVE  StoredOnce'
<1> USE DEF Goto
<1>0. pc[c] = "recv" /\ Size(pc[c], bytes_received[c]) = 0
  BY DEF Recv, Size, StoreLabels
<1>1. CASE GiveUp(c)
  BY <1>1, StoredStays DEF GiveUp, buffers, StoreLabels
<1>2. ASSUME NEW chunk \in Chunk,
             bytes_received' = [bytes_received EXCEPT ![c] = Len(chunk.data)],
             received' = received \o Stored(chunk),
             pc' = [pc EXCEPT ![c] = Branch(chunk)],
             UNCHANGED device
      PROVE  StoredOnce'
  <2>1. PICK more \in Seq(Byte) : more = Stored(chunk)
    BY RequestsTyped
  <2>2. Len(received') = Len(received) + Len(more)
    BY <1>2, <2>1, ConcatProperties DEF DataTypeOK, BytesTypeOK
  <2>3. PICK m \in Nat : m = Size(pc'[c], bytes_received'[c])
                         /\ m = Len(more)
    <3>1. pc'[c] = Branch(chunk) /\ bytes_received'[c] = Len(chunk.data)
      BY <1>2 DEF AcceptTypeOK, DataTypeOK, BytesTypeOK
    <3>2. Size(pc'[c], bytes_received'[c]) = Len(more)
      BY <2>1, <3>1, RequestsTyped DEF Branch, Size, StoreLabels
    <3> QED
      BY <3>2
  <2>4. \A d \in Clients \ {c} :
          pc'[d] = pc[d] /\ bytes_received'[d] = bytes_received[d]
    BY <1>2 DEF AcceptTypeOK, DataTypeOK, BytesTypeOK
  <2>5. Content' = Content /\ partial' = partial
    BY <1>2 DEF Content, Commands, device
  <2>6. PICK n \in Nat : n = 0
    OBVIOUS
  <2>7. GrowsNoMore(n, m)
    BY <2>2, <2>3, <2>5, <2>6, LengthsTyped DEF GrowsNoMore
  <2> QED
    BY <1>0, <2>3, <2>4, <2>6, <2>7, StoredKeeps
<1>3. CASE /\ bytes_received' = [bytes_received EXCEPT ![c] = 0]
           /\ pc' = [pc EXCEPT ![c] = Branch(receive_buffer[c])]
           /\ UNCHANGED <<device, received>>
  <2>1. Size(pc'[c], bytes_received'[c]) = 0
    BY <1>3 DEF Size, DataTypeOK, BytesTypeOK
  <2>2. \A d \in Clients \ {c} :
          pc'[d] = pc[d] /\ bytes_received'[d] = bytes_received[d]
    BY <1>3 DEF AcceptTypeOK, DataTypeOK, BytesTypeOK
  <2>3. Content' = Content /\ partial' = partial
    BY <1>3 DEF Content, Commands, device
  <2>4. GrowsNoMore(0, 0)
    BY <1>3, <2>3, LengthsTyped DEF GrowsNoMore
  <2> QED
    BY <1>0, <2>1, <2>2, <2>4, StoredKeeps
<1>4. ASSUME At(clientSocketFd[c]).type = "socket",
             inbox[At(clientSocketFd[c]).conn] # <<>>
      PROVE  Head(inbox[At(clientSocketFd[c]).conn]) \in Chunk
  <2>1. PICK d \in Clients : d = At(clientSocketFd[c]).conn
    BY <1>4, FileKinds DEF DataTypeOK
  <2> QED
    BY <1>4, <2>1, HeadTailProperties DEF DataTypeOK, BytesTypeOK
<1> QED
  BY <1>1, <1>2, <1>3, <1>4 DEF Recv

LEMMA StoredWrite ==
  ASSUME DataTypeOK, DataTypeOK', AcceptTypeOK, StoredOnce, NEW c \in Clients,
         Write(c)
  PROVE  StoredOnce'
<1> USE DEF Goto
<1>1. CASE UNCHANGED device
  <2>1. /\ UNCHANGED <<bytes_received, received>>
        /\ \/ pc' = [pc EXCEPT ![c] = "close_write"]
           \/ pc' = [pc EXCEPT ![c] = "failed"]
    BY DEF Write, GiveUp, buffers
  <2> QED
    BY <1>1, <2>1, StoredStays DEF StoreLabels
<1>2. CASE /\ DeviceWrite(Received(c))
           /\ pc' = [pc EXCEPT ![c] = "close_write"]
           /\ UNCHANGED <<bytes_received, received>>
  <2>1. PICK data \in Seq(Byte) :
          data = Received(c) /\ Len(data) = bytes_received[c]
    BY ReceivedTyped DEF DataTypeOK
  <2>2. PICK old \in Seq(Byte) : Takes(old, data)
    BY <1>2, <2>1, WriteStores DEF DataTypeOK
  <2>3. Taken(data) \in Seq(Byte) /\ Len(Taken(data)) <= Len(data)
    BY TakenTyped
  <2>4. Len(Content') + Len(partial')
          <= Len(Content) + Len(partial) + Len(data)
    <3>1. PICK co, pa, t, con, pan :
            /\ co = Content /\ pa = partial /\ t = Taken(data)
            /\ con = Content' /\ pan = partial'
      OBVIOUS
    <3>2. /\ co \in Seq(Byte) /\ pa \in Seq(Byte) /\ t \in Seq(Byte)
          /\ con \in Seq(Byte) /\ pan \in Seq(Byte)
      BY <2>3, <3>1, CommandsTyped, LengthsTyped DEF DataTypeOK, DeviceKept
    <3>3. (co \o pa) \o t = old \o (con \o pan)
      BY <2>2, <3>1 DEF Takes
    <3>4. Len((co \o pa) \o t) = Len(co) + Len(pa) + Len(t)
          /\ Len(old \o (con \o pan)) = Len(old) + Len(con) + Len(pan)
      BY <3>2
    <3> QED
      BY <2>3, <3>1, <3>2, <3>3, <3>4
  <2>5. Size(pc[c], bytes_received[c]) = Len(data)
    BY <2>1 DEF Write, Size, StoreLabels
  <2>6. Size(pc'[c], bytes_received'[c]) = 0
    BY <1>2 DEF Size, StoreLabels, AcceptTypeOK
  <2>7. \A d \in Clients \ {c} :
          pc'[d] = pc[d] /\ bytes_received'[d] = bytes_received[d]
    BY <1>2 DEF AcceptTypeOK, DataTypeOK, BytesTypeOK
  <2>8. PICK n \in Nat : n = Len(data)
    OBVIOUS
  <2>9. GrowsNoMore(n, 0)
    BY <1>2, <2>4, <2>8, LengthsTyped DEF GrowsNoMore
  <2> QED
    BY <2>5, <2>6, <2>7, <2>8, <2>9, StoredKeeps
<1> QED
  BY <1>1, <1>2 DEF Write, GiveUp, buffers

LEMMA StoredUnchanged ==
  ASSUME StoredOnce, UNCHANGED <<device, pc, bytes_received, received>>
  PROVE  StoredOnce'
<1>1. UNCHANGED <<Content, partial>>
  BY DEF Content, Commands, device
<1>2. UNCHANGED Cardinality(Pending(pc, bytes_received))
  OBVIOUS
<1> QED
  BY <1>1, <1>2 DEF StoredOnce

LEMMA StoredHandler ==
  ASSUME DataTypeOK, DataTypeOK', AcceptTypeOK, StoredOnce, NEW c \in Clients,
         Handler(c)
  PROVE  StoredOnce'
<1> USE DEF Goto, buffers, StoreLabels
<1>1. CASE Recv(c) \/ Write(c)
  BY <1>1, StoredRecv, StoredWrite
<1>2. CASE OpenDataFile(c, "open_seek", TRUE, "ioctl", "failed")
           \/ OpenDataFile(c, "open_read", FALSE, "lock_read", "failed")
  BY <1>2, StoredStays DEF OpenDataFile
<1>3. CASE OpenDataFile(c, "open_write", TRUE, "lock_write", "lock_write")
  BY <1>3, StoredStays DEF OpenDataFile
<1>4. CASE MutexLock(c, "lock_write", "write") \/ MutexLock(c, "lock_read", "read")
  BY <1>4, StoredStays DEF MutexLock
<1>5. CASE Ioctl(c) \/ CloseWrite(c)
  <2>1. AfterChunk(c) \notin StoreLabels
    BY DEF AfterChunk
  <2> QED
    BY <1>5, <2>1, StoredStays DEF Ioctl, CloseWrite
<1>6. CASE Read(c)
  <2>1. PICK label \in {"send", "failed"} : pc' = [pc EXCEPT ![c] = label]
    BY <1>6 DEF Read, GiveUp
  <2> QED
    BY <1>6, <2>1, StoredStays DEF Read, GiveUp
<1>7. CASE Send(c)
  <2>1. PICK label \in {"close_client", "lock_read", "failed"} :
          pc' = [pc EXCEPT ![c] = label]
    BY <1>7 DEF Send, GiveUp
  <2> QED
    BY <1>7, <2>1, StoredStays DEF Send, GiveUp
<1>8. CASE Sigpipe(c)
  BY <1>8, StoredUnchanged DEF Sigpipe
<1>9. CASE CloseClient(c) \/ Complete(c) \/ CloseData(c)
  BY <1>9, StoredStays DEF CloseClient, Complete, CloseData
<1> QED
  BY <1>1, <1>2, <1>3, <1>4, <1>5, <1>6, <1>7, <1>8, <1>9 DEF Handler

LEMMA StoredNext ==
  DataInv /\ DataInv' /\ StoredOnce /\ [Next]_vars => StoredOnce'
<1> SUFFICES ASSUME DataInv, DataInv', StoredOnce, [Next]_vars
             PROVE  StoredOnce'
  OBVIOUS
<1>1. DataTypeOK /\ DataTypeOK' /\ AcceptTypeOK
  BY DEF DataInv, AcceptInv
<1>2. CASE Main
  <2>1. CASE Accept
    <3>1. Head(backlog) \in Clients /\ pc[Head(backlog)] = "pending"
      <4>1. backlog # <<>> /\ backlog \in Seq(Clients)
        BY <1>1, <2>1 DEF Accept, AcceptTypeOK
      <4>2. Head(backlog) = backlog[1] /\ 1 \in 1 .. Len(backlog)
            /\ backlog[1] \in Clients
        BY <4>1
      <4> QED
        BY <4>2 DEF DataInv, AcceptInv, BacklogPending
    <3>2. PICK label \in {"recv", "unstarted"} :
            pc' = [pc EXCEPT ![Head(backlog)] = label]
      BY <2>1 DEF Accept, Goto
    <3>3. UNCHANGED <<device, bytes_received, received>>
      BY <2>1 DEF Accept, buffers
    <3> QED
      BY <1>1, <3>1, <3>2, <3>3, StoredStays DEF StoreLabels
  <2>2. CASE ~ Accept
    BY <1>2, <2>2, StoredUnchanged DEF Main, AcceptFails, buffers
  <2> QED
    BY <2>1, <2>2
<1>3. ASSUME NEW c \in Clients, Handler(c)
      PROVE  StoredOnce'
  BY <1>1, <1>3, StoredHandler
<1>4. ASSUME NEW c \in Clients, Connect(c)
      PROVE  StoredOnce'
  BY <1>1, <1>4, StoredStays DEF Connect, Goto, buffers, StoreLabels
<1>5. CASE UNCHANGED vars
  BY <1>5, StoredUnchanged DEF vars, buffers
<1> QED
  BY <1>2, <1>3, <1>4, <1>5 DEF Next

LEMMA StoredInit == Init => StoredOnce
<1> SUFFICES ASSUME Init
             PROVE  StoredOnce
  OBVIOUS
<1>1. Pending(pc, bytes_received) = {}
  BY DEF Init, Pending, PendingOf, Size
<1>2. Cardinality(Pending(pc, bytes_received)) = 0
  BY <1>1, FS_EmptySet
<1>3. Len(received) \in Nat /\ received = Content /\ partial = <<>>
  BY DataInit DEF Init, DataInv, DataTypeOK, BytesTypeOK
<1> QED
  BY <1>2, <1>3 DEF StoredOnce

(* However the threads race for the descriptor, and whatever fails: no      *)
(* chunk is stored twice.                                                   *)
THEOREM NothingIsStoredTwice == Spec => []NothingStoredTwice
<1>1. DataInv /\ StoredOnce => NothingStoredTwice
  <2> SUFFICES ASSUME DataInv, StoredOnce
               PROVE  NothingStoredTwice
    OBVIOUS
  <2>0. DataTypeOK
    BY DEF DataInv
  <2>1. Cardinality(Pending(pc, bytes_received)) \in Nat
    <3>1. CASE Clients = {}
      <4>1. Pending(pc, bytes_received) = {}
        BY <3>1 DEF Pending
      <4> QED
        BY <4>1, FS_EmptySet
    <3>2. CASE Clients # {}
      <4>1. PICK c \in Clients : TRUE
        BY <3>2
      <4>2. Splits(c, pc, bytes_received)
        BY <2>0, PendingSplits DEF DataTypeOK, BytesTypeOK
      <4>3. Size(pc[c], bytes_received[c]) \in Nat
        BY <2>0 DEF Size, DataTypeOK, BytesTypeOK
      <4> QED
        BY <4>2, <4>3 DEF Splits
    <3> QED
      BY <3>1, <3>2
  <2>2. Len(Content) \in Nat /\ Len(partial) \in Nat /\ Len(received) \in Nat
    BY <2>0, CommandsTyped DEF DataTypeOK, DeviceKept, BytesTypeOK
  <2> QED
    BY <2>1, <2>2 DEF StoredOnce, NothingStoredTwice
<1>2. DataInv /\ [Next]_vars => DataInv'
  BY DataStep
<1> QED
  BY <1>1, <1>2, DataInit, StoredInit, StoredNext, PTL DEF Spec

-----------------------------------------------------------------------------
(* One client after the other: every byte is stored *)

(* A newline ends the chunk it is in: what follows it is not written.       *)
OneLinePerChunk ==
  \A chunk \in Chunks :
    chunk.seek = NoSeek => AppendIndex(chunk.data) = Len(chunk.data)

(* What was received is what the device holds and what is still to be       *)
(* written, after what a full device gave up.                               *)
Arrived(bytes) ==
  \E old \in Seq(Byte) :
    /\ received = old \o ((Content \o partial) \o bytes)
    /\ ~ buffer.full => old = <<>>

StoredInv ==
  /\ (\A c \in Clients : pc[c] \notin StoreLabels) => Arrived(<<>>)
  /\ \A c \in Clients : pc[c] \in StoreLabels =>
       Arrived(Received(c)) /\ AppendIndex(Received(c)) = Len(Received(c))

LEMMA ArriveMore ==
  ASSUME NEW S, NEW old \in Seq(S), NEW x \in Seq(S), NEW more \in Seq(S)
  PROVE  (old \o (x \o <<>>)) \o more = old \o (x \o more)
<1>1. x \o <<>> = x
  BY ConcatEmptySeq
<1>2. Associate(old, x, more)
  BY SequencesAssociate
<1> QED
  BY <1>1, <1>2, Zenon DEF Associate

LEMMA ArriveStored ==
  ASSUME NEW S, NEW old \in Seq(S), NEW gone \in Seq(S), NEW x \in Seq(S)
  PROVE  old \o (gone \o x) = (old \o gone) \o (x \o <<>>)
<1>1. x \o <<>> = x
  BY ConcatEmptySeq
<1>2. Associate(old, gone, x)
  BY SequencesAssociate
<1> QED
  BY <1>1, <1>2, Zenon DEF Associate

(* A step that neither receives nor stores.                                 *)
LEMMA ArrivedStays ==
  ASSUME StoredInv, AcceptTypeOK, NEW c \in Clients,
         NEW label, pc' = [pc EXCEPT ![c] = label],
         label \in StoreLabels <=> pc[c] \in StoreLabels,
         UNCHANGED <<device, receive_buffer, bytes_received, received>>
  PROVE  StoredInv'
<1>1. UNCHANGED <<Content, partial, buffer>>
  BY DEF Content, Commands, device
<1>2. \A d \in Clients : Received(d)' = Received(d)
  BY DEF Received
<1>3. \A d \in Clients : pc'[d] \in StoreLabels <=> pc[d] \in StoreLabels
  BY DEF AcceptTypeOK
<1>4. Arrived(<<>>) => Arrived(<<>>)'
  BY <1>1 DEF Arrived
<1>5. \A d \in Clients : Arrived(Received(d)) => Arrived(Received(d))'
  BY <1>1, <1>2 DEF Arrived
<1> QED
  BY <1>2, <1>3, <1>4, <1>5 DEF StoredInv

LEMMA ArrivedUnchanged ==
  ASSUME StoredInv,
         UNCHANGED <<pc, device, receive_buffer, bytes_received, received>>
  PROVE  StoredInv'
<1>1. UNCHANGED <<Content, partial, buffer>>
  BY DEF Content, Commands, device
<1>2. \A d \in Clients : Received(d)' = Received(d)
  BY DEF Received
<1>3. Arrived(<<>>) => Arrived(<<>>)'
  BY <1>1 DEF Arrived
<1>4. \A d \in Clients : Arrived(Received(d)) => Arrived(Received(d))'
  BY <1>1, <1>2 DEF Arrived
<1> QED
  BY <1>2, <1>3, <1>4 DEF StoredInv

(* Only the client that has the turn receives and stores.                   *)
LEMMA OthersRest ==
  ASSUME TurnInv, NEW c \in Active, NEW d \in Clients \ {c}
  PROVE  pc[d] \notin StoreLabels
BY DEF TurnInv, OneAtATime, Active, StoreLabels

(* What the client whose turn it is finds in its inbox, or an empty recv.   *)
LEMMA TurnReceives ==
  ASSUME TurnInv, DataTypeOK, AcceptTypeOK, InTurn, NEW c \in Clients, Recv(c)
  PROVE  /\ c \in Active /\ UNCHANGED device
         /\ \/ \E chunk \in Chunks :
                 /\ receive_buffer' = [receive_buffer EXCEPT ![c] = chunk]
                 /\ bytes_received' =
                      [bytes_received EXCEPT ![c] = Len(chunk.data)]
                 /\ received' = received \o Stored(chunk)
                 /\ pc' = [pc EXCEPT ![c] = Branch(chunk)]
            \/ /\ bytes_received' = [bytes_received EXCEPT ![c] = 0]
               /\ pc' = [pc EXCEPT ![c] = "open_write"]
               /\ UNCHANGED <<receive_buffer, received>>
<1>1. /\ pc[c] = "recv" /\ c \in Active
      /\ At(clientSocketFd[c]) = Socket(c) /\ Turn(c)
      /\ "RESET" \notin Faults
  BY TurnFinds DEF Recv, Active, SocketLabels, InTurn, TurnInv
<1>2. Socket(c).type = "socket" /\ Socket(c).conn = c
  BY DEF Socket
<1>3. Branch(receive_buffer[c]) = "open_write"
  BY <1>1 DEF Turn, LineLabels, Branch
<1>4. inbox[c] # <<>> => Head(inbox[c]) \in Chunks
  BY HeadTailProperties DEF TurnInv, BuffersTyped
<1> QED
  BY <1>1, <1>2, <1>3, <1>4 DEF Recv, Goto

LEMMA ArrivedRecv ==
  ASSUME StoredInv, TurnInv, DataTypeOK, DataTypeOK', AcceptTypeOK, InTurn,
         OneLinePerChunk, NEW c \in Clients, Recv(c)
  PROVE  StoredInv'
<1>1. c \in Active /\ pc[c] = "recv" /\ pc \in [Clients -> Labels]
      /\ UNCHANGED <<Content, partial, buffer>>
  BY TurnReceives DEF Recv, AcceptTypeOK, Content, Commands, device
<1>2. \A d \in Clients : pc[d] \notin StoreLabels
  BY <1>1, OthersRest DEF StoreLabels
<1>3. PICK x \in Seq(Byte) : x = Content \o partial
  BY CommandsTyped, ConcatProperties DEF DataTypeOK, DeviceKept
<1>4. PICK old \in Seq(Byte) :
        received = old \o (x \o <<>>) /\ (~ buffer.full => old = <<>>)
  BY <1>2, <1>3 DEF StoredInv, Arrived
<1>5. ASSUME NEW more \in Seq(Byte), received' = received \o more,
             Received(c)' = more, AppendIndex(more) = Len(more),
             \A d \in Clients \ {c} : pc'[d] = pc[d],
             pc'[c] = "open_write"
      PROVE  StoredInv'
  <2>1. received' = old \o (x \o more)
    BY <1>4, <1>5, ArriveMore
  <2>2. Arrived(Received(c))'
    BY <1>1, <1>3, <1>4, <1>5, <2>1 DEF Arrived
  <2>3. pc'[c] \in StoreLabels
        /\ \A d \in Clients \ {c} : pc'[d] \notin StoreLabels
    BY <1>2, <1>5 DEF StoreLabels
  <2> QED
    BY <1>5, <2>2, <2>3 DEF StoredInv
<1>6. ASSUME NEW chunk \in Chunks,
             receive_buffer' = [receive_buffer EXCEPT ![c] = chunk],
             bytes_received' = [bytes_received EXCEPT ![c] = Len(chunk.data)],
             received' = received \o Stored(chunk),
             pc' = [pc EXCEPT ![c] = Branch(chunk)]
      PROVE  StoredInv'
  <2>1. PICK data \in Seq(Byte) : data = chunk.data
    BY ChunksTyped, RequestsTyped
  <2>2. chunk \in Chunk
    BY ChunksTyped
  <2>3. receive_buffer'[c] = chunk /\ bytes_received'[c] = Len(data)
    BY <1>6, <2>1 DEF DataTypeOK, BytesTypeOK
  <2>4. Received(c)' = data
    BY <2>1, <2>3 DEF Received
  <2>5. pc'[c] = Branch(chunk) /\ \A d \in Clients \ {c} : pc'[d] = pc[d]
    BY <1>1, <1>6
  <2>6. CASE chunk.seek = NoSeek
    <3>1. Stored(chunk) = data /\ Branch(chunk) = "open_write"
          /\ AppendIndex(data) = Len(data)
      BY <2>1, <2>6 DEF Stored, Branch, OneLinePerChunk
    <3> QED
      BY <1>5, <1>6, <2>4, <2>5, <3>1
  <2>7. CASE chunk.seek # NoSeek
    <3>1. received' = received
      <4>1. Stored(chunk) = <<>>
        BY <2>7 DEF Stored
      <4> QED
        BY <1>6, <4>1, ConcatEmptySeq DEF DataTypeOK, BytesTypeOK
    <3>2. pc'[c] = "open_seek"
      BY <2>5, <2>7 DEF Branch
    <3>3. \A d \in Clients : pc'[d] \notin StoreLabels
      BY <1>2, <2>5, <3>2 DEF StoreLabels
    <3>4. Arrived(<<>>)'
      BY <1>1, <1>3, <1>4, <3>1 DEF Arrived
    <3> QED
      BY <3>3, <3>4 DEF StoredInv
  <2> QED
    BY <2>6, <2>7
<1>7. CASE /\ bytes_received' = [bytes_received EXCEPT ![c] = 0]
           /\ pc' = [pc EXCEPT ![c] = "open_write"]
           /\ UNCHANGED <<receive_buffer, received>>
  <2>1. bytes_received'[c] = 0
    BY <1>7 DEF DataTypeOK, BytesTypeOK
  <2>2. Received(c)' = <<>>
    BY <2>1 DEF Received
  <2>3. <<>> \in Seq(Byte) /\ Len(<<>>) = 0 /\ AppendIndex(<<>>) = 0
    BY DEF AppendIndex, NewlineFound
  <2>4. received' = received \o <<>>
    BY <1>7, ConcatEmptySeq DEF DataTypeOK, BytesTypeOK
  <2>5. pc'[c] = "open_write" /\ \A d \in Clients \ {c} : pc'[d] = pc[d]
    BY <1>1, <1>7
  <2> QED
    BY <1>5, <2>2, <2>3, <2>4, <2>5
<1> QED
  BY <1>6, <1>7, TurnReceives

LEMMA ArrivedWrite ==
  ASSUME StoredInv, TurnInv, DataTypeOK, DataTypeOK', AcceptTypeOK, InTurn,
         NEW c \in Clients, Write(c)
  PROVE  StoredInv'
<1>1. /\ pc[c] = "write" /\ c \in Active /\ pc \in [Clients -> Labels]
      /\ At(dataFileDescriptor).type = "device" /\ At(dataFileDescriptor).writable
  BY TurnFinds DEF Write, Active, TurnInv, Turn, BothLabels, At, AcceptTypeOK
<1>2. /\ DeviceWrite(Received(c)) /\ pc' = [pc EXCEPT ![c] = "close_write"]
      /\ UNCHANGED received
  BY <1>1 DEF Write, GiveUp, Goto, InTurn
<1>3. PICK data \in Seq(Byte) : data = Received(c)
  BY ReceivedTyped DEF DataTypeOK
<1>4. PICK x \in Seq(Byte) : x = Content \o partial
  BY CommandsTyped, ConcatProperties DEF DataTypeOK, DeviceKept
<1>5. PICK old \in Seq(Byte) :
        received = old \o (x \o data) /\ (~ buffer.full => old = <<>>)
  BY <1>1, <1>3, <1>4 DEF StoredInv, Arrived, StoreLabels
<1>6. Taken(data) = data
  <2>1. AppendIndex(data) = Len(data)
    BY <1>1, <1>3 DEF StoredInv, StoreLabels
  <2> QED
    BY <2>1 DEF Taken
<1>7. PICK gone \in Seq(Byte) : Takes(gone, data)
  BY <1>2, <1>3, WriteStores DEF DataTypeOK
<1>8. PICK y \in Seq(Byte) : y = Content' \o partial'
  BY LengthsTyped, ConcatProperties DEF DataTypeOK, DeviceKept
<1>9. received' = (old \o gone) \o (y \o <<>>)
  <2>1. x \o data = gone \o y
    BY <1>4, <1>6, <1>7, <1>8, Zenon DEF Takes
  <2>2. received' = old \o (gone \o y)
    BY <1>2, <1>5, <2>1, Zenon
  <2>3. old \o (gone \o y) = (old \o gone) \o (y \o <<>>)
    BY ArriveStored
  <2> QED
    BY <2>2, <2>3, Zenon
<1>10. PICK all \in Seq(Byte) : all = old \o gone
  BY ConcatProperties
<1>11. ~ buffer'.full => all = <<>>
  <2>1. ~ buffer'.full => old = <<>> /\ gone = <<>>
    BY <1>5, <1>7 DEF Takes
  <2> QED
    BY <1>10, <2>1
<1>12. Arrived(<<>>)'
  BY <1>8, <1>9, <1>10, <1>11 DEF Arrived
<1>13. \A d \in Clients : pc'[d] \notin StoreLabels
  BY <1>1, <1>2, OthersRest DEF StoreLabels
<1> QED
  BY <1>12, <1>13 DEF StoredInv

LEMMA ArrivedHandler ==
  ASSUME StoredInv, TurnInv, DataTypeOK, DataTypeOK', AcceptTypeOK, InTurn,
         OneLinePerChunk, NEW c \in Clients, Handler(c)
  PROVE  StoredInv'
<1> USE DEF Goto, buffers, StoreLabels
<1>0. Turn(c)
  BY DEF TurnInv
<1>1. CASE Recv(c) \/ Write(c)
  BY <1>1, ArrivedRecv, ArrivedWrite
<1>2. CASE OpenDataFile(c, "open_seek", TRUE, "ioctl", "failed")
           \/ OpenDataFile(c, "open_read", FALSE, "lock_read", "failed")
  BY <1>2, ArrivedStays DEF OpenDataFile
<1>3. CASE OpenDataFile(c, "open_write", TRUE, "lock_write", "lock_write")
  BY <1>3, ArrivedStays DEF OpenDataFile
<1>4. CASE MutexLock(c, "lock_write", "write") \/ MutexLock(c, "lock_read", "read")
  BY <1>4, ArrivedStays DEF MutexLock
<1>5. CASE Ioctl(c) \/ CloseWrite(c)
  <2>1. AfterChunk(c) \notin StoreLabels
    BY DEF AfterChunk
  <2> QED
    BY <1>5, <2>1, ArrivedStays DEF Ioctl, CloseWrite
<1>6. CASE Read(c)
  <2>1. PICK label \in {"send", "failed"} : pc' = [pc EXCEPT ![c] = label]
    BY <1>6 DEF Read, GiveUp
  <2> QED
    BY <1>6, <2>1, ArrivedStays DEF Read, GiveUp
<1>7. CASE Send(c)
  <2>1. PICK label \in {"close_client", "lock_read", "failed"} :
          pc' = [pc EXCEPT ![c] = label]
    BY <1>7 DEF Send, GiveUp
  <2> QED
    BY <1>7, <2>1, ArrivedStays DEF Send, GiveUp
<1>8. CASE Sigpipe(c)
  BY <1>8, ArrivedUnchanged DEF Sigpipe
<1>9. CASE CloseClient(c) \/ Complete(c) \/ CloseData(c)
  BY <1>9, ArrivedStays DEF CloseClient, Complete, CloseData
<1> QED
  BY <1>1, <1>2, <1>3, <1>4, <1>5, <1>6, <1>7, <1>8, <1>9 DEF Handler

LEMMA ArrivedNext ==
  ASSUME InTurn, OneLinePerChunk
  PROVE  DataInv /\ DataInv' /\ TurnInv /\ StoredInv /\ [Next]_vars => StoredInv'
<1> SUFFICES ASSUME DataInv, DataInv', TurnInv, StoredInv, [Next]_vars
             PROVE  StoredInv'
  OBVIOUS
<1>1. DataTypeOK /\ DataTypeOK' /\ AcceptTypeOK
  BY DEF DataInv, AcceptInv
<1>2. CASE Main
  <2>1. CASE Accept
    <3>1. Head(backlog) \in Clients /\ pc[Head(backlog)] = "pending"
      <4>1. backlog # <<>> /\ backlog \in Seq(Clients)
        BY <1>1, <2>1 DEF Accept, AcceptTypeOK
      <4>2. Head(backlog) = backlog[1] /\ 1 \in 1 .. Len(backlog)
            /\ backlog[1] \in Clients
        BY <4>1
      <4> QED
        BY <4>2 DEF DataInv, AcceptInv, BacklogPending
    <3>2. PICK label \in {"recv", "unstarted"} :
            pc' = [pc EXCEPT ![Head(backlog)] = label]
      BY <2>1 DEF Accept, Goto
    <3>3. UNCHANGED <<device, receive_buffer, bytes_received, received>>
      BY <2>1 DEF Accept, buffers
    <3> QED
      BY <1>1, <3>1, <3>2, <3>3, ArrivedStays DEF StoreLabels
  <2>2. CASE ~ Accept
    BY <1>2, <2>2, ArrivedUnchanged DEF Main, AcceptFails, buffers
  <2> QED
    BY <2>1, <2>2
<1>3. ASSUME NEW c \in Clients, Handler(c)
      PROVE  StoredInv'
  BY <1>1, <1>3, ArrivedHandler
<1>4. ASSUME NEW c \in Clients, Connect(c)
      PROVE  StoredInv'
  BY <1>1, <1>4, ArrivedStays DEF Connect, Goto, buffers, StoreLabels
<1>5. CASE UNCHANGED vars
  BY <1>5, ArrivedUnchanged DEF vars, buffers
<1> QED
  BY <1>2, <1>3, <1>4, <1>5 DEF Next

LEMMA ArrivedInit == Init => StoredInv
<1> SUFFICES ASSUME Init
             PROVE  StoredInv
  OBVIOUS
<1>1. \A c \in Clients : pc[c] \notin StoreLabels
  BY DEF Init, StoreLabels
<1>2. PICK content \in Seq(Byte) : content = Content
  BY DataInit, CommandsTyped DEF DataInv, DataTypeOK
<1>3. received = content /\ partial = <<>>
  BY <1>2 DEF Init
<1>4. <<>> \in Seq(Byte) /\ received = <<>> \o ((content \o <<>>) \o <<>>)
  BY <1>3
<1>5. Arrived(<<>>)
  BY <1>2, <1>3, <1>4 DEF Arrived
<1> QED
  BY <1>1, <1>5 DEF StoredInv

LEMMA Backwards ==
  ASSUME NEW S, NEW s \in Seq(S)
  PROVE  /\ Reverse(s) \in Seq(S) /\ Len(Reverse(s)) = Len(s)
         /\ \A i \in 1 .. Len(s) : Reverse(s)[i] = s[(Len(s) - i) + 1]
<1>1. \A i \in 1 .. Len(s) : (Len(s) - i) + 1 \in 1 .. Len(s)
  OBVIOUS
<1>2. \A i \in 1 .. Len(s) : s[(Len(s) - i) + 1] \in S
  BY <1>1
<1> QED
  BY <1>2 DEF Reverse

LEMMA SuffixOf ==
  ASSUME NEW S, NEW s \in Seq(S), NEW t \in Seq(S)
  PROVE  IsSuffix(t, s \o t)
<1>1. PICK m, n, r : m = Len(s) /\ n = Len(t) /\ r = s \o t
  OBVIOUS
<1>2. /\ m \in Nat /\ n \in Nat /\ r \in Seq(S) /\ Len(r) = m + n
      /\ \A i \in 1 .. n : r[m + i] = t[i]
  BY <1>1, ConcatProperties
<1>3. PICK back, all : back = Reverse(t) /\ all = Reverse(r)
  OBVIOUS
<1>4. /\ back \in Seq(S) /\ Len(back) = n
      /\ \A i \in 1 .. n : back[i] = t[(n - i) + 1]
  BY <1>1, <1>3, Backwards
<1>5. /\ all \in Seq(S) /\ Len(all) = m + n
      /\ \A i \in 1 .. m + n : all[i] = r[((m + n) - i) + 1]
  <2>1. /\ all \in Seq(S) /\ Len(all) = Len(r)
        /\ \A i \in 1 .. Len(r) : all[i] = r[(Len(r) - i) + 1]
    BY <1>2, <1>3, Backwards
  <2> QED
    BY <1>2, <2>1, Zenon
<1>6. ASSUME NEW i \in 1 .. n
      PROVE  back[i] = all[i]
  <2>1. /\ i \in 1 .. m + n /\ (n - i) + 1 \in 1 .. n
        /\ ((m + n) - i) + 1 = m + ((n - i) + 1)
    BY <1>2, <1>6
  <2> QED
    BY <1>2, <1>4, <1>5, <2>1
<1>7. SubSeq(back, 1, n) = SubSeq(all, 1, n)
  <2>1. /\ SubSeq(back, 1, n) \in Seq(S) /\ SubSeq(all, 1, n) \in Seq(S)
        /\ Len(SubSeq(back, 1, n)) = n /\ Len(SubSeq(all, 1, n)) = n
        /\ \A i \in 1 .. n : /\ SubSeq(back, 1, n)[i] = back[i]
                             /\ SubSeq(all, 1, n)[i] = all[i]
    BY <1>2, <1>4, <1>5
  <2> QED
    BY <1>6, <2>1, SeqEqual
<1>8. Len(back) <= Len(all)
  BY <1>2, <1>4, <1>5
<1> QED
  BY <1>1, <1>3, <1>4, <1>7, <1>8 DEF IsSuffix, IsPrefix

(* What clients send one after the other, a line at most in a chunk, is     *)
(* stored: between two requests the device holds the bytes received, in     *)
(* their order, and until it is full all of them.                           *)
THEOREM EveryByteIsStored ==
  ASSUME MaxActive <= 1, Faults \subseteq {"MALLOC", "EOF"},
         SeeksAreWhole, OneLinePerChunk, \E d, e \in FDs : d # e
  PROVE  Spec => []EveryByteStored
<1>1. InTurn
  BY DEF InTurn
<1>2. DataInv /\ StoredInv => EveryByteStored
  <2> SUFFICES ASSUME DataInv, StoredInv,
                      \A c \in Clients :
                        pc[c] \in {"none", "pending", "recv", "ended"}
               PROVE  /\ IsSuffix(Content \o partial, received)
                      /\ ~ buffer.full => Content \o partial = received
    BY DEF EveryByteStored
  <2>1. PICK x \in Seq(Byte) : x = Content \o partial
    BY CommandsTyped, ConcatProperties DEF DataInv, DataTypeOK, DeviceKept
  <2>2. PICK old \in Seq(Byte) :
          received = old \o (x \o <<>>) /\ (~ buffer.full => old = <<>>)
    BY <2>1 DEF StoredInv, Arrived, StoreLabels
  <2>3. received = old \o x
    BY <2>2, ConcatEmptySeq
  <2>4. IsSuffix(x, old \o x)
    BY SuffixOf
  <2>5. ~ buffer.full => received = x
    BY <2>2, <2>3, ConcatEmptySeq
  <2> QED
    BY <2>1, <2>3, <2>4, <2>5, Zenon
<1>3. DataInv /\ [Next]_vars => DataInv'
  BY DataStep
<1>4. DataInv /\ DataInv' /\ TurnInv /\ StoredInv /\ [Next]_vars => StoredInv'
  BY <1>1, ArrivedNext
<1>5. Spec => []TurnInv
  BY <1>1, TurnAlways
<1> QED
  BY <1>2, <1>3, <1>4, <1>5, DataInit, ArrivedInit, PTL DEF Spec

-----------------------------------------------------------------------------
(* One client after the other: the reply is what the device holds *)

NoGarbledSeeks == \A chunk \in Chunks : chunk.seek # GARBLED

Before ==
  {"none", "pending", "recv", "open_seek", "open_write", "lock_write", "write",
   "close_write", "open_read", "ioctl"}

Position == fds[dataFileDescriptor].pos

(* The bytes from where the reply begins to where the reading is.           *)
Shown(c, bytes) ==
  receive_buffer[c].seek = NoSeek \/ buffer.out_offs = 0 =>
    /\ From(receive_buffer[c].seek) <= Position /\ Position <= Len(Content)
    /\ bytes = SubSeq(Content, From(receive_buffer[c].seek) + 1, Position)

ReplyOf(c) ==
  /\ receive_buffer[c].seek # GARBLED
  /\ pc[c] \in Before => reply[c] = <<>>
  /\ pc[c] = "ioctl" => Position = 0
  /\ pc[c] = "open_read" => receive_buffer[c].seek = NoSeek
  /\ pc[c] \in {"lock_read", "read"} => Shown(c, reply[c])
  /\ pc[c] = "send" => /\ Shown(c, reply[c] \o send_buffer[c])
                       /\ send_buffer[c] = <<>> => Position >= Len(Content)

ReplyInv == \A c \in Clients : ReplyOf(c)

LEMMA PieceAfterPiece ==
  ASSUME NEW S, NEW s \in Seq(S), NEW a \in Nat, NEW p \in Nat, NEW n \in Nat,
         a <= p, p + n <= Len(s)
  PROVE  SubSeq(s, a + 1, p) \o SubSeq(s, p + 1, p + n)
           = SubSeq(s, a + 1, p + n)
<1>1. PICK one, two, all, m : /\ one = SubSeq(s, a + 1, p)
                              /\ two = SubSeq(s, p + 1, p + n)
                              /\ all = SubSeq(s, a + 1, p + n)
                              /\ m = p - a
  OBVIOUS
<1>2. /\ m \in Nat /\ one \in Seq(S) /\ Len(one) = m
      /\ \A i \in 1 .. m : one[i] = s[a + i]
  BY <1>1
<1>3. /\ two \in Seq(S) /\ Len(two) = n
      /\ \A i \in 1 .. n : two[i] = s[p + i]
  BY <1>1
<1>4. /\ all \in Seq(S) /\ Len(all) = m + n
      /\ \A i \in 1 .. m + n : all[i] = s[a + i]
  BY <1>1
<1>5. PICK both : both = one \o two
  OBVIOUS
<1>6. /\ both \in Seq(S) /\ Len(both) = m + n
      /\ \A i \in 1 .. m + n :
           both[i] = IF i <= m THEN one[i] ELSE two[i - m]
  <2>1. /\ one \o two \in Seq(S) /\ Len(one \o two) = Len(one) + Len(two)
        /\ \A i \in 1 .. Len(one) + Len(two) :
             (one \o two)[i] = IF i <= Len(one) THEN one[i]
                               ELSE two[i - Len(one)]
    BY <1>2, <1>3, ConcatProperties
  <2> QED
    BY <1>2, <1>3, <1>5, <2>1, Zenon
<1>7. ASSUME NEW i \in 1 .. m + n
      PROVE  both[i] = all[i]
  <2>1. CASE i <= m
    <3>1. i \in 1 .. m
      BY <1>2, <1>7, <2>1
    <3> QED
      BY <1>2, <1>4, <1>6, <1>7, <2>1, <3>1
  <2>2. CASE ~ (i <= m)
    <3>1. i - m \in 1 .. n /\ p + (i - m) = a + i
      BY <1>1, <1>2, <1>7, <2>2
    <3> QED
      BY <1>3, <1>4, <1>6, <2>2, <3>1
  <2> QED
    BY <2>1, <2>2
<1>8. both = all
  BY <1>4, <1>6, <1>7, SeqEqual
<1> QED
  BY <1>1, <1>5, <1>8

(* The place a reply begins at lies within the content.                     *)
LEMMA FromTyped ==
  ASSUME DataTypeOK, NEW seek \in {NoSeek} \union (Nat \X Nat)
  PROVE  From(seek) \in Nat /\ From(seek) <= Len(Content)
<1>1. PICK lines \in Seq(Seq(Byte)) : lines = Commands
  BY CommandsTyped DEF DataTypeOK
<1>2. Content = FlattenSeq(lines) /\ Len(Content) \in Nat
  BY <1>1, CommandsTyped DEF Content, DataTypeOK
<1>3. CASE /\ seek # NoSeek
           /\ seek[1] < Len(lines) /\ seek[2] < Len(lines[seek[1] + 1])
  <2>1. PICK cmd \in Nat, off \in Nat : cmd = seek[1] /\ off = seek[2]
    BY <1>3
  <2>2. From(seek) = Len(Upto(lines, cmd)) + off
    BY <1>1, <1>3, <2>1 DEF From, Upto
  <2>3. PICK i \in 1 .. Len(lines) : i = cmd + 1 /\ i - 1 = cmd
    <3>1. cmd + 1 \in 1 .. Len(lines) /\ (cmd + 1) - 1 = cmd
      BY <1>3, <2>1
    <3> QED
      BY <3>1
  <2>4. lines[i] \in Seq(Byte) /\ off < Len(lines[i])
    BY <1>3, <2>1, <2>3
  <2>5. PICK k \in 1 .. Len(lines[i]) : k = off + 1
    <3>1. off + 1 \in 1 .. Len(lines[i])
      BY <2>1, <2>4
    <3> QED
      BY <3>1
  <2>6. PICK upto \in Nat : upto = Len(Upto(lines, i - 1))
    <3>1. Upto(lines, i - 1) \in Seq(Byte)
      BY <2>3, UptoGrows
    <3> QED
      BY <3>1
  <2>7. upto + k \in 1 .. Len(Content)
    BY <1>2, <2>3, <2>5, <2>6, FlattenByte
  <2>8. From(seek) = upto + off
    BY <2>2, <2>3, <2>6
  <2>9. upto + off \in Nat /\ upto + off <= Len(Content)
    <3>1. k = off + 1 /\ upto \in Nat /\ off \in Nat
      BY <2>1, <2>5, <2>6
    <3> QED
      BY <1>2, <2>7, <3>1
  <2> QED
    BY <2>8, <2>9
<1>4. CASE ~ (/\ seek # NoSeek
              /\ seek[1] < Len(lines) /\ seek[2] < Len(lines[seek[1] + 1]))
  BY <1>1, <1>2, <1>4 DEF From
<1> QED
  BY <1>3, <1>4

(* Where the ioctl leads, while the oldest command is in slot 0.            *)
LEMMA SeekLeads ==
  ASSUME DataTypeOK, buffer.out_offs = 0, NEW seek \in Nat \X Nat
  PROVE  IF AdjustedOffset(buffer, seek[1], seek[2]) >= 0
         THEN From(seek) = AdjustedOffset(buffer, seek[1], seek[2])
         ELSE From(seek) = 0
<1>1. /\ buffer \in Buffers(Entry) /\ WellShaped(buffer)
      /\ Commands \in Seq(Seq(Byte)) /\ Carries(buffer, Commands, Byte)
  BY CommandsTyped DEF DataTypeOK, DeviceKept, Kept
<1>2. PICK cmd, off : cmd = seek[1] /\ off = seek[2]
  OBVIOUS
<1>3. cmd \in Nat /\ off \in Nat
  BY <1>2
<1>4. AdjustedOffset(buffer, cmd, off) =
        IF cmd < Len(Commands) /\ off < Len(Commands[cmd + 1])
        THEN Len(Upto(Commands, cmd)) + off ELSE EINVAL
  BY <1>1, <1>3, SeeksPlace
<1>5. seek # NoSeek
  BY ServerAssumption
<1>6. From(seek) = IF cmd < Len(Commands) /\ off < Len(Commands[cmd + 1])
                   THEN Len(Upto(Commands, cmd)) + off ELSE 0
  BY <1>2, <1>5 DEF From, Upto
<1>7. From(seek) \in Nat
  BY FromTyped
<1> QED
  BY <1>2, <1>4, <1>6, <1>7 DEF EINVAL

LEMMA ReplyGoesOn ==
  ASSUME ReplyInv, TurnInv, AcceptTypeOK, NEW c \in Active, NEW label,
         pc' = [pc EXCEPT ![c] = label],
         \A d \in Clients \ {c} : /\ reply'[d] = reply[d]
                                  /\ receive_buffer'[d] = receive_buffer[d],
         ReplyOf(c)'
  PROVE  ReplyInv'
<1>1. \A d \in Clients \ {c} : pc[d] \in {"none", "ended"} /\ pc'[d] = pc[d]
  <2>1. \A d \in Clients \ {c} : pc[d] \in {"none", "unstarted", "ended", "failed"}
    BY DEF TurnInv, OneAtATime, Active
  <2> QED
    BY <2>1 DEF TurnInv, Turn, AcceptTypeOK, Active
<1>2. ASSUME NEW d \in Clients \ {c}
      PROVE  ReplyOf(d)'
  <2>1. /\ reply'[d] = reply[d] /\ receive_buffer'[d] = receive_buffer[d]
        /\ pc'[d] \in {"none", "ended"} /\ pc'[d] = pc[d]
    BY <1>1
  <2>2. receive_buffer[d].seek # GARBLED /\ (pc[d] \in Before => reply[d] = <<>>)
    BY DEF ReplyInv, ReplyOf
  <2> QED
    BY <2>1, <2>2 DEF ReplyOf
<1> QED
  BY <1>2 DEF ReplyInv

(* A step before the reading begins, or after it.                           *)
LEMMA ReplyWaits ==
  ASSUME ReplyInv, TurnInv, AcceptTypeOK, NEW c \in Active,
         NEW label \in (Labels \ {"ioctl", "lock_read", "read", "send"}),
         pc' = [pc EXCEPT ![c] = label],
         label \in Before => pc[c] \in Before,
         label = "open_read" => receive_buffer[c].seek = NoSeek,
         UNCHANGED <<reply, receive_buffer>>
  PROVE  ReplyInv'
<1>1. pc'[c] = label /\ ReplyOf(c)
  BY DEF Active, AcceptTypeOK, ReplyInv
<1>2. ReplyOf(c)'
  BY <1>1 DEF ReplyOf
<1> QED
  BY <1>2, ReplyGoesOn

(* What the client that has the turn knows of the data file.                *)
LEMMA TurnPosition ==
  ASSUME TurnInv, DataTypeOK, AcceptTypeOK, NEW c \in Clients,
         pc[c] \in BothLabels
  PROVE  /\ Position \in Nat /\ At(dataFileDescriptor).pos = Position
         /\ At(dataFileDescriptor).type = "device"
         /\ dataFileDescriptor \in FDs
<1>1. At(dataFileDescriptor).type = "device"
  BY TurnFinds
<1>2. /\ dataFileDescriptor \in FDs
      /\ fds[dataFileDescriptor] = At(dataFileDescriptor)
      /\ At(dataFileDescriptor) \in DeviceFile
  BY <1>1, FileKinds DEF DataTypeOK
<1> QED
  BY <1>1, <1>2 DEF Position, DeviceFile

LEMMA ReplyRecv ==
  ASSUME ReplyInv, TurnInv, DataTypeOK, AcceptTypeOK, InTurn, NoGarbledSeeks,
         NEW c \in Clients, Recv(c)
  PROVE  ReplyInv'
<1>1. c \in Active /\ pc[c] = "recv" /\ ReplyOf(c)
  BY TurnReceives DEF Recv, ReplyInv
<1>2. reply' = reply /\ reply[c] = <<>>
  BY <1>1 DEF Recv, GiveUp, net, ReplyOf, Before
<1>3. ASSUME NEW chunk \in Chunks,
             receive_buffer' = [receive_buffer EXCEPT ![c] = chunk],
             pc' = [pc EXCEPT ![c] = Branch(chunk)]
      PROVE  ReplyInv'
  <2>1. /\ receive_buffer'[c] = chunk
        /\ \A d \in Clients \ {c} : receive_buffer'[d] = receive_buffer[d]
    BY <1>3 DEF DataTypeOK, BytesTypeOK
  <2>2. pc'[c] = Branch(chunk) /\ Branch(chunk) \in {"open_write", "open_seek"}
    BY <1>3 DEF AcceptTypeOK, Branch
  <2>3. ReplyOf(c)'
    BY <1>2, <2>1, <2>2 DEF ReplyOf, NoGarbledSeeks
  <2> QED
    BY <1>1, <1>2, <1>3, <2>1, <2>3, ReplyGoesOn
<1>4. CASE pc' = [pc EXCEPT ![c] = "open_write"] /\ UNCHANGED receive_buffer
  BY <1>1, <1>2, <1>4, ReplyWaits DEF Labels, Before
<1> QED
  BY <1>3, <1>4, TurnReceives

LEMMA ReplyOpen ==
  ASSUME ReplyInv, TurnInv, DataTypeOK, AcceptTypeOK, InTurn,
         NEW c \in Clients, NEW writable,
         NEW label \in {"open_seek", "open_write", "open_read"},
         NEW next \in {"ioctl", "lock_write", "lock_read"}, NEW onError,
         OpenDataFile(c, label, writable, next, onError),
         next = "ioctl" <=> label = "open_seek",
         next = "lock_write" <=> label = "open_write"
  PROVE  ReplyInv'
<1>1. /\ pc[c] = label /\ c \in Active /\ Turn(c) /\ SocketOpen(c)
      /\ Unused = FDs \ {clientSocketFd[c]}
      /\ "OPEN" \notin Faults
  BY DEF OpenDataFile, Active, SocketLabels, InTurn, TurnInv, Turn
<1>2. Unused # {}
  BY <1>1 DEF InTurn
<1>3. PICK d \in FDs : d = LowestUnused
  BY <1>2, LowestIsUnused DEF Unused
<1>4. /\ fds' = [fds EXCEPT ![d] = DataFile(writable)]
      /\ dataFileDescriptor' = d
      /\ pc' = [pc EXCEPT ![c] = next] /\ pc'[c] = next
      /\ UNCHANGED <<receive_buffer, reply>> /\ UNCHANGED device
  BY <1>1, <1>2, <1>3 DEF OpenDataFile, Goto, buffers, net, AcceptTypeOK
<1>5. Position' = 0
  BY <1>3, <1>4 DEF Position, DataTypeOK, FilesTypeOK, DataFile
<1>6. reply[c] = <<>> /\ receive_buffer[c].seek # GARBLED
      /\ (next = "lock_read" => receive_buffer[c].seek = NoSeek)
  BY <1>1 DEF ReplyInv, ReplyOf, Before
<1>7. next = "lock_read" => Shown(c, reply[c])'
  <2> SUFFICES ASSUME next = "lock_read"
               PROVE  Shown(c, reply[c])'
    OBVIOUS
  <2>1. PICK content \in Seq(Byte) : content = Content /\ content = Content'
    BY <1>4, CommandsTyped DEF DataTypeOK, Content, Commands, device
  <2>2. From(receive_buffer[c].seek)' = 0
    BY <1>4, <1>6 DEF From
  <2>3. reply'[c] = SubSeq(content, 0 + 1, 0)
    BY <1>4, <1>6, <2>1
  <2> QED
    BY <1>5, <2>1, <2>2, <2>3 DEF Shown
<1>8. ReplyOf(c)'
  BY <1>4, <1>5, <1>6, <1>7 DEF ReplyOf
<1> QED
  BY <1>1, <1>4, <1>8, ReplyGoesOn

LEMMA ReplyIoctl ==
  ASSUME ReplyInv, TurnInv, DataTypeOK, AcceptTypeOK,
         NEW c \in Clients, Ioctl(c)
  PROVE  ReplyInv'
<1>1. /\ pc[c] = "ioctl" /\ c \in Active /\ Turn(c) /\ ReplyOf(c)
      /\ pc[c] \in BothLabels
  BY DEF Ioctl, Active, TurnInv, ReplyInv, BothLabels
<1>2. /\ pc' = [pc EXCEPT ![c] = "lock_read"] /\ pc'[c] = "lock_read"
      /\ UNCHANGED <<buffer, Content, dataFileDescriptor, receive_buffer, reply>>
  BY <1>1 DEF Ioctl, AfterChunk, Goto, Turn, AcceptTypeOK, device, buffers, net,
              Content, Commands
<1>3. PICK seek \in Nat \X Nat : seek = receive_buffer[c].seek
  <2>1. receive_buffer[c].seek \in {NoSeek, GARBLED} \union (Nat \X Nat)
    BY DEF DataTypeOK, BytesTypeOK, Chunk
  <2> QED
    BY <1>1, <2>1 DEF Turn, ReplyOf
<1>4. /\ reply[c] = <<>> /\ Position = 0 /\ seek # GARBLED /\ seek # NoSeek
  BY <1>1, <1>3 DEF ReplyOf, Before, Turn
<1>5. PICK offset \in Nat \union {EINVAL} :
        offset = AdjustedOffset(buffer, seek[1], seek[2])
  <2>1. \A k \in Slots : buffer.entry[k].size \in Nat
    BY DEF DataTypeOK, DeviceKept, Kept, Buffers, Entry
  <2>2. AdjustedOffset(buffer, seek[1], seek[2]) \in Nat \union {EINVAL}
    BY <2>1, AdjustedOffsetType
  <2> QED
    BY <2>2
<1>6. fds' = IF offset >= 0
             THEN [fds EXCEPT ![dataFileDescriptor].pos = offset]
             ELSE fds
  BY <1>1, <1>3, <1>4, <1>5, TurnPosition DEF Ioctl, SeekTargets
<1>7. Position' = IF offset >= 0 THEN offset ELSE 0
  <2>1. CASE offset >= 0
    <3>1. offset \in Nat
      BY <2>1 DEF EINVAL
    <3>2. fds'[dataFileDescriptor].pos = offset
      BY <1>1, <1>6, <2>1, <3>1, MovedFile, TurnPosition DEF DataTypeOK
    <3> QED
      BY <1>2, <2>1, <3>2 DEF Position
  <2>2. CASE ~ (offset >= 0)
    BY <1>2, <1>4, <1>6, <2>2 DEF Position
  <2> QED
    BY <2>1, <2>2
<1>8. Shown(c, reply[c])'
  <2> SUFFICES ASSUME buffer.out_offs = 0
               PROVE  /\ From(seek)' <= Position' /\ Position' <= Len(Content')
                      /\ reply'[c] = SubSeq(Content', From(seek)' + 1, Position')
    BY <1>2, <1>3, <1>4 DEF Shown
  <2>1. PICK from : from = From(seek)
    OBVIOUS
  <2>2. From(seek)' = from
    BY <1>2, <2>1 DEF From, Commands
  <2>3. Position' = from
    BY <1>5, <1>7, <2>1, SeekLeads
  <2>4. from \in Nat /\ from <= Len(Content)
    BY <2>1, FromTyped
  <2>5. SubSeq(Content, from + 1, from) = <<>>
    BY <2>4, CommandsTyped DEF DataTypeOK
  <2> QED
    BY <1>2, <1>4, <2>2, <2>3, <2>4, <2>5
<1>9. ReplyOf(c)'
  BY <1>1, <1>2, <1>8 DEF ReplyOf, Before
<1> QED
  BY <1>1, <1>2, <1>9, ReplyGoesOn

(* Content and position stay: what was shown is shown.                      *)
LEMMA ShownStays ==
  ASSUME NEW c \in Clients, NEW bytes, Shown(c, bytes),
         UNCHANGED <<buffer, Content, Position, receive_buffer>>
  PROVE  Shown(c, bytes)'
<1>1. From(receive_buffer[c].seek)' = From(receive_buffer[c].seek)
  BY DEF From, Commands
<1> QED
  BY <1>1 DEF Shown

LEMMA ReplyLock ==
  ASSUME ReplyInv, TurnInv, DataTypeOK, AcceptTypeOK, NEW c \in Clients,
         MutexLock(c, "lock_read", "read")
  PROVE  ReplyInv'
<1>1. /\ pc[c] = "lock_read" /\ c \in Active /\ ReplyOf(c)
  BY DEF MutexLock, Active, ReplyInv
<1>2. /\ pc' = [pc EXCEPT ![c] = "read"] /\ pc'[c] = "read"
      /\ UNCHANGED <<buffer, Content, Position, receive_buffer, reply>>
  BY DEF MutexLock, Goto, device, files, buffers, net, Content, Commands,
         Position, AcceptTypeOK
<1>3. Shown(c, reply[c])'
  <2>1. PICK bytes : bytes = reply[c]
    OBVIOUS
  <2>2. Shown(c, bytes)'
    BY <1>1, <1>2, <2>1, ShownStays DEF ReplyOf
  <2> QED
    BY <1>2, <2>1, <2>2 DEF Shown
<1>4. ReplyOf(c)'
  BY <1>1, <1>2, <1>3 DEF ReplyOf, Before
<1> QED
  BY <1>1, <1>2, <1>4, ReplyGoesOn

LEMMA ReplyRead ==
  ASSUME ReplyInv, TurnInv, DataTypeOK, AcceptTypeOK,
         NEW c \in Clients, Read(c)
  PROVE  ReplyInv'
<1>1. /\ pc[c] = "read" /\ c \in Active /\ ReplyOf(c) /\ pc[c] \in BothLabels
  BY DEF Read, Active, ReplyInv, BothLabels
<1>2. PICK pos \in Nat :
        /\ pos = Position /\ At(dataFileDescriptor).pos = pos
        /\ At(dataFileDescriptor).type = "device"
        /\ dataFileDescriptor \in FDs
  BY <1>1, TurnPosition
<1>3. PICK bytes : bytes = DeviceRead(pos)
  OBVIOUS
<1>4. bytes \in Seq(Byte) /\ Delivers(pos)
  BY <1>3, ReadDelivers DEF DataTypeOK
<1>5. PICK p : p = pos + Len(bytes)
  OBVIOUS
<1>6. p \in Nat
  BY <1>4, <1>5
<1>7. /\ send_buffer' = [send_buffer EXCEPT ![c] = bytes]
      /\ fds' = [fds EXCEPT ![dataFileDescriptor].pos = p]
      /\ pc' = [pc EXCEPT ![c] = "send"]
      /\ UNCHANGED <<buffer, Content, dataFileDescriptor, receive_buffer, reply>>
  <2>1. fds[dataFileDescriptor].pos = pos
    BY <1>2 DEF Position
  <2> QED
    BY <1>2, <1>3, <1>5, <2>1 DEF Read, GiveUp, Goto, device, net, Content,
       Commands
<1>8. /\ pc'[c] = "send" /\ send_buffer'[c] = bytes
  BY <1>7 DEF AcceptTypeOK, DataTypeOK, BytesTypeOK
<1>9. Position' = p
  <2>1. fds'[dataFileDescriptor].pos = p
    BY <1>2, <1>6, <1>7, MovedFile DEF DataTypeOK
  <2> QED
    BY <1>7, <2>1 DEF Position
<1>10. PICK content \in Seq(Byte), here \in Seq(Byte) :
         content = Content /\ here = reply[c]
  BY CommandsTyped DEF DataTypeOK, BytesTypeOK
<1>11. \/ /\ pos >= Len(content) /\ bytes = <<>> /\ p = pos
       \/ \E n \in Nat \ {0} :
            /\ pos + n <= Len(content) /\ p = pos + n
            /\ bytes = SubSeq(content, pos + 1, pos + n)
            /\ Len(bytes) = n
  BY <1>3, <1>4, <1>5, <1>10 DEF Delivers
<1>12. bytes = <<>> => p >= Len(content)
  <2>1. Len(<<>>) = 0
    OBVIOUS
  <2> QED
    BY <1>11, <2>1
<1>13. Shown(c, reply[c] \o send_buffer[c])'
  <2> SUFFICES ASSUME receive_buffer[c].seek = NoSeek \/ buffer.out_offs = 0
               PROVE  /\ From(receive_buffer[c].seek)' <= p /\ p <= Len(content)
                      /\ here \o bytes =
                           SubSeq(content, From(receive_buffer[c].seek)' + 1, p)
    BY <1>7, <1>8, <1>9, <1>10 DEF Shown
  <2>1. PICK from : from = From(receive_buffer[c].seek)
    OBVIOUS
  <2>2. From(receive_buffer[c].seek)' = from
    BY <1>7, <2>1 DEF From, Commands
  <2>3. /\ from <= pos /\ pos <= Len(content)
        /\ here = SubSeq(content, from + 1, pos)
    BY <1>1, <1>2, <1>10, <2>1 DEF ReplyOf, Shown
  <2>4. from \in Nat
    <3>1. receive_buffer[c].seek \in {NoSeek} \union (Nat \X Nat)
      BY <1>1 DEF ReplyOf, DataTypeOK, BytesTypeOK, Chunk
    <3> QED
      BY <2>1, <3>1, FromTyped
  <2>5. CASE bytes = <<>> /\ p = pos
    <3>1. here \o bytes = here
      BY <1>10, <2>5, ConcatEmptySeq
    <3> QED
      BY <2>2, <2>3, <2>5, <3>1
  <2>6. ASSUME NEW n \in Nat \ {0}, pos + n <= Len(content), p = pos + n,
               bytes = SubSeq(content, pos + 1, pos + n)
        PROVE  /\ from <= p /\ p <= Len(content)
               /\ here \o bytes = SubSeq(content, from + 1, p)
    <3>1. SubSeq(content, from + 1, pos) \o SubSeq(content, pos + 1, pos + n)
            = SubSeq(content, from + 1, pos + n)
      BY <1>10, <2>3, <2>4, <2>6, PieceAfterPiece
    <3>2. here \o bytes = SubSeq(content, from + 1, p)
      BY <2>3, <2>6, <3>1, Zenon
    <3> QED
      BY <2>3, <2>4, <2>6, <3>2
  <2> QED
    BY <1>11, <2>2, <2>5, <2>6
<1>14. ReplyOf(c)'
  BY <1>1, <1>7, <1>8, <1>9, <1>10, <1>12, <1>13 DEF ReplyOf, Before
<1> QED
  BY <1>1, <1>7, <1>14, ReplyGoesOn

(* What a reply is when it is complete.                                     *)
Completed(c) ==
  /\ pc[c] # "close_client" /\ pc'[c] = "close_client"
  /\ receive_buffer[c].seek = NoSeek \/ buffer.out_offs = 0

Answered(c) ==
  Completed(c) =>
    reply'[c] = SubSeq(Content, From(receive_buffer[c].seek) + 1, Len(Content))

LEMMA ReplySend ==
  ASSUME ReplyInv, TurnInv, DataTypeOK, AcceptTypeOK, InTurn,
         NEW c \in Clients, Send(c)
  PROVE  ReplyInv' /\ Answered(c)
<1>1. /\ pc[c] = "send" /\ c \in Active /\ ReplyOf(c) /\ pc[c] \in BothLabels
  BY DEF Send, Active, ReplyInv, BothLabels
<1>2. At(clientSocketFd[c]) = Socket(c) /\ "RESET" \notin Faults
  BY <1>1, TurnFinds DEF InTurn
<1>3. Socket(c).type = "socket" /\ Socket(c).conn = c
  BY DEF Socket
<1>4. PICK label : label = IF send_buffer[c] = <<>> THEN "close_client"
                           ELSE "lock_read"
  OBVIOUS
<1>5. PICK bytes : bytes = reply[c] \o send_buffer[c]
  OBVIOUS
<1>6. /\ reply' = [reply EXCEPT ![c] = bytes]
      /\ pc' = [pc EXCEPT ![c] = label]
      /\ UNCHANGED <<buffer, Content, Position, receive_buffer>>
  BY <1>2, <1>3, <1>4, <1>5 DEF Send, Goto, device, files, buffers, Content,
     Commands, Position
<1>7. /\ pc'[c] = label /\ reply'[c] = bytes
      /\ \A d \in Clients \ {c} : reply'[d] = reply[d]
  BY <1>6 DEF AcceptTypeOK, DataTypeOK, BytesTypeOK
<1>8. Shown(c, bytes)
  BY <1>1, <1>5 DEF ReplyOf
<1>9. Shown(c, bytes)'
  BY <1>6, <1>8, ShownStays
<1>10. Shown(c, reply[c])'
  BY <1>7, <1>9 DEF Shown
<1>11. ReplyOf(c)'
  BY <1>1, <1>4, <1>6, <1>7, <1>10 DEF ReplyOf, Before
<1>12. ReplyInv'
  BY <1>1, <1>6, <1>7, <1>11, ReplyGoesOn
<1>13. Answered(c)
  <2> SUFFICES ASSUME Completed(c)
               PROVE  bytes = SubSeq(Content, From(receive_buffer[c].seek) + 1,
                                    Len(Content))
    BY <1>7 DEF Answered
  <2>1. send_buffer[c] = <<>>
    BY <1>4, <1>7 DEF Completed
  <2>2. Position >= Len(Content)
    BY <1>1, <2>1 DEF ReplyOf
  <2>3. /\ Position <= Len(Content)
        /\ bytes = SubSeq(Content, From(receive_buffer[c].seek) + 1, Position)
    BY <1>8 DEF Shown, Completed
  <2>4. Position \in Nat /\ Len(Content) \in Nat
    BY <1>1, TurnPosition, CommandsTyped DEF DataTypeOK
  <2>5. Position = Len(Content)
    BY <2>2, <2>3, <2>4
  <2> QED
    BY <2>3, <2>5, Zenon
<1> QED
  BY <1>12, <1>13

(* The step of another part of the program completes no reply.              *)
LEMMA NotCompleted ==
  ASSUME AcceptTypeOK, NEW c \in Clients, NEW label,
         pc' = [pc EXCEPT ![c] = label], label # "close_client"
  PROVE  \A d \in Clients : ~ Completed(d)
BY DEF AcceptTypeOK, Completed

LEMMA ReplyHandler ==
  ASSUME ReplyInv, TurnInv, DataTypeOK, AcceptTypeOK, InTurn, NoGarbledSeeks,
         NEW c \in Clients, Handler(c)
  PROVE  ReplyInv'
<1> USE DEF Goto, buffers, net
<1>0. Turn(c)
  BY DEF TurnInv
<1>1. CASE Recv(c)
  BY <1>1, ReplyRecv
<1>2. CASE OpenDataFile(c, "open_seek", TRUE, "ioctl", "failed")
  BY <1>2, ReplyOpen
<1>3. CASE OpenDataFile(c, "open_write", TRUE, "lock_write", "lock_write")
  BY <1>3, ReplyOpen
<1>4. CASE OpenDataFile(c, "open_read", FALSE, "lock_read", "failed")
  BY <1>4, ReplyOpen
<1>5. CASE MutexLock(c, "lock_read", "read") \/ Ioctl(c) \/ Read(c) \/ Send(c)
  BY <1>5, ReplyLock, ReplyIoctl, ReplyRead, ReplySend
<1>6. CASE MutexLock(c, "lock_write", "write")
  <2>1. c \in Active
    BY <1>6 DEF MutexLock, Active
  <2> QED
    BY <1>6, <2>1, ReplyWaits DEF MutexLock, Labels, Before
<1>7. CASE Write(c)
  <2>1. /\ pc[c] = "write" /\ c \in Active
        /\ At(dataFileDescriptor).type = "device"
        /\ At(dataFileDescriptor).writable
    BY <1>0, <1>7, TurnFinds DEF Write, Active, Turn, BothLabels, At
  <2>2. /\ pc' = [pc EXCEPT ![c] = "close_write"]
        /\ UNCHANGED <<reply, receive_buffer>>
    BY <1>7, <2>1 DEF Write, GiveUp, InTurn
  <2> QED
    BY <2>1, <2>2, ReplyWaits DEF Labels, Before
<1>8. CASE CloseWrite(c)
  <2>1. /\ pc[c] = "close_write" /\ c \in Active
        /\ receive_buffer[c].seek = NoSeek
    BY <1>0, <1>8 DEF CloseWrite, Active, Turn, LineLabels
  <2>2. PICK label \in {"recv", "open_read"} : pc' = [pc EXCEPT ![c] = label]
    BY <1>8, <2>1 DEF CloseWrite, AfterChunk
  <2>3. UNCHANGED <<reply, receive_buffer>>
    BY <1>8 DEF CloseWrite
  <2> QED
    BY <2>1, <2>2, <2>3, ReplyWaits DEF Labels, Before
<1>9. CASE Sigpipe(c)
  BY <1>9 DEF Sigpipe, InTurn
<1>10. CASE CloseClient(c) \/ Complete(c) \/ CloseData(c)
  <2>1. c \in Active
    BY <1>10 DEF CloseClient, Complete, CloseData, Active
  <2>2. PICK label \in {"complete", "close_data", "ended"} :
          pc' = [pc EXCEPT ![c] = label]
    BY <1>10 DEF CloseClient, Complete, CloseData
  <2>3. UNCHANGED <<reply, receive_buffer>>
    BY <1>10 DEF CloseClient, Complete, CloseData
  <2> QED
    BY <2>1, <2>2, <2>3, ReplyWaits DEF Labels, Before
<1> QED
  BY <1>1, <1>2, <1>3, <1>4, <1>5, <1>6, <1>7, <1>8, <1>9, <1>10 DEF Handler

LEMMA ReplyConnect ==
  ASSUME ReplyInv, TurnInv, AcceptTypeOK, InTurn, NEW c \in Clients, Connect(c)
  PROVE  ReplyInv'
<1>1. /\ pc[c] = "none" /\ pc' = [pc EXCEPT ![c] = "pending"]
      /\ Cardinality(Active) < MaxActive
      /\ UNCHANGED <<reply, receive_buffer>>
  BY DEF Connect, Goto, buffers
<1>2. Active = {}
  <2>1. IsFiniteSet(Active)
    BY ServerAssumption, FS_Subset DEF Active
  <2>2. Cardinality(Active) \in Nat
    BY <2>1, FS_CardinalityType
  <2>3. Cardinality(Active) = 0
    BY <1>1, <2>2, ServerAssumption DEF InTurn
  <2> QED
    BY <2>1, <2>3, FS_EmptySet
<1>3. \A d \in Clients : pc[d] \in {"none", "ended"}
  BY <1>2 DEF Active, TurnInv, Turn
<1>4. \A d \in Clients : pc'[d] = IF d = c THEN "pending" ELSE pc[d]
  BY <1>1 DEF AcceptTypeOK
<1>5. ASSUME NEW d \in Clients
      PROVE  ReplyOf(d)'
  <2>1. /\ pc'[d] \in {"none", "pending", "ended"}
        /\ pc'[d] \in Before => pc[d] \in Before
    BY <1>1, <1>3, <1>4 DEF Before
  <2>2. /\ receive_buffer[d].seek # GARBLED
        /\ pc[d] \in Before => reply[d] = <<>>
    BY DEF ReplyInv, ReplyOf
  <2> QED
    BY <1>1, <2>1, <2>2 DEF ReplyOf
<1> QED
  BY <1>5 DEF ReplyInv

LEMMA ReplyAccept ==
  ASSUME ReplyInv, TurnInv, AcceptInv, InTurn, Accept
  PROVE  ReplyInv'
<1>1. AcceptTypeOK
  BY DEF AcceptInv
<1>2. Head(backlog) \in Clients /\ pc[Head(backlog)] = "pending"
  <2>1. backlog # <<>> /\ backlog \in Seq(Clients)
    BY <1>1 DEF Accept, AcceptTypeOK
  <2>2. Head(backlog) = backlog[1] /\ 1 \in 1 .. Len(backlog)
        /\ backlog[1] \in Clients
    BY <2>1
  <2> QED
    BY <2>2 DEF AcceptInv, BacklogPending
<1>3. /\ pc' = [pc EXCEPT ![Head(backlog)] = "recv"]
      /\ UNCHANGED <<reply, receive_buffer>>
  BY DEF Accept, Goto, InTurn, buffers, net
<1>4. Head(backlog) \in Active
  BY <1>2 DEF Active
<1>5. pc[Head(backlog)] \in Before
  BY <1>2 DEF Before
<1>6. "recv" \in Labels \ {"ioctl", "lock_read", "read", "send"}
  BY DEF Labels
<1> QED
  BY <1>1, <1>3, <1>4, <1>5, <1>6, ReplyWaits

LEMMA ReplyUnchanged ==
  ASSUME ReplyInv,
         UNCHANGED <<pc, device, files, receive_buffer, send_buffer, reply>>
  PROVE  ReplyInv'
<1>1. UNCHANGED <<buffer, Content, Position, receive_buffer>>
  BY DEF Content, Commands, Position, device, files
<1>2. ASSUME NEW d \in Clients
      PROVE  ReplyOf(d)'
  <2>1. PICK one, both : one = reply[d] /\ both = reply[d] \o send_buffer[d]
    OBVIOUS
  <2>2. Shown(d, one) => Shown(d, one)'
    BY <1>1, ShownStays
  <2>3. Shown(d, both) => Shown(d, both)'
    BY <1>1, ShownStays
  <2>4. /\ Shown(d, reply[d]) => Shown(d, reply[d])'
        /\ Shown(d, reply[d] \o send_buffer[d])
             => Shown(d, reply[d] \o send_buffer[d])'
    BY <2>1, <2>2, <2>3 DEF Shown
  <2>5. ReplyOf(d)
    BY DEF ReplyInv
  <2> QED
    BY <1>1, <2>4, <2>5 DEF ReplyOf
<1> QED
  BY <1>2 DEF ReplyInv

LEMMA ReplyNext ==
  ASSUME InTurn, NoGarbledSeeks
  PROVE  DataInv /\ TurnInv /\ ReplyInv /\ [Next]_vars => ReplyInv'
<1> SUFFICES ASSUME DataInv, TurnInv, ReplyInv, [Next]_vars
             PROVE  ReplyInv'
  OBVIOUS
<1>1. DataTypeOK /\ AcceptInv /\ AcceptTypeOK
  BY DEF DataInv, AcceptInv
<1>2. CASE Main
  <2>1. CASE Accept
    BY <1>1, <2>1, ReplyAccept
  <2>2. CASE ~ Accept
    BY <1>2, <2>2, ReplyUnchanged DEF Main, AcceptFails, buffers, net
  <2> QED
    BY <2>1, <2>2
<1>3. ASSUME NEW c \in Clients, Handler(c)
      PROVE  ReplyInv'
  BY <1>1, <1>3, ReplyHandler
<1>4. ASSUME NEW c \in Clients, Connect(c)
      PROVE  ReplyInv'
  BY <1>1, <1>4, ReplyConnect
<1>5. CASE UNCHANGED vars
  BY <1>5, ReplyUnchanged DEF vars, buffers, net
<1> QED
  BY <1>2, <1>3, <1>4, <1>5 DEF Next

LEMMA ReplyInit == Init => ReplyInv
<1> SUFFICES ASSUME Init, NEW c \in Clients
             PROVE  ReplyOf(c)
  BY DEF ReplyInv
<1>1. pc[c] = "none" /\ reply[c] = <<>> /\ receive_buffer[c].seek = NoSeek
  BY DEF Init
<1> QED
  BY <1>1, ServerAssumption DEF ReplyOf

LEMMA HandlerAnswers ==
  ASSUME ReplyInv, TurnInv, DataTypeOK, AcceptTypeOK, InTurn,
         NEW c \in Clients, Handler(c), NEW d \in Clients
  PROVE  Answered(d)
<1> SUFFICES ASSUME Completed(d)
             PROVE  Answered(d)
  BY DEF Answered
<1> USE DEF Goto
<1>1. CASE Send(c)
  <2>1. PICK label : pc' = [pc EXCEPT ![c] = label]
    BY <1>1 DEF Send, GiveUp
  <2>2. d = c
    BY <2>1 DEF AcceptTypeOK, Completed
  <2> QED
    BY <1>1, <2>2, ReplySend
<1>2. CASE Recv(c)
  <2>1. PICK label \in {"failed", "open_write", "open_seek"} :
          pc' = [pc EXCEPT ![c] = label]
    BY <1>2 DEF Recv, GiveUp, Branch
  <2> QED
    BY <2>1, NotCompleted
<1>3. CASE \/ OpenDataFile(c, "open_seek", TRUE, "ioctl", "failed")
           \/ OpenDataFile(c, "open_write", TRUE, "lock_write", "lock_write")
           \/ OpenDataFile(c, "open_read", FALSE, "lock_read", "failed")
  <2>1. PICK label \in {"failed", "ioctl", "lock_write", "lock_read"} :
          pc' = [pc EXCEPT ![c] = label]
    BY <1>3 DEF OpenDataFile
  <2> QED
    BY <2>1, NotCompleted
<1>4. CASE MutexLock(c, "lock_write", "write") \/ MutexLock(c, "lock_read", "read")
  <2>1. PICK label \in {"write", "read"} : pc' = [pc EXCEPT ![c] = label]
    BY <1>4 DEF MutexLock
  <2> QED
    BY <2>1, NotCompleted
<1>5. CASE Ioctl(c) \/ CloseWrite(c)
  <2>1. PICK label \in {"recv", "open_read", "lock_read"} :
          pc' = [pc EXCEPT ![c] = label]
    BY <1>5 DEF Ioctl, CloseWrite, AfterChunk
  <2> QED
    BY <2>1, NotCompleted
<1>6. CASE Write(c) \/ Read(c)
  <2>1. PICK label \in {"failed", "close_write", "send"} :
          pc' = [pc EXCEPT ![c] = label]
    BY <1>6 DEF Write, Read, GiveUp
  <2> QED
    BY <2>1, NotCompleted
<1>7. CASE Sigpipe(c)
  BY <1>7 DEF Sigpipe, Completed
<1>8. CASE CloseClient(c) \/ Complete(c) \/ CloseData(c)
  <2>1. PICK label \in {"complete", "close_data", "ended"} :
          pc' = [pc EXCEPT ![c] = label]
    BY <1>8 DEF CloseClient, Complete, CloseData
  <2> QED
    BY <2>1, NotCompleted
<1> QED
  BY <1>1, <1>2, <1>3, <1>4, <1>5, <1>6, <1>7, <1>8 DEF Handler

AllAnswered == \A c \in Clients : Answered(c)

LEMMA AnswerStep ==
  ASSUME InTurn
  PROVE  DataInv /\ TurnInv /\ ReplyInv /\ [Next]_vars => [AllAnswered]_vars
<1> SUFFICES ASSUME DataInv, TurnInv, ReplyInv, Next, NEW d \in Clients
             PROVE  Answered(d)
  BY DEF AllAnswered
<1>1. DataTypeOK /\ AcceptInv /\ AcceptTypeOK
  BY DEF DataInv, AcceptInv
<1>2. CASE Main
  <2>1. CASE Accept
    <3>1. PICK label \in {"recv", "unstarted"} :
            pc' = [pc EXCEPT ![Head(backlog)] = label]
      BY <2>1 DEF Accept, Goto
    <3> QED
      BY <1>1, <3>1 DEF AcceptTypeOK, Answered, Completed
  <2>2. CASE ~ Accept
    BY <1>2, <2>2 DEF Main, AcceptFails, Answered, Completed
  <2> QED
    BY <2>1, <2>2
<1>3. ASSUME NEW c \in Clients, Handler(c)
      PROVE  Answered(d)
  BY <1>1, <1>3, HandlerAnswers
<1>4. ASSUME NEW c \in Clients, Connect(c)
      PROVE  Answered(d)
  BY <1>1, <1>4, NotCompleted DEF Connect, Goto, Answered
<1> QED
  BY <1>2, <1>3, <1>4 DEF Next

(* A client alone gets the device's content, all of it or from where its    *)
(* seek says on, however the reads cut it into pieces.                      *)
THEOREM RepliesAreTheContent ==
  ASSUME MaxActive <= 1, Faults \subseteq {"MALLOC", "EOF"},
         SeeksAreWhole, NoGarbledSeeks, \E d, e \in FDs : d # e
  PROVE  Spec => ReplyIsTheContent
<1>1. InTurn
  BY DEF InTurn
<1>2. DataInv /\ [Next]_vars => DataInv'
  BY DataStep
<1>3. DataInv /\ TurnInv /\ ReplyInv /\ [Next]_vars => ReplyInv'
  BY <1>1, ReplyNext
<1>4. DataInv /\ TurnInv /\ ReplyInv /\ [Next]_vars => [AllAnswered]_vars
  BY <1>1, AnswerStep
<1>5. Spec => []TurnInv
  BY <1>1, TurnAlways
<1>6. Spec => [][AllAnswered]_vars
  BY <1>2, <1>3, <1>4, <1>5, DataInit, ReplyInit, PTL DEF Spec
<1> QED
  BY <1>6 DEF ReplyIsTheContent, AllAnswered, Answered, Completed
=============================================================================
