-------------------------- MODULE CharDriverProofs --------------------------
(***************************************************************************)
(* For every number of threads, files and slots, every payload, and every   *)
(* fault the model knows: the device's state stays well typed, the mutex    *)
(* belongs to the thread in the critical section, no pointer the driver     *)
(* holds dangles or is shared, reads and seeks are exact.  While krealloc   *)
(* does not fail the driver implements CommandLog; without signals and with *)
(* one load it loses no block.                                              *)
(***************************************************************************)
EXTENDS CharDriver, DriverOpsProofs

(* The inductive invariant: nothing weaker is closed under a write, which   *)
(* frees the temporary buffer, may move the unterminated tail and may free  *)
(* the oldest entry, all in one step.                                       *)
DriverInv == DeviceTypeOK /\ CallTypeOK /\ LockOwner /\ MemorySafe

-----------------------------------------------------------------------------
(* Lemmas about the operators the steps are built from. *)

(* The empty buffer is one the driver may hold. *)
LEMMA EmptyDevice ==
  /\ InitBuffer \in Buffers(Entries) /\ WellShaped(InitBuffer)
  /\ \A i \in Slots : InitBuffer.entry[i] = NoEntry
<1>1. NoEntry \in Entries
  BY DEF NoEntry, Entries
<1> QED
  BY <1>1, InitBufferType

(* kfree and a store keep the heap a heap and touch no other block. *)
LEMMA KfreeHeap ==
  ASSUME NEW h \in [Blocks -> Seq(Byte) \union {FREE}], NEW p
  PROVE  /\ Kfree(h, p) \in [Blocks -> Seq(Byte) \union {FREE}]
         /\ \A x \in Blocks : Kfree(h, p)[x] = IF x = p THEN FREE ELSE h[x]
  BY DEF Kfree

LEMMA FillHeap ==
  ASSUME NEW h \in [Blocks -> Seq(Byte) \union {FREE}],
         NEW p, NEW bytes \in Seq(Byte)
  PROVE  /\ Fill(h, p, bytes) \in [Blocks -> Seq(Byte) \union {FREE}]
         /\ \A x \in Blocks : Fill(h, p, bytes)[x] = IF x = p THEN bytes ELSE h[x]
  BY DEF Fill

-----------------------------------------------------------------------------
(* Lemmas about a write's critical section. *)

(* The user's data are a sequence of bytes, and live as long as write_data. *)
LEMMA DataType ==
  ASSUME DriverInv, NEW t \in Threads
  PROVE  /\ Data(t) \in Seq(Byte)
         /\ Unterminated \in Seq(Byte)
         /\ Len(Unterminated) = write_buffer_size
<1>1. Data(t) \in Seq(Byte)
  BY DEF DriverInv, DeviceTypeOK, CallTypeOK, MemorySafe, TemporariesSafe,
         Live, Data
<1>2. CASE write_buffer_size = 0
  BY <1>1, <1>2 DEF Unterminated
<1>3. CASE write_buffer_size > 0 /\ write_buffer \in Blocks
  <2>1. Live(write_buffer) /\ Len(heap[write_buffer]) = write_buffer_size
    BY <1>3, DriverAssumption DEF DriverInv, MemorySafe, PendingSafe, Pending
  <2> QED
    BY <1>1, <1>3, <2>1 DEF Unterminated, Live, DriverInv, DeviceTypeOK
<1>4. CASE write_buffer_size > 0 /\ write_buffer \notin Blocks
  BY <1>1, <1>4, DriverAssumption DEF Unterminated, DriverInv, DeviceTypeOK
<1> QED
  BY <1>2, <1>3, <1>4 DEF DriverInv, DeviceTypeOK

(* The block a write stores into is free, or it is the unterminated tail's  *)
(* own; only a write that has nothing to store gets no block.               *)
LEMMA TargetsSafe ==
  ASSUME DriverInv, NEW t \in Threads, NEW q \in Targets(t), q # NULL
  PROVE  \/ /\ q = ZERO_SIZE_PTR
            /\ write_buffer_size = 0 /\ Len(Data(t)) = 0
         \/ /\ q \in Blocks
            /\ \/ heap[q] = FREE
               \/ write_buffer_size > 0 /\ q = write_buffer /\ Live(q)
<1>1. CASE write_buffer_size = 0
  BY <1>1 DEF Targets, Kmalloc, FreeBlocks
<1>2. CASE write_buffer_size > 0
  <2>1. q \in FreeBlocks \union {write_buffer}
    BY <1>2 DEF Targets, Krealloc
  <2>2. write_buffer # NULL => Live(write_buffer)
    BY <1>2 DEF DriverInv, MemorySafe, PendingSafe, Pending
  <2> QED
    BY <1>2, <2>1, <2>2 DEF FreeBlocks, Live
<1> QED
  BY <1>1, <1>2 DEF DriverInv, DeviceTypeOK

(* The heap when the bytes are stored in q: only q and the block the tail   *)
(* moved away from change.                                                  *)
LEMMA StoredHeap ==
  ASSUME DriverInv, NEW q, NEW bytes \in Seq(Byte)
  PROVE  /\ Stored(q, bytes) \in [Blocks -> Seq(Byte) \union {FREE}]
         /\ \A x \in Blocks : Stored(q, bytes)[x] =
              IF x = q THEN bytes
              ELSE IF x \in Pending THEN FREE ELSE heap[x]
<1> DEFINE h == IF write_buffer_size = 0 THEN heap ELSE Kfree(heap, write_buffer)
<1>1. /\ h \in [Blocks -> Seq(Byte) \union {FREE}]
      /\ \A x \in Blocks : h[x] = IF x \in Pending THEN FREE ELSE heap[x]
  <2>1. heap \in [Blocks -> Seq(Byte) \union {FREE}] /\ write_buffer_size \in Nat
    BY DEF DriverInv, DeviceTypeOK
  <2> QED
    BY <2>1, KfreeHeap DEF Pending
<1>2. Stored(q, bytes) = Fill(h, q, bytes)
  BY DEF Stored
<1> HIDE DEF h
<1> QED
  BY <1>1, <1>2, FillHeap

-----------------------------------------------------------------------------
(* The invariant holds initially and is preserved, part by part. *)

LEMMA InitInv == Init => DriverInv
<1> SUFFICES ASSUME Init PROVE DriverInv
  OBVIOUS
<1>1. DeviceTypeOK
  BY EmptyDevice DEF Init, DeviceTypeOK, Pointers
<1>2. CallTypeOK
  BY DEF Init, CallTypeOK, Labels, Pointers
<1>3. LockOwner
  BY DriverAssumption DEF Init, LockOwner, Bodies
<1>4. MemorySafe
  BY EmptyDevice, DriverAssumption
     DEF Init, MemorySafe, SlotsSafe, SlotsDistinct, PendingSafe, Pending,
         TemporariesSafe, NoEntry
<1> QED
  BY <1>1, <1>2, <1>3, <1>4 DEF DriverInv
(* A step that leaves the device's memory and the temporary buffers alone.  *)
LEMMA MemoryUntouched ==
  ASSUME MemorySafe,
         UNCHANGED <<buffer, write_buffer, write_buffer_size, heap, write_data>>
  PROVE  MemorySafe'
  BY DEF MemorySafe, SlotsSafe, SlotsDistinct, PendingSafe, Pending,
         TemporariesSafe, Live

(* A step outside every critical section, and one that enters or leaves it. *)
LEMMA LockUntouched ==
  ASSUME DriverInv, NEW t \in Threads, NEW l \in Labels \ Bodies,
         pc[t] \notin Bodies, UNCHANGED lock, pc' = [pc EXCEPT ![t] = l]
  PROVE  LockOwner'
  BY DEF DriverInv, LockOwner, CallTypeOK

LEMMA LockTaken ==
  ASSUME DriverInv, NEW t \in Threads, NEW l \in Bodies,
         lock = NOBODY, lock' = t, pc' = [pc EXCEPT ![t] = l]
  PROVE  LockOwner'
  BY DriverAssumption DEF DriverInv, LockOwner, CallTypeOK

LEMMA LockLeft ==
  ASSUME DriverInv, NEW t \in Threads, NEW l \in Labels \ Bodies,
         pc[t] \in Bodies, lock' = NOBODY, pc' = [pc EXCEPT ![t] = l]
  PROVE  LockOwner'
  BY DriverAssumption DEF DriverInv, LockOwner, CallTypeOK

(* Locked and Interrupted, for whichever call is waiting. *)
LEMMA LockedInv ==
  ASSUME DriverInv, NEW t \in Threads, NEW from \in Labels, NEW to \in Bodies,
         from # "idle", Locked(t, from, to)
  PROVE  DriverInv'
<1>1. DeviceTypeOK'
  BY DEF DriverInv, DeviceTypeOK, Locked, module
<1>2. CallTypeOK'
  BY DEF DriverInv, CallTypeOK, Locked, module, vfs, Labels, Bodies
<1>3. LockOwner'
  BY LockTaken DEF Locked
<1>4. MemorySafe'
  BY MemoryUntouched DEF DriverInv, Locked
<1> QED
  BY <1>1, <1>2, <1>3, <1>4 DEF DriverInv

LEMMA InterruptedInv ==
  ASSUME DriverInv, NEW t \in Threads, NEW from \in Labels \ Bodies,
         from # "idle", Interrupted(t, from)
  PROVE  DriverInv'
<1>1. DeviceTypeOK'
  BY DEF DriverInv, DeviceTypeOK, Interrupted, module, device
<1>2. CallTypeOK'
  BY DEF DriverInv, CallTypeOK, Interrupted, module, vfs, Labels, Pointers
<1>3. LockOwner'
  <2>1. "return" \in Labels \ Bodies
    BY DEF Labels, Bodies
  <2> QED
    BY <2>1, LockUntouched DEF Interrupted, device
<1>4. MemorySafe'
  BY DriverAssumption
     DEF DriverInv, CallTypeOK, MemorySafe, SlotsSafe, SlotsDistinct, PendingSafe,
         Pending, TemporariesSafe, Live, Interrupted, device
<1> QED
  BY <1>1, <1>2, <1>3, <1>4 DEF DriverInv
(* A call enters the driver, or is refused before it takes the mutex,       *)
(* without touching the device.                                             *)
LEMMA EnterInv ==
  ASSUME DriverInv, NEW t \in Threads, NEW f \in Files,
         NEW label \in Labels \ Bodies, label # "idle", Enter(t, f, label)
  PROVE  UNCHANGED <<opened, loaded, lock, write_data, writes>>
         => CallTypeOK' /\ LockOwner'
<1> SUFFICES ASSUME UNCHANGED <<opened, loaded, lock, write_data, writes>>
             PROVE  CallTypeOK' /\ LockOwner'
  OBVIOUS
<1>1. CallTypeOK'
  BY DEF DriverInv, CallTypeOK, Enter
<1>2. LockOwner'
  <2>1. pc[t] \notin Bodies /\ pc' = [pc EXCEPT ![t] = label]
    BY DEF Enter, Bodies
  <2> QED
    BY <2>1, LockUntouched
<1> QED
  BY <1>1, <1>2

LEMMA RejectInv ==
  ASSUME DriverInv, NEW t \in Threads, NEW f \in Files, NEW code,
         Reject(t, f, code)
  PROVE  DriverInv'
<1>1. DeviceTypeOK'
  BY DEF DriverInv, DeviceTypeOK, Reject, module, device
<1>2. CallTypeOK' /\ LockOwner'
  <2>1. "return" \in Labels \ Bodies /\ "return" # "idle"
    BY DEF Labels, Bodies
  <2> QED
    BY <2>1, EnterInv DEF Reject, module, device, vfs
<1>3. MemorySafe'
  BY MemoryUntouched DEF DriverInv, Reject, device
<1> QED
  BY <1>1, <1>2, <1>3 DEF DriverInv

LEMMA PlainCallInv ==
  ASSUME DriverInv, NEW t \in Threads, NEW f \in Files,
         NEW label \in {"read_lock", "llseek_lock", "ioctl_lock"},
         Enter(t, f, label),
         UNCHANGED <<module, device, heap, vfs, write_data, ret, out, writes>>
  PROVE  DriverInv'
<1>1. DeviceTypeOK'
  BY DEF DriverInv, DeviceTypeOK, module, device
<1>2. CallTypeOK' /\ LockOwner'
  <2>1. label \in Labels \ Bodies /\ label # "idle"
    BY DEF Labels, Bodies
  <2> QED
    BY <2>1, EnterInv DEF module, device, vfs
<1>3. MemorySafe'
  BY MemoryUntouched DEF DriverInv, device
<1> QED
  BY <1>1, <1>2, <1>3 DEF DriverInv

(* aesd_write before the mutex: a free block becomes the temporary buffer.  *)
LEMMA WriteCallInv ==
  ASSUME DriverInv, NEW t \in Threads, NEW f \in Files, WriteCall(t, f)
  PROVE  DriverInv'
<1>0. PICK data \in Payloads :
         \E p \in Kmalloc(Len(data)) \ {NULL} :
           /\ Enter(t, f, "write_lock")
           /\ write_data' = [write_data EXCEPT ![t] = p]
           /\ heap' = Fill(heap, p, data)
  BY DEF WriteCall
<1>1. PICK p \in Kmalloc(Len(data)) \ {NULL} :
         /\ Enter(t, f, "write_lock")
         /\ write_data' = [write_data EXCEPT ![t] = p]
         /\ heap' = Fill(heap, p, data)
  BY <1>0
<1>2. data \in Seq(Byte)
  BY DriverAssumption
<1>3. p = ZERO_SIZE_PTR \/ (p \in Blocks /\ heap[p] = FREE)
  BY <1>1 DEF Kmalloc, FreeBlocks
<1>4. heap \in [Blocks -> Seq(Byte) \union {FREE}]
  BY DEF DriverInv, DeviceTypeOK
<1>5. /\ heap' \in [Blocks -> Seq(Byte) \union {FREE}]
      /\ \A x \in Blocks : heap'[x] = IF x = p THEN data ELSE heap[x]
  BY <1>1, <1>2, <1>4, FillHeap
<1>6. UNCHANGED <<module, device, vfs>>
  BY DEF WriteCall
<1>7. DeviceTypeOK'
  BY <1>5, <1>6 DEF DriverInv, DeviceTypeOK, module, device
<1>8. CallTypeOK'
  BY <1>1, <1>3, <1>6
     DEF DriverInv, CallTypeOK, Enter, WriteCall, Labels, Pointers, module, vfs
<1>9. LockOwner'
  <2>1. "write_lock" \in Labels \ Bodies /\ pc[t] \notin Bodies
        /\ pc' = [pc EXCEPT ![t] = "write_lock"]
    BY <1>1 DEF Enter, Labels, Bodies
  <2> QED
    BY <1>6, <2>1, LockUntouched DEF device
<1>10. MemorySafe'
  <2> USE DriverAssumption
  <2>1. \A x \in Blocks : heap[x] # FREE => heap'[x] = heap[x]
    BY <1>3, <1>5
  <2>2. write_data' \in [Threads -> Pointers] /\ write_data \in [Threads -> Pointers]
        /\ \A u \in Threads : write_data'[u] = IF u = t THEN p ELSE write_data[u]
    BY <1>1, <1>8 DEF DriverInv, CallTypeOK
  <2>3. SlotsSafe'
    BY <1>6, <2>1 DEF DriverInv, MemorySafe, SlotsSafe, Live, device
  <2>4. SlotsDistinct'
    BY <1>6 DEF DriverInv, MemorySafe, SlotsDistinct, device
  <2>5. PendingSafe'
    BY <1>3, <1>6, <2>1, <2>2
       DEF DriverInv, MemorySafe, PendingSafe, Pending, Live, device
  <2>6. TemporariesSafe'
    <3> SUFFICES ASSUME NEW u \in Threads, write_data'[u] \in Blocks
                 PROVE  /\ Live(write_data[u])'
                        /\ \A i \in Slots : buffer'.entry[i].buffptr # write_data'[u]
                        /\ \A v \in Threads \ {u} : write_data'[v] # write_data'[u]
      BY DEF TemporariesSafe
    <3>1. CASE u = t
      <4>1. p \in Blocks /\ heap[p] = FREE /\ heap'[p] # FREE
        BY <1>2, <1>3, <1>5, <2>2, <3>1
      <4>2. \A i \in Slots : buffer.entry[i].buffptr # p
        BY <4>1 DEF DriverInv, MemorySafe, SlotsSafe, Live
      <4>3. \A v \in Threads \ {t} : write_data[v] # p
        BY <4>1 DEF DriverInv, MemorySafe, TemporariesSafe, Live
      <4> QED
        BY <1>6, <2>2, <3>1, <4>1, <4>2, <4>3 DEF Live, device
    <3>2. CASE u # t
      <4>1. write_data'[u] = write_data[u] /\ write_data[u] \in Blocks
        BY <2>2, <3>2
      <4>2. /\ Live(write_data[u])
            /\ \A i \in Slots : buffer.entry[i].buffptr # write_data[u]
            /\ \A v \in Threads \ {u} : write_data[v] # write_data[u]
        BY <4>1 DEF DriverInv, MemorySafe, TemporariesSafe
      <4>3. p # write_data[u]
        BY <1>3, <4>1, <4>2 DEF Live
      <4> QED
        BY <1>6, <2>1, <2>2, <4>1, <4>2, <4>3 DEF Live, device
    <3> QED
      BY <3>1, <3>2
  <2> QED
    BY <2>3, <2>4, <2>5, <2>6 DEF MemorySafe
<1> QED
  BY <1>7, <1>8, <1>9, <1>10 DEF DriverInv
(* The end of a critical section, as far as the calls are concerned. *)
LEMMA LeaveCalls ==
  ASSUME DriverInv, NEW t \in Threads, NEW from \in Bodies,
         NEW to \in {"advance", "return"}, NEW code, Leave(t, from, to, code),
         UNCHANGED <<opened, loaded, file, writes>>,
         write_data' \in [Threads -> Pointers]
  PROVE  CallTypeOK' /\ LockOwner'
<1>1. to \in Labels \ Bodies /\ from \in Labels /\ from # "idle" /\ to # "idle"
  BY DEF Labels, Bodies
<1>2. CallTypeOK'
  BY <1>1 DEF DriverInv, CallTypeOK, Leave
<1>3. LockOwner'
  BY <1>1, LockLeft DEF Leave
<1> QED
  BY <1>2, <1>3

(* aesd_read, aesd_llseek and the ioctl change nothing that is protected.   *)
LEMMA LookOnlyInv ==
  ASSUME DriverInv, NEW t \in Threads, NEW from \in Bodies,
         NEW to \in {"advance", "return"}, NEW code, Leave(t, from, to, code),
         UNCHANGED <<module, buffer, write_buffer, write_buffer_size, buff_size,
                     heap, opened, file, write_data, writes>>
  PROVE  DriverInv'
<1>1. DeviceTypeOK'
  BY DEF DriverInv, DeviceTypeOK, Leave, module
<1>2. CallTypeOK' /\ LockOwner'
  <2>1. write_data' \in [Threads -> Pointers]
    BY DEF DriverInv, CallTypeOK
  <2> QED
    BY <2>1, LeaveCalls DEF module
<1>3. MemorySafe'
  BY MemoryUntouched DEF DriverInv
<1> QED
  BY <1>1, <1>2, <1>3 DEF DriverInv

LEMMA ReadInv ==
  ASSUME DriverInv, NEW t \in Threads, ReadEof(t) \/ ReadCopy(t)
  PROVE  DriverInv'
<1>1. "read_body" \in Bodies
  BY DEF Bodies
<1>2. CASE ReadEof(t)
  <2>1. Leave(t, "read_body", "advance", 0)
    BY <1>2 DEF ReadEof
  <2> QED
    BY <1>1, <1>2, <2>1, LookOnlyInv DEF ReadEof, vfs
<1>3. CASE ReadCopy(t)
  <2>1. \E to \in {"advance", "return"} : \E code : Leave(t, "read_body", to, code)
    BY <1>3 DEF ReadCopy
  <2>2. UNCHANGED <<module, buffer, write_buffer, write_buffer_size, buff_size,
                    heap, opened, file, write_data, writes>>
    BY <1>3 DEF ReadCopy, vfs
  <2> QED
    BY <1>1, <2>1, <2>2, LookOnlyInv
<1> QED
  BY <1>2, <1>3

LEMMA SeekInv ==
  ASSUME DriverInv, NEW t \in Threads,
         Llseek(t) \/ \E c \in Commands : AdjustFileOffset(t, c[1], c[2])
  PROVE  DriverInv'
<1>1. "llseek_body" \in Bodies /\ "ioctl_body" \in Bodies
  BY DEF Bodies
<1>2. \E from \in Bodies : \E code : Leave(t, from, "return", code)
  BY <1>1 DEF Llseek, AdjustFileOffset
<1>3. UNCHANGED <<module, buffer, write_buffer, write_buffer_size, buff_size,
                  heap, opened, file, write_data, writes>>
  BY DEF Llseek, AdjustFileOffset
<1> QED
  BY <1>2, <1>3, LookOnlyInv

-----------------------------------------------------------------------------
(* The write itself. *)

(* No block for the tail: the temporary buffer is freed, the tail is lost.  *)
LEMMA WriteNoMemoryInv ==
  ASSUME DriverInv, NEW t \in Threads, WriteNoMemory(t)
  PROVE  DriverInv'
<1> USE DriverAssumption
<1>1. /\ heap \in [Blocks -> Seq(Byte) \union {FREE}]
      /\ write_data \in [Threads -> Pointers]
      /\ buffer \in Buffers(Entries)
  BY DEF DriverInv, DeviceTypeOK, CallTypeOK
<1>2. /\ heap' \in [Blocks -> Seq(Byte) \union {FREE}]
      /\ \A x \in Blocks : heap'[x] = IF x = write_data[t] THEN FREE ELSE heap[x]
  BY <1>1, KfreeHeap DEF WriteNoMemory
<1>3. /\ write_data' \in [Threads -> Pointers]
      /\ \A u \in Threads : write_data'[u] = IF u = t THEN NULL ELSE write_data[u]
  BY <1>1 DEF WriteNoMemory, Pointers
<1>4. UNCHANGED <<module, buffer, write_buffer_size, buff_size, vfs, file, writes>>
      /\ write_buffer' = NULL
      /\ Leave(t, "write_body", "return", ENOMEM)
  BY DEF WriteNoMemory
<1>5. DeviceTypeOK'
  BY <1>2, <1>4 DEF DriverInv, DeviceTypeOK, module, Leave, Pointers
<1>6. CallTypeOK' /\ LockOwner'
  <2>1. "write_body" \in Bodies
    BY DEF Bodies
  <2> QED
    BY <1>3, <1>4, <2>1, LeaveCalls DEF module, vfs
<1>7. SlotsSafe'
  <2> SUFFICES ASSUME NEW i \in Slots, buffer.entry[i].buffptr # NULL
               PROVE  /\ Live(buffer.entry[i].buffptr)'
                      /\ Len(heap'[buffer.entry[i].buffptr]) = buffer.entry[i].size
    BY <1>4 DEF SlotsSafe, DriverInv, MemorySafe
  <2>1. /\ Live(buffer.entry[i].buffptr)
        /\ Len(heap[buffer.entry[i].buffptr]) = buffer.entry[i].size
    BY DEF DriverInv, MemorySafe, SlotsSafe
  <2>2. write_data[t] \in Blocks => buffer.entry[i].buffptr # write_data[t]
    BY DEF DriverInv, MemorySafe, TemporariesSafe
  <2> QED
    BY <1>2, <1>4, <2>1, <2>2 DEF Live
<1>8. SlotsDistinct' /\ PendingSafe'
  BY <1>4 DEF DriverInv, MemorySafe, SlotsDistinct, PendingSafe, Pending
<1>9. TemporariesSafe'
  BY <1>2, <1>3, <1>4 DEF DriverInv, MemorySafe, TemporariesSafe, Live
<1> QED
  BY <1>5, <1>6, <1>7, <1>8, <1>9 DEF DriverInv, MemorySafe
(* The block a write is given belongs to no slot and to no other write.     *)
LEMMA TargetIsNew ==
  ASSUME DriverInv, NEW t \in Threads, NEW q \in Targets(t), q \in Blocks
  PROVE  /\ \A i \in Slots : buffer.entry[i].buffptr # q
         /\ \A u \in Threads : write_data[u] # q
<1> USE DriverAssumption
<1>1. heap[q] = FREE \/ q \in Pending \ {NULL}
  BY TargetsSafe DEF Pending
<1>2. CASE heap[q] = FREE
  BY <1>2 DEF DriverInv, MemorySafe, SlotsSafe, TemporariesSafe, Live
<1>3. CASE q \in Pending \ {NULL}
  BY <1>3 DEF DriverInv, MemorySafe, PendingSafe
<1> QED
  BY <1>1, <1>2, <1>3

(* What a write without a newline does to the heap: the tail is in its      *)
(* block, grown by the data, and nothing anyone else points to changes.     *)
LEMMA AppendStep ==
  ASSUME DriverInv, NEW t \in Threads, WriteAppend(t)
  PROVE  \E q :
    /\ write_buffer' = q
    /\ q \in Blocks \/ (q = ZERO_SIZE_PTR /\ write_buffer_size' = 0)
    /\ q \in Blocks => /\ write_buffer_size' > 0
                       /\ heap'[q] = Unterminated \o Data(t)
                       /\ \A i \in Slots : buffer.entry[i].buffptr # q
                       /\ \A u \in Threads : write_data[u] # q
    /\ Unterminated \o Data(t) \in Seq(Byte)
    /\ Len(Unterminated \o Data(t)) = write_buffer_size'
    /\ heap' \in [Blocks -> Seq(Byte) \union {FREE}]
    /\ \A x \in Blocks \ {q} :
         heap'[x] = IF x = write_data[t] \/ x \in Pending THEN FREE ELSE heap[x]
<1> DEFINE bytes == Unterminated \o Data(t)
<1>1. PICK q \in Targets(t) \ {NULL} :
         write_buffer' = q /\ heap' = Kfree(Stored(q, bytes), write_data[t])
  BY DEF WriteAppend
<1>2. write_buffer_size' = write_buffer_size + AppendIndex(Data(t))
  BY DEF WriteAppend
<1>3. /\ Data(t) \in Seq(Byte) /\ Unterminated \in Seq(Byte)
      /\ Len(Unterminated) = write_buffer_size
  BY DataType
<1>4. AppendIndex(Data(t)) = Len(Data(t))
  BY <1>3, AppendIndexBounds DEF WriteAppend
<1>5. bytes \in Seq(Byte) /\ Len(bytes) = write_buffer_size'
  BY <1>2, <1>3, <1>4
<1> HIDE DEF bytes
<1>6. /\ heap' \in [Blocks -> Seq(Byte) \union {FREE}]
      /\ \A x \in Blocks : heap'[x] =
           IF x = write_data[t] THEN FREE
           ELSE IF x = q THEN bytes
           ELSE IF x \in Pending THEN FREE ELSE heap[x]
  BY <1>1, <1>5, StoredHeap, KfreeHeap
<1>7. q \in Blocks \/ (q = ZERO_SIZE_PTR /\ write_buffer_size' = 0)
  BY <1>1, <1>2, <1>4, TargetsSafe
<1>8. q \in Blocks => /\ \A i \in Slots : buffer.entry[i].buffptr # q
                      /\ \A u \in Threads : write_data[u] # q
  BY <1>1, TargetIsNew
<1>9. q \in Blocks => write_buffer_size' > 0
  <2>1. write_buffer_size = 0 /\ Len(Data(t)) = 0 => q = ZERO_SIZE_PTR
    BY <1>1 DEF Targets, Kmalloc
  <2> QED
    BY <1>2, <1>3, <1>4, <2>1, DriverAssumption
<1> WITNESS q
<1>10. \A x \in Blocks \ {q} :
        heap'[x] = IF x = write_data[t] \/ x \in Pending THEN FREE ELSE heap[x]
  BY <1>6
<1>11. q \in Blocks => heap'[q] = bytes
  BY <1>6, <1>8
<1> QED
  BY <1>1, <1>5, <1>6, <1>7, <1>8, <1>10, <1>11, <1>9 DEF bytes

(* A piece without a newline goes to the end of the tail. *)
LEMMA WriteAppendInv ==
  ASSUME DriverInv, NEW t \in Threads, WriteAppend(t)
  PROVE  DriverInv'
<1> USE DriverAssumption
<1> DEFINE bytes == Unterminated \o Data(t)
<1>1. PICK q :
    /\ write_buffer' = q
    /\ q \in Blocks \/ (q = ZERO_SIZE_PTR /\ write_buffer_size' = 0)
    /\ q \in Blocks => /\ heap'[q] = bytes
                       /\ \A i \in Slots : buffer.entry[i].buffptr # q
                       /\ \A u \in Threads : write_data[u] # q
    /\ bytes \in Seq(Byte) /\ Len(bytes) = write_buffer_size'
    /\ heap' \in [Blocks -> Seq(Byte) \union {FREE}]
    /\ \A x \in Blocks \ {q} :
         heap'[x] = IF x = write_data[t] \/ x \in Pending THEN FREE ELSE heap[x]
  BY AppendStep
<1> HIDE DEF bytes
<1>2. /\ UNCHANGED <<module, buffer, buff_size, vfs, file, writes>>
      /\ write_buffer_size' = write_buffer_size + AppendIndex(Data(t))
      /\ Leave(t, "write_body", "advance", AppendIndex(Data(t)))
  BY DEF WriteAppend
<1>3. /\ write_data \in [Threads -> Pointers] /\ write_data' \in [Threads -> Pointers]
      /\ \A u \in Threads : write_data'[u] = IF u = t THEN NULL ELSE write_data[u]
  BY DEF DriverInv, CallTypeOK, WriteAppend, Pointers
<1>4. DeviceTypeOK'
  <2>1. write_buffer_size' \in Nat
    BY <1>1
  <2> QED
    BY <1>1, <1>2, <2>1
       DEF DriverInv, DeviceTypeOK, module, Leave, Pointers
<1>5. CallTypeOK' /\ LockOwner'
  <2>1. "write_body" \in Bodies
    BY DEF Bodies
  <2> QED
    BY <1>2, <1>3, <2>1, LeaveCalls DEF module, vfs
<1>6. SlotsSafe'
  <2> SUFFICES ASSUME NEW i \in Slots, buffer.entry[i].buffptr # NULL
               PROVE  /\ Live(buffer.entry[i].buffptr)'
                      /\ Len(heap'[buffer.entry[i].buffptr]) = buffer.entry[i].size
    BY <1>2 DEF SlotsSafe, DriverInv, MemorySafe
  <2> DEFINE p == buffer.entry[i].buffptr
  <2>1. Live(p) /\ Len(heap[p]) = buffer.entry[i].size
    BY DEF DriverInv, MemorySafe, SlotsSafe
  <2>2. p # write_data[t] /\ p \notin Pending /\ p # q
    BY <1>1, <2>1
       DEF DriverInv, MemorySafe, TemporariesSafe, PendingSafe, Live
  <2>3. heap'[p] = heap[p]
    BY <1>1, <2>1, <2>2 DEF Live
  <2> QED
    BY <1>2, <2>1, <2>3 DEF Live
<1>7. SlotsDistinct'
  BY <1>2 DEF DriverInv, MemorySafe, SlotsDistinct
<1>8. PendingSafe'
  <2> SUFFICES ASSUME write_buffer_size' > 0
               PROVE  /\ Live(q)' /\ Len(heap'[q]) = write_buffer_size'
                      /\ \A i \in Slots : buffer'.entry[i].buffptr # q
                      /\ \A u \in Threads : write_data'[u] # q
    BY <1>1 DEF PendingSafe, Pending
  <2>1. q \in Blocks /\ heap'[q] = bytes
    BY <1>1
  <2> QED
    BY <1>1, <1>2, <1>3, <2>1 DEF Live
<1>9. TemporariesSafe'
  <2> SUFFICES ASSUME NEW u \in Threads, u # t, write_data[u] \in Blocks
               PROVE  /\ Live(write_data[u])'
                      /\ \A i \in Slots : buffer'.entry[i].buffptr # write_data[u]
                      /\ \A v \in Threads \ {u} : write_data'[v] # write_data[u]
    BY <1>3 DEF TemporariesSafe
  <2>1. /\ Live(write_data[u])
        /\ \A i \in Slots : buffer.entry[i].buffptr # write_data[u]
        /\ \A v \in Threads \ {u} : write_data[v] # write_data[u]
    BY DEF DriverInv, MemorySafe, TemporariesSafe
  <2>2. write_data[u] \notin Pending /\ write_data[u] # q
    BY <1>1 DEF DriverInv, MemorySafe, PendingSafe
  <2>3. heap'[write_data[u]] = heap[write_data[u]]
    BY <1>1, <2>1, <2>2
  <2> QED
    BY <1>2, <1>3, <2>1, <2>3 DEF Live
<1> QED
  BY <1>4, <1>5, <1>6, <1>7, <1>8, <1>9 DEF DriverInv, MemorySafe

(* What a write with a newline does to the heap: the finished command is in *)
(* a block of its own, the oldest entry's block is freed if the buffer was   *)
(* full, and nothing anyone else points to changes.                         *)
Line(t) == Unterminated \o SubSeq(Data(t), 1, AppendIndex(Data(t)))

Commits(t, q) ==
  /\ write_buffer' = q
  /\ heap'[q] = Line(t) /\ Line(t) \in Seq(Byte) /\ Len(Line(t)) \in Nat \ {0}
  /\ Len(Line(t)) = write_buffer_size + AppendIndex(Data(t))
  /\ \A i \in Slots : buffer.entry[i].buffptr # q
  /\ \A u \in Threads : write_data[u] # q
  /\ heap' \in [Blocks -> Seq(Byte) \union {FREE}]
  /\ \A x \in Blocks \ {q} : heap'[x] =
       IF \/ x = write_data[t] \/ x \in Pending
          \/ buffer.full /\ x = buffer.entry[buffer.in_offs].buffptr
       THEN FREE ELSE heap[x]
  /\ buffer' = AddEntry(buffer, [buffptr |-> q, size |-> Len(Line(t))])

LEMMA CommitStep ==
  ASSUME DriverInv, NEW t \in Threads, WriteCommit(t)
  PROVE  \E q \in Blocks : Commits(t, q)
<1> DEFINE n     == AppendIndex(Data(t))
           bytes == Unterminated \o SubSeq(Data(t), 1, n)
           size  == write_buffer_size + n
           in    == buffer.in_offs
           old   == buffer.entry[in].buffptr
<1>1. PICK q \in Targets(t) \ {NULL} :
         /\ write_buffer' = q
         /\ heap' = Kfree(FreeOldest(Stored(q, bytes)), write_data[t])
         /\ buffer' = AddEntry(buffer, [buffptr |-> q, size |-> size])
  BY DEF WriteCommit
<1>2. /\ Data(t) \in Seq(Byte) /\ Unterminated \in Seq(Byte)
      /\ Len(Unterminated) = write_buffer_size
      /\ write_buffer_size \in Nat /\ buff_size \in Nat
  BY DataType DEF DriverInv, DeviceTypeOK
<1>3. n \in 1 .. Len(Data(t))
  BY <1>2, AppendIndexBounds DEF WriteCommit
<1>4. bytes \in Seq(Byte) /\ Len(bytes) = size /\ size \in Nat \ {0}
  BY <1>2, <1>3
<1> HIDE DEF bytes, size, n
<1>5. /\ buffer \in Buffers(Entries) /\ in \in Slots
      /\ buffer.entry \in [Slots -> Entries] /\ buffer.full \in BOOLEAN
  BY DEF DriverInv, DeviceTypeOK, Buffers
<1>6. /\ q \in Blocks
      /\ \A i \in Slots : buffer.entry[i].buffptr # q
      /\ \A u \in Threads : write_data[u] # q
  <2>1. q \in Blocks
    BY <1>1, <1>2, <1>3, TargetsSafe
  <2> QED
    BY <1>1, <2>1, TargetIsNew
<1>7. /\ heap' \in [Blocks -> Seq(Byte) \union {FREE}]
      /\ \A x \in Blocks : heap'[x] =
           IF x = write_data[t] \/ (buffer.full /\ x = old) THEN FREE
           ELSE IF x = q THEN bytes
           ELSE IF x \in Pending THEN FREE ELSE heap[x]
  <2> DEFINE h1 == Stored(q, bytes)
             h2 == FreeOldest(h1)
  <2>1. /\ h1 \in [Blocks -> Seq(Byte) \union {FREE}]
        /\ \A x \in Blocks : h1[x] =
             IF x = q THEN bytes ELSE IF x \in Pending THEN FREE ELSE heap[x]
    BY <1>4, StoredHeap
  <2> HIDE DEF h1
  <2>2. /\ h2 \in [Blocks -> Seq(Byte) \union {FREE}]
        /\ \A x \in Blocks : h2[x] = IF buffer.full /\ x = old THEN FREE ELSE h1[x]
    BY <2>1, KfreeHeap DEF FreeOldest
  <2> HIDE DEF h2
  <2>3. heap' = Kfree(h2, write_data[t])
    BY <1>1 DEF h1, h2
  <2> QED
    BY <2>1, <2>2, <2>3, KfreeHeap
<1>8. heap'[q] = bytes
  BY <1>5, <1>6, <1>7
<1>9. \A x \in Blocks \ {q} : heap'[x] =
         IF \/ x = write_data[t] \/ x \in Pending
            \/ buffer.full /\ x = old
         THEN FREE ELSE heap[x]
  BY <1>7
<1>10. size = write_buffer_size + AppendIndex(Data(t)) /\ bytes = Line(t)
  BY DEF size, bytes, n, Line
<1>11. Commits(t, q)
  BY <1>1, <1>4, <1>6, <1>7, <1>8, <1>9, <1>10 DEF Commits
<1> QED
  BY <1>6, <1>11

(* The newline: the tail becomes an entry, the oldest entry may be freed.   *)
LEMMA WriteCommitInv ==
  ASSUME DriverInv, NEW t \in Threads, WriteCommit(t)
  PROVE  DriverInv'
<1> USE DriverAssumption
<1> DEFINE size  == Len(Line(t))
           in    == buffer.in_offs
           old   == buffer.entry[in].buffptr
<1>0. PICK q \in Blocks : Commits(t, q)
  BY CommitStep
<1>1. /\ write_buffer' = q
      /\ \A i \in Slots : buffer.entry[i].buffptr # q
      /\ \A u \in Threads : write_data[u] # q
      /\ size \in Nat \ {0}
      /\ Len(heap'[q]) = size /\ heap'[q] \in Seq(Byte)
      /\ heap' \in [Blocks -> Seq(Byte) \union {FREE}]
      /\ \A x \in Blocks \ {q} : heap'[x] =
           IF \/ x = write_data[t] \/ x \in Pending
              \/ buffer.full /\ x = old
           THEN FREE ELSE heap[x]
      /\ buffer' = AddEntry(buffer, [buffptr |-> q, size |-> size])
  BY <1>0 DEF Commits
<1>2. /\ UNCHANGED <<module, vfs, file, writes>>
      /\ write_buffer_size' = 0
      /\ buff_size' = ConcatenatedLength(AppendIndex(Data(t)))
      /\ Leave(t, "write_body", "advance", AppendIndex(Data(t)))
  BY DEF WriteCommit
<1>3. write_buffer_size \in Nat /\ buff_size \in Nat /\ Data(t) \in Seq(Byte)
  BY DataType DEF DriverInv, DeviceTypeOK
<1>4. AppendIndex(Data(t)) \in Nat
  BY <1>3, AppendIndexBounds
<1> HIDE DEF size
<1>5. /\ buffer \in Buffers(Entries) /\ in \in Slots
      /\ buffer.entry \in [Slots -> Entries] /\ buffer.full \in BOOLEAN
  BY DEF DriverInv, DeviceTypeOK, Buffers
<1>6. /\ buffer' \in Buffers(Entries)
      /\ \A i \in Slots : buffer'.entry[i] =
           IF i = in THEN [buffptr |-> q, size |-> size] ELSE buffer.entry[i]
  <2>1. [buffptr |-> q, size |-> size] \in Entries
    BY <1>1 DEF Entries
  <2> QED
    BY <1>1, <1>5, <2>1, AddEntryType
<1>7. /\ write_data \in [Threads -> Pointers] /\ write_data' \in [Threads -> Pointers]
      /\ \A u \in Threads : write_data'[u] = IF u = t THEN NULL ELSE write_data[u]
  BY DEF DriverInv, CallTypeOK, WriteCommit, Pointers
<1>8. DeviceTypeOK'
  <2>1. buff_size' \in Nat
    BY <1>2, <1>3, <1>4 DEF ConcatenatedLength
  <2>2. write_buffer' \in Pointers
    BY <1>1 DEF Pointers
  <2> QED
    BY <1>1, <1>2, <1>6, <2>1, <2>2 DEF DriverInv, DeviceTypeOK, module, Leave
<1>9. CallTypeOK' /\ LockOwner'
  <2>1. "write_body" \in Bodies
    BY DEF Bodies
  <2> QED
    BY <1>2, <1>7, <2>1, LeaveCalls DEF module, vfs
<1>10. \A i \in Slots : i # in /\ buffer.entry[i].buffptr # NULL =>
         /\ Live(buffer.entry[i].buffptr)
         /\ Len(heap[buffer.entry[i].buffptr]) = buffer.entry[i].size
         /\ heap'[buffer.entry[i].buffptr] = heap[buffer.entry[i].buffptr]
  <2> SUFFICES ASSUME NEW i \in Slots, i # in, buffer.entry[i].buffptr # NULL
               PROVE  /\ Live(buffer.entry[i].buffptr)
                      /\ Len(heap[buffer.entry[i].buffptr]) = buffer.entry[i].size
                      /\ heap'[buffer.entry[i].buffptr] = heap[buffer.entry[i].buffptr]
    OBVIOUS
  <2> DEFINE p == buffer.entry[i].buffptr
  <2>1. Live(p) /\ Len(heap[p]) = buffer.entry[i].size
    BY DEF DriverInv, MemorySafe, SlotsSafe
  <2>2. p # old
    BY <1>5 DEF DriverInv, MemorySafe, SlotsDistinct
  <2>3. p # write_data[t] /\ p \notin Pending /\ p # q
    BY <1>1, <2>1
       DEF DriverInv, MemorySafe, TemporariesSafe, PendingSafe, Live
  <2> QED
    BY <1>1, <2>1, <2>2, <2>3 DEF Live
<1>11. SlotsSafe'
  <2> SUFFICES ASSUME NEW i \in Slots
               PROVE  IF buffer'.entry[i].buffptr = NULL
                      THEN buffer'.entry[i].size = 0
                      ELSE /\ Live(buffer.entry[i].buffptr)'
                           /\ Len(heap'[buffer'.entry[i].buffptr])
                                = buffer'.entry[i].size
    BY DEF SlotsSafe
  <2>1. CASE i = in
    BY <1>1, <1>6, <2>1 DEF Live
  <2>2. CASE i # in
    BY <1>6, <1>10, <2>2 DEF Live, DriverInv, MemorySafe, SlotsSafe
  <2> QED
    BY <2>1, <2>2
<1>12. SlotsDistinct'
  <2>1. \A i \in Slots \ {in} : /\ buffer'.entry[i] = buffer.entry[i]
                                /\ buffer'.entry[i].buffptr # q
    BY <1>1, <1>6
  <2>2. buffer'.entry[in].buffptr = q
    BY <1>5, <1>6
  <2>3. SlotsDistinct
    BY DEF DriverInv, MemorySafe
  <2> QED
    BY <2>1, <2>2, <2>3 DEF SlotsDistinct
<1>13. PendingSafe'
  BY <1>2 DEF PendingSafe, Pending
<1>14. TemporariesSafe'
  <2> SUFFICES ASSUME NEW u \in Threads, u # t, write_data[u] \in Blocks
               PROVE  /\ Live(write_data[u])'
                      /\ \A i \in Slots : buffer'.entry[i].buffptr # write_data[u]
                      /\ \A v \in Threads \ {u} : write_data'[v] # write_data[u]
    BY <1>7 DEF TemporariesSafe
  <2>1. /\ Live(write_data[u])
        /\ \A i \in Slots : buffer.entry[i].buffptr # write_data[u]
        /\ \A v \in Threads \ {u} : write_data[v] # write_data[u]
    BY DEF DriverInv, MemorySafe, TemporariesSafe
  <2>2. write_data[u] \notin Pending
    <3>1. \A p \in Pending \ {NULL} : write_data[u] # p
      BY DEF DriverInv, MemorySafe, PendingSafe
    <3> QED
      BY <3>1
  <2>3. heap'[write_data[u]] = heap[write_data[u]]
    BY <1>1, <1>5, <2>1, <2>2
  <2>4. /\ Live(write_data[u])' /\ q # write_data[u]
        /\ \A v \in Threads \ {u} : write_data'[v] # write_data[u]
    BY <1>1, <1>7, <2>1, <2>3, DriverAssumption DEF Live, Pointers
  <2> QED
    BY <1>6, <2>1, <2>4
<1> QED
  BY <1>8, <1>9, <1>11, <1>12, <1>13, <1>14 DEF DriverInv, MemorySafe

-----------------------------------------------------------------------------
(* The VFS and the module. *)

LEMMA ReturnInv ==
  ASSUME DriverInv, NEW t \in Threads, Return(t)
  PROVE  DriverInv'
<1>1. DeviceTypeOK'
  BY DEF DriverInv, DeviceTypeOK, Return, module, device
<1>2. CallTypeOK'
  BY DEF DriverInv, CallTypeOK, Return, module, Labels
<1>3. LockOwner'
  <2>1. "idle" \in Labels \ Bodies /\ pc[t] \notin Bodies
    BY DEF Return, Labels, Bodies
  <2> QED
    BY <2>1, LockUntouched DEF Return, device
<1>4. MemorySafe'
  BY MemoryUntouched DEF DriverInv, Return, device
<1> QED
  BY <1>1, <1>2, <1>3, <1>4 DEF DriverInv

LEMMA FileInv ==
  ASSUME DriverInv, NEW f \in Files, Open(f) \/ Release(f)
  PROVE  DriverInv'
<1>1. UNCHANGED <<module, device, heap, calls, writes>>
      /\ opened' \in {opened \union {f}, opened \ {f}}
  BY DEF Open, Release
<1>2. DeviceTypeOK'
  BY <1>1 DEF DriverInv, DeviceTypeOK, module, device
<1>3. CallTypeOK'
  BY <1>1 DEF DriverInv, CallTypeOK, Open, Release, module, calls
<1>4. LockOwner'
  BY <1>1 DEF DriverInv, LockOwner, device, calls
<1>5. MemorySafe'
  BY <1>1, MemoryUntouched DEF DriverInv, device, calls
<1> QED
  BY <1>2, <1>3, <1>4, <1>5 DEF DriverInv

LEMMA ModuleInv ==
  ASSUME DriverInv, InitModule \/ CleanupModule
  PROVE  DriverInv'
<1> USE DriverAssumption
<1>1. /\ opened = {} /\ UNCHANGED <<vfs, calls, writes>>
      /\ lock' = NOBODY /\ buffer' = InitBuffer
      /\ write_buffer' = NULL /\ write_buffer_size' = 0 /\ buff_size' = 0
  BY DEF InitModule, CleanupModule, DriverInv, CallTypeOK
<1>2. /\ heap' \in [Blocks -> Seq(Byte) \union {FREE}]
      /\ \A t \in Threads : write_data[t] \in Blocks =>
           heap'[write_data[t]] = heap[write_data[t]]
  BY DEF InitModule, CleanupModule, DriverInv, DeviceTypeOK, MemorySafe,
         TemporariesSafe
<1>3. DeviceTypeOK'
  <2>1. loads' \in Nat
    BY DEF InitModule, CleanupModule, DriverInv, DeviceTypeOK
  <2>2. loaded' \in BOOLEAN
    BY DEF InitModule, CleanupModule
  <2> QED
    BY <1>1, <1>2, <2>1, <2>2, EmptyDevice DEF DeviceTypeOK, Pointers
<1>4. CallTypeOK'
  BY <1>1 DEF DriverInv, CallTypeOK, vfs, calls
<1>5. LockOwner'
  BY <1>1 DEF DriverInv, CallTypeOK, LockOwner, Bodies, calls
<1>6. SlotsSafe' /\ SlotsDistinct' /\ PendingSafe'
  BY <1>1, EmptyDevice DEF SlotsSafe, SlotsDistinct, PendingSafe, Pending, NoEntry
<1>7. TemporariesSafe'
  BY <1>1, <1>2, EmptyDevice
     DEF DriverInv, MemorySafe, TemporariesSafe, Live, NoEntry, calls
<1> QED
  BY <1>3, <1>4, <1>5, <1>6, <1>7 DEF DriverInv, MemorySafe

LEMMA StutterInv == DriverInv /\ UNCHANGED vars => DriverInv'
<1> SUFFICES ASSUME DriverInv, UNCHANGED vars PROVE DriverInv'
  OBVIOUS
<1>1. UNCHANGED <<module, device, heap, vfs, calls, writes>>
  BY DEF vars
<1>2. DeviceTypeOK' /\ CallTypeOK' /\ LockOwner'
  BY <1>1 DEF DriverInv, DeviceTypeOK, CallTypeOK, LockOwner, module, device, vfs, calls
<1>3. MemorySafe'
  BY <1>1, MemoryUntouched DEF DriverInv, device, calls
<1> QED
  BY <1>2, <1>3 DEF DriverInv
-----------------------------------------------------------------------------
(* One step, one action at a time. *)

LEMMA CallInv ==
  ASSUME DriverInv, NEW t \in Threads, Call(t)
  PROVE  DriverInv'
<1>1. PICK f \in Files :
         \/ ReadCall(t, f) \/ WriteCall(t, f) \/ WriteRefused(t, f)
         \/ LlseekCall(t, f) \/ IoctlCall(t, f)
  BY DEF Call
<1>2. CASE ReadCall(t, f)
  BY <1>2, PlainCallInv, RejectInv DEF ReadCall
<1>3. CASE WriteCall(t, f)
  BY <1>3, WriteCallInv
<1>4. CASE WriteRefused(t, f)
  BY <1>4, RejectInv DEF WriteRefused
<1>5. CASE LlseekCall(t, f)
  BY <1>5, PlainCallInv DEF LlseekCall
<1>6. CASE IoctlCall(t, f)
  BY <1>6, PlainCallInv, RejectInv DEF IoctlCall
<1> QED
  BY <1>1, <1>2, <1>3, <1>4, <1>5, <1>6

LEMMA WaitInv ==
  ASSUME DriverInv, NEW t \in Threads, Lock(t) \/ LockBroken(t)
  PROVE  DriverInv'
<1>1. CASE Lock(t)
  <2>1. \E from \in Labels \ {"idle"}, to \in Bodies : Locked(t, from, to)
    BY <1>1 DEF Lock, Labels, Bodies
  <2> QED
    BY <2>1, LockedInv
<1>2. CASE LockBroken(t)
  <2>1. \E from \in (Labels \ Bodies) \ {"idle"} : Interrupted(t, from)
    BY <1>2 DEF LockBroken, Labels, Bodies
  <2> QED
    BY <2>1, InterruptedInv
<1> QED
  BY <1>1, <1>2

LEMMA BodyInv ==
  ASSUME DriverInv, NEW t \in Threads, Body(t)
  PROVE  DriverInv'
  BY ReadInv, WriteNoMemoryInv, WriteAppendInv, WriteCommitInv, SeekInv DEF Body

LEMMA NextInv == DriverInv /\ [Next]_vars => DriverInv'
<1> SUFFICES ASSUME DriverInv, [Next]_vars PROVE DriverInv'
  OBVIOUS
<1>1. ASSUME NEW t \in Threads,
             Call(t) \/ Lock(t) \/ LockBroken(t) \/ Body(t) \/ Return(t)
      PROVE  DriverInv'
  BY <1>1, CallInv, WaitInv, BodyInv, ReturnInv
<1>2. ASSUME NEW f \in Files, Open(f) \/ Release(f)
      PROVE  DriverInv'
  BY <1>2, FileInv
<1>3. CASE InitModule \/ CleanupModule
  BY <1>3, ModuleInv
<1>4. CASE UNCHANGED vars
  BY <1>4, StutterInv
<1> QED
  BY <1>1, <1>2, <1>3, <1>4 DEF Next

(* The driver's state is always well typed, a call under way has an open    *)
(* file, and an open file holds the module.                                 *)
THEOREM InvariantHolds == Spec => []DriverInv
  BY InitInv, NextInv, PTL DEF Spec

(* The mutex of aesd_device is held by exactly the thread inside a critical *)
(* section of aesd_read, aesd_write, aesd_llseek or the ioctl: every exit,   *)
(* the failing ones included, unlocks it.                                   *)
THEOREM LockOwnerHolds == Spec => []LockOwner
<1>1. DriverInv => LockOwner
  BY DEF DriverInv
<1> QED
  BY <1>1, InvariantHolds, PTL

(* No fault and no interleaving makes the driver keep a pointer to a freed  *)
(* block, a wrong size, or two pointers to one block: aesd_write's kfree    *)
(* and krealloc, and the frees of aesd_cleanup_module, are safe.            *)
THEOREM MemorySafeHolds == Spec => []MemorySafe
<1>1. DriverInv => MemorySafe
  BY DEF DriverInv
<1> QED
  BY <1>1, InvariantHolds, PTL

(* At most one thread is inside a critical section. *)
THEOREM MutualExclusion ==
  Spec => [](\A t, u \in Threads : pc[t] \in Bodies /\ pc[u] \in Bodies => t = u)
<1>1. LockOwner => \A t, u \in Threads : pc[t] \in Bodies /\ pc[u] \in Bodies => t = u
  BY DEF LockOwner
<1> QED
  BY <1>1, LockOwnerHolds, PTL

-----------------------------------------------------------------------------
(* The log of commands. *)

(* Beyond memory safety: which slots are filled, that an unterminated tail  *)
(* has a block to be in, and that a write under way still holds, unchanged, *)
(* what it was given.                                                       *)
Writing == {"write_lock", "write_body"}

SlotsFilled ==
  /\ WellShaped(buffer)
  /\ \A i \in Filled(buffer) : buffer.entry[i].buffptr \in Blocks

TailStored == write_buffer_size > 0 => write_buffer \in Blocks

DataKept == \A t \in Threads : pc[t] \in Writing => Data(t) \in Payloads

LogInv == SlotsFilled /\ TailStored /\ DataKept

-----------------------------------------------------------------------------
(* The log, and the steps that leave it alone. *)

LogIs ==
  /\ Log \in Seq(Seq(Byte)) /\ Len(Log) = Count(buffer)
  /\ \A i \in 1 .. Count(buffer) :
       /\ Slot(buffer, i - 1) \in Filled(buffer)
       /\ Log[i] = heap[buffer.entry[Slot(buffer, i - 1)].buffptr]

LEMMA LogType == DriverInv /\ SlotsFilled => LogIs
<1> SUFFICES ASSUME DriverInv, SlotsFilled PROVE LogIs
  OBVIOUS
<1>1. buffer \in Buffers(Entries) /\ WellShaped(buffer)
  BY DEF DriverInv, DeviceTypeOK, SlotsFilled
<1>2. /\ Count(buffer) \in Nat
      /\ \A i \in 1 .. Count(buffer) : Slot(buffer, i - 1) \in Filled(buffer)
  BY <1>1, ContentsPlaces, MaxOpsAssumption
<1>3. \A i \in 1 .. Count(buffer) :
        Log[i] = heap[buffer.entry[Slot(buffer, i - 1)].buffptr]
  BY DEF Log, Contents
<1>4. \A i \in Filled(buffer) : heap[buffer.entry[i].buffptr] \in Seq(Byte)
  <2> SUFFICES ASSUME NEW i \in Filled(buffer)
               PROVE  heap[buffer.entry[i].buffptr] \in Seq(Byte)
    OBVIOUS
  <2>1. i \in Slots /\ buffer.entry[i].buffptr \in Blocks
    BY DEF SlotsFilled, Filled
  <2>2. Live(buffer.entry[i].buffptr)
    BY <2>1, DriverAssumption DEF DriverInv, MemorySafe, SlotsSafe
  <2> QED
    BY <2>1, <2>2 DEF Live, DriverInv, DeviceTypeOK
<1>5. Log \in [1 .. Count(buffer) -> Seq(Byte)]
  BY <1>2, <1>3, <1>4 DEF Log
<1>6. Log \in Seq(Seq(Byte)) /\ Len(Log) = Count(buffer)
  <2> DEFINE S == Seq(Byte)
             n == Count(buffer)
  <2>1. Log \in [1 .. n -> S] /\ n \in Nat
    BY <1>2, <1>5
  <2> HIDE DEF S, n
  <2>2. Log \in Seq(S) /\ Len(Log) = n
    BY <2>1
  <2> QED
    BY <2>2 DEF S, n
<1> QED
  BY <1>2, <1>3, <1>6 DEF LogIs

(* A step that moves no block of the log leaves the log alone. *)
FilledKept ==
  \A i \in Filled(buffer) :
    heap'[buffer.entry[i].buffptr] = heap[buffer.entry[i].buffptr]

LEMMA LogKept ==
  ASSUME DriverInv, SlotsFilled, UNCHANGED buffer, FilledKept
  PROVE  SlotsFilled' /\ Log' = Log
<1>1. SlotsFilled'
  BY DEF SlotsFilled
<1>2. Count(buffer') = Count(buffer) /\ Contents(buffer') = Contents(buffer)
  OBVIOUS
<1>3. \A i \in 1 .. Count(buffer) :
        heap'[Contents(buffer)[i].buffptr] = heap[Contents(buffer)[i].buffptr]
  BY LogType DEF LogIs, Contents, FilledKept
<1> QED
  BY <1>1, <1>2, <1>3 DEF Log

(* A step that moves no block of the log and none of the tail. *)
LEMMA LogUntouched ==
  ASSUME DriverInv, LogInv, UNCHANGED <<buffer, write_buffer_size>>, FilledKept,
         write_buffer_size > 0 => /\ write_buffer' = write_buffer
                                  /\ heap'[write_buffer] = heap[write_buffer],
         DataKept'
  PROVE  LogInv' /\ UNCHANGED CL!vars
<1>1. SlotsFilled' /\ TailStored' /\ Log' = Log
  BY LogKept DEF LogInv, TailStored
<1>2. Unterminated' = Unterminated
  <2>1. write_buffer_size \in Nat
    BY DEF DriverInv, DeviceTypeOK
  <2> QED
    BY <2>1 DEF Unterminated
<1> QED
  BY <1>1, <1>2 DEF LogInv, CL!vars

LEMMA QuietLog ==
  ASSUME DriverInv, LogInv,
         UNCHANGED <<buffer, write_buffer, write_buffer_size, heap>>,
         \A u \in Threads :
           pc'[u] \in Writing => /\ pc[u] \in Writing
                                 /\ write_data'[u] = write_data[u]
  PROVE  LogInv' /\ UNCHANGED CL!vars
<1>1. DataKept'
  BY DEF LogInv, DataKept, Data
<1> QED
  BY <1>1, LogUntouched DEF FilledKept

(* The parts of a write that commit nothing: what they allocate was free,   *)
(* and what they free is the temporary buffer's or the tail's, so that it   *)
(* is in no command.                                                        *)
LEMMA WriteKeeps ==
  ASSUME DriverInv, SlotsFilled, NEW t \in Threads,
         \/ \E f \in Files : WriteCall(t, f)
         \/ WriteNoMemory(t) \/ WriteAppend(t)
  PROVE  FilledKept /\ UNCHANGED buffer
<1>1. ASSUME NEW i \in Filled(buffer)
      PROVE  /\ i \in Slots /\ buffer.entry[i].buffptr \in Blocks
             /\ Live(buffer.entry[i].buffptr)
  BY DriverAssumption DEF SlotsFilled, Filled, DriverInv, MemorySafe, SlotsSafe
<1>2. CASE \E f \in Files : WriteCall(t, f)
  <2>0. PICK data \in Payloads : \E p \in Kmalloc(Len(data)) \ {NULL} :
           heap' = Fill(heap, p, data)
    BY <1>2 DEF WriteCall
  <2>1. PICK p \in Kmalloc(Len(data)) \ {NULL} : heap' = Fill(heap, p, data)
    BY <2>0
  <2>2. \A x \in Blocks : heap'[x] = IF x = p THEN data ELSE heap[x]
    BY <2>1, FillHeap, DriverAssumption DEF DriverInv, DeviceTypeOK
  <2>3. p \in Blocks => heap[p] = FREE
    BY <2>1, DriverAssumption DEF Kmalloc, FreeBlocks
  <2> QED
    BY <1>1, <1>2, <2>2, <2>3 DEF FilledKept, Live, WriteCall, device
<1>3. CASE WriteNoMemory(t)
  <2>1. \A x \in Blocks : heap'[x] = IF x = write_data[t] THEN FREE ELSE heap[x]
    BY <1>3, KfreeHeap DEF WriteNoMemory, DriverInv, DeviceTypeOK
  <2> QED
    BY <1>1, <1>3, <2>1
       DEF FilledKept, WriteNoMemory, DriverInv, MemorySafe, TemporariesSafe
<1>4. CASE WriteAppend(t)
  <2>1. PICK q :
    /\ q \in Blocks => \A i \in Slots : buffer.entry[i].buffptr # q
    /\ \A x \in Blocks \ {q} :
         heap'[x] = IF x = write_data[t] \/ x \in Pending THEN FREE ELSE heap[x]
    BY <1>4, AppendStep
  <2>2. ASSUME NEW i \in Filled(buffer)
        PROVE  heap'[buffer.entry[i].buffptr] = heap[buffer.entry[i].buffptr]
    <3> DEFINE p == buffer.entry[i].buffptr
    <3>1. i \in Slots /\ p \in Blocks
      BY <1>1
    <3>2. p # write_data[t] /\ p \notin Pending /\ p # q
      BY <2>1, <3>1, DriverAssumption
         DEF DriverInv, MemorySafe, TemporariesSafe, PendingSafe
    <3> QED
      BY <2>1, <3>1, <3>2
  <2> QED
    BY <1>4, <2>2 DEF FilledKept, WriteAppend
<1> QED
  BY <1>2, <1>3, <1>4

(* aesd_write before the mutex: the temporary buffer was free, so it is in  *)
(* no command.                                                              *)
LEMMA WriteCallLog ==
  ASSUME DriverInv, LogInv, NEW t \in Threads, NEW f \in Files, WriteCall(t, f)
  PROVE  LogInv' /\ UNCHANGED CL!vars
<1>0. PICK data \in Payloads :
         \E p \in Kmalloc(Len(data)) \ {NULL} :
           /\ Enter(t, f, "write_lock")
           /\ write_data' = [write_data EXCEPT ![t] = p]
           /\ heap' = Fill(heap, p, data)
  BY DEF WriteCall
<1>1. PICK p \in Kmalloc(Len(data)) \ {NULL} :
         /\ Enter(t, f, "write_lock")
         /\ write_data' = [write_data EXCEPT ![t] = p]
         /\ heap' = Fill(heap, p, data)
  BY <1>0
<1>2. /\ data \in Seq(Byte)
      /\ \/ p = ZERO_SIZE_PTR /\ Len(data) = 0
         \/ p \in Blocks /\ heap[p] = FREE
  BY <1>1, DriverAssumption DEF Kmalloc, FreeBlocks
<1>3. /\ \A x \in Blocks : heap'[x] = IF x = p THEN data ELSE heap[x]
      /\ UNCHANGED <<buffer, write_buffer, write_buffer_size>>
  BY <1>1, <1>2, FillHeap DEF DriverInv, DeviceTypeOK, WriteCall, device
<1>4. /\ pc' = [pc EXCEPT ![t] = "write_lock"] /\ pc \in [Threads -> Labels]
      /\ write_data \in [Threads -> Pointers]
  BY <1>1 DEF Enter, DriverInv, CallTypeOK
<1>5. \A x : Live(x) => heap'[x] = heap[x]
  BY <1>2, <1>3, DriverAssumption DEF Live
<1>6. FilledKept
  BY WriteKeeps DEF LogInv
<1>7. write_buffer_size > 0 => Live(write_buffer)
  BY DriverAssumption
     DEF LogInv, TailStored, DriverInv, MemorySafe, PendingSafe, Pending
<1>8. DataKept'
  <2> SUFFICES ASSUME NEW u \in Threads, pc'[u] \in Writing
               PROVE  Data(u)' \in Payloads
    BY DEF DataKept
  <2>1. CASE u = t
    <3>1. write_data'[u] = p
      BY <1>1, <1>4, <2>1
    <3>2. p \in Blocks \/ data = <<>>
      BY <1>2
    <3> QED
      BY <1>2, <1>3, <3>1, <3>2, DriverAssumption DEF Data
  <2>2. CASE u # t
    <3>1. write_data'[u] = write_data[u] /\ pc'[u] = pc[u]
      BY <1>1, <1>4, <2>2
    <3>2. write_data[u] \in Blocks => heap'[write_data[u]] = heap[write_data[u]]
      BY <1>5 DEF DriverInv, MemorySafe, TemporariesSafe
    <3>3. Data(u)' = Data(u)
      BY <3>1, <3>2 DEF Data
    <3> QED
      BY <3>1, <3>3 DEF LogInv, DataKept
  <2> QED
    BY <2>1, <2>2
<1> QED
  BY <1>3, <1>5, <1>6, <1>7, <1>8, LogUntouched

(* A write that gets no memory had no tail to lose, unless a reallocation   *)
(* may fail.                                                                *)
LEMMA WriteNoMemoryHasNoTail ==
  ASSUME DriverInv, LogInv, "KREALLOC" \notin Faults,
         NEW t \in Threads, WriteNoMemory(t)
  PROVE  write_buffer_size = 0
<1> SUFFICES ASSUME write_buffer_size # 0 PROVE FALSE
  OBVIOUS
<1>1. write_buffer \in Blocks
  BY DEF LogInv, TailStored, DriverInv, DeviceTypeOK
<1>2. NULL \in Krealloc(write_buffer, AppendIndex(Data(t)))
  BY DEF WriteNoMemory, Targets
<1> QED
  BY <1>1, <1>2, DriverAssumption DEF Krealloc, FreeBlocks

LEMMA WriteNoMemoryLog ==
  ASSUME DriverInv, LogInv, "KREALLOC" \notin Faults,
         NEW t \in Threads, WriteNoMemory(t)
  PROVE  LogInv' /\ UNCHANGED CL!vars
<1>1. write_buffer_size = 0
  BY WriteNoMemoryHasNoTail
<1>2. /\ \A x \in Blocks : heap'[x] = IF x = write_data[t] THEN FREE ELSE heap[x]
      /\ UNCHANGED <<buffer, write_buffer_size>>
  BY KfreeHeap DEF WriteNoMemory, DriverInv, DeviceTypeOK
<1>3. /\ write_data \in [Threads -> Pointers] /\ pc \in [Threads -> Labels]
      /\ pc' = [pc EXCEPT ![t] = "return"]
      /\ write_data' = [write_data EXCEPT ![t] = NULL]
  BY DEF WriteNoMemory, Leave, DriverInv, CallTypeOK
<1>4. FilledKept
  BY WriteKeeps DEF LogInv
<1>5. DataKept'
  <2> SUFFICES ASSUME NEW u \in Threads, pc'[u] \in Writing
               PROVE  Data(u)' \in Payloads
    BY DEF DataKept
  <2>1. u # t /\ pc'[u] = pc[u] /\ write_data'[u] = write_data[u]
    BY <1>3 DEF Writing
  <2>2. write_data[u] \in Blocks => heap'[write_data[u]] = heap[write_data[u]]
    BY <1>2, <2>1 DEF DriverInv, MemorySafe, TemporariesSafe
  <2>3. Data(u)' = Data(u)
    BY <2>1, <2>2 DEF Data
  <2> QED
    BY <2>1, <2>3 DEF LogInv, DataKept
<1> QED
  BY <1>1, <1>2, <1>4, <1>5, LogUntouched

(* The temporary buffers of the other writes survive a write's step.        *)
LEMMA OthersKeepData ==
  ASSUME DriverInv, LogInv, NEW t \in Threads, NEW label \in {"advance", "return"},
         pc' = [pc EXCEPT ![t] = label],
         write_data' = [write_data EXCEPT ![t] = NULL],
         \A u \in Threads \ {t} : write_data[u] \in Blocks =>
           heap'[write_data[u]] = heap[write_data[u]]
  PROVE  DataKept'
<1> SUFFICES ASSUME NEW u \in Threads, pc'[u] \in Writing
             PROVE  Data(u)' \in Payloads
  BY DEF DataKept
<1>1. u # t /\ pc'[u] = pc[u] /\ write_data'[u] = write_data[u]
  BY DEF Writing, DriverInv, CallTypeOK
<1>2. Data(u)' = Data(u)
  BY <1>1 DEF Data
<1> QED
  BY <1>1, <1>2 DEF LogInv, DataKept

(* A write without a newline extends the tail. *)
LEMMA WriteAppendLog ==
  ASSUME DriverInv, LogInv, NEW t \in Threads, WriteAppend(t)
  PROVE  LogInv' /\ CL!Extend(Data(t))
<1> USE DriverAssumption
<1>1. PICK q :
    /\ write_buffer' = q
    /\ q \in Blocks \/ (q = ZERO_SIZE_PTR /\ write_buffer_size' = 0)
    /\ q \in Blocks => /\ heap'[q] = Unterminated \o Data(t)
                       /\ \A i \in Slots : buffer.entry[i].buffptr # q
                       /\ \A u \in Threads : write_data[u] # q
    /\ Unterminated \o Data(t) \in Seq(Byte)
    /\ Len(Unterminated \o Data(t)) = write_buffer_size'
    /\ heap' \in [Blocks -> Seq(Byte) \union {FREE}]
    /\ \A x \in Blocks \ {q} :
         heap'[x] = IF x = write_data[t] \/ x \in Pending THEN FREE ELSE heap[x]
  BY AppendStep
<1>2. /\ pc' = [pc EXCEPT ![t] = "advance"]
      /\ write_data' = [write_data EXCEPT ![t] = NULL]
      /\ buffer' = buffer
  BY DEF WriteAppend, Leave
<1>3. SlotsFilled' /\ Log' = Log
  BY WriteKeeps, LogKept DEF LogInv
<1>4. DataKept'
  <2>1. \A u \in Threads \ {t} : write_data[u] \in Blocks =>
          heap'[write_data[u]] = heap[write_data[u]]
    BY <1>1 DEF DriverInv, MemorySafe, TemporariesSafe, PendingSafe
  <2> QED
    BY <1>2, <2>1, OthersKeepData
<1>5. LogInv'
  BY <1>1, <1>3, <1>4 DEF LogInv, TailStored
<1>7. Unterminated' = Unterminated \o Data(t)
  <2>1. CASE write_buffer_size' = 0
    <3>1. Unterminated \o Data(t) = <<>>
      BY <1>1, <2>1
    <3> QED
      BY <2>1, <3>1 DEF Unterminated
  <2>2. CASE write_buffer_size' # 0
    BY <1>1, <2>2 DEF Unterminated
  <2> QED
    BY <2>1, <2>2
<1>8. ~ CL!HasNewline(Data(t))
  BY DEF WriteAppend, NewlineFound, CL!HasNewline
<1> QED
  BY <1>3, <1>5, <1>7, <1>8 DEF CL!Extend

(* A write with a newline turns the tail into the newest command, and a     *)
(* full buffer drops its oldest.                                            *)
LEMMA CommitKeeps ==
  ASSUME DriverInv, SlotsFilled, NEW t \in Threads, WriteCommit(t)
  PROVE  /\ SlotsFilled' /\ Log' = CL!Keep(Log, Line(t))
         /\ Line(t) \in Seq(Byte)
         /\ buff_size' = buff_size + Len(Line(t))
         /\ buffer.full => buffer'.full
<1> USE DriverAssumption
<1> DEFINE line == Line(t)
           size == Len(Line(t))
           in   == buffer.in_offs
           old  == buffer.entry[in].buffptr
<1>0. PICK q \in Blocks : Commits(t, q)
  BY CommitStep
<1>1. /\ heap'[q] = line
      /\ \A i \in Slots : buffer.entry[i].buffptr # q
      /\ size \in Nat \ {0} /\ line \in Seq(Byte) /\ Len(line) = size
      /\ size = write_buffer_size + AppendIndex(Data(t))
      /\ \A x \in Blocks \ {q} : heap'[x] =
           IF \/ x = write_data[t] \/ x \in Pending
              \/ buffer.full /\ x = old
           THEN FREE ELSE heap[x]
      /\ buffer' = AddEntry(buffer, [buffptr |-> q, size |-> size])
  BY <1>0 DEF Commits
<1>2. buff_size' = buff_size + size
  <2>1. AppendIndex(Data(t)) \in Nat /\ buff_size \in Nat /\ write_buffer_size \in Nat
    BY DataType, AppendIndexBounds DEF DriverInv, DeviceTypeOK
  <2> QED
    BY <1>1, <2>1 DEF WriteCommit, ConcatenatedLength
<1> HIDE DEF line, size
<1> DEFINE e == [buffptr |-> q, size |-> size]
<1>3. e \in Entries /\ buffer' = AddEntry(buffer, e) /\ e.buffptr = q
  BY <1>1 DEF Entries
<1> HIDE DEF e
<1>4. /\ buffer \in Buffers(Entries) /\ WellShaped(buffer)
      /\ in \in Slots /\ buffer.full \in BOOLEAN
      /\ MAX_OPS \in Nat /\ MAX_OPS > 0
  BY MaxOpsAssumption
     DEF DriverInv, DeviceTypeOK, SlotsFilled, Buffers
<1>5. \A i \in Slots : buffer'.entry[i] = IF i = in THEN e ELSE buffer.entry[i]
  BY <1>3, <1>4, AddEntryType
<1>6. /\ WellShaped(buffer')
      /\ Filled(buffer') = Filled(buffer) \union {in}
      /\ Count(buffer') = IF buffer.full THEN MAX_OPS ELSE Count(buffer) + 1
      /\ \A i \in 1 .. Count(buffer') :
           IF i = Count(buffer')
           THEN Slot(buffer', i - 1) = in
           ELSE /\ Slot(buffer', i - 1) # in
                /\ Slot(buffer', i - 1) \in Filled(buffer)
                /\ Slot(buffer', i - 1) =
                     Slot(buffer, IF buffer.full THEN i ELSE i - 1)
  BY <1>3, <1>4, AddedContents
<1>7. \A i \in Filled(buffer) \ {in} :
        heap'[buffer.entry[i].buffptr] = heap[buffer.entry[i].buffptr]
  <2> SUFFICES ASSUME NEW i \in Filled(buffer) \ {in}
               PROVE  heap'[buffer.entry[i].buffptr] = heap[buffer.entry[i].buffptr]
    OBVIOUS
  <2> DEFINE p == buffer.entry[i].buffptr
  <2>1. i \in Slots /\ p \in Blocks
    BY DEF SlotsFilled, Filled
  <2>2. p # write_data[t] /\ p \notin Pending /\ p # q /\ p # old
    BY <1>1, <1>4, <2>1
       DEF DriverInv, MemorySafe, SlotsDistinct, TemporariesSafe, PendingSafe
  <2> QED
    BY <1>1, <2>1, <2>2
<1>9. SlotsFilled'
  <2>1. \A i \in Filled(buffer') : buffer'.entry[i].buffptr \in Blocks
    BY <1>3, <1>4, <1>5, <1>6 DEF SlotsFilled, Filled
  <2> QED
    BY <1>6, <2>1 DEF SlotsFilled
<1>10. DriverInv'
  BY WriteCommitInv
<1>11. LogIs /\ LogIs'
  BY <1>9, <1>10, LogType, PTL
<1>12. \A i \in 1 .. Count(buffer') :
         Log'[i] = IF i = Count(buffer') THEN line
                   ELSE Log[IF buffer.full THEN i + 1 ELSE i]
  <2> SUFFICES ASSUME NEW i \in 1 .. Count(buffer')
               PROVE  Log'[i] = IF i = Count(buffer') THEN line
                                ELSE Log[IF buffer.full THEN i + 1 ELSE i]
    OBVIOUS
  <2>1. Log'[i] = heap'[buffer'.entry[Slot(buffer', i - 1)].buffptr]
    BY <1>11 DEF LogIs
  <2>2. CASE i = Count(buffer')
    BY <1>1, <1>3, <1>4, <1>5, <1>6, <2>1, <2>2
  <2>3. CASE i # Count(buffer')
    <3> DEFINE j == IF buffer.full THEN i + 1 ELSE i
    <3>1. j \in 1 .. Count(buffer) /\ j - 1 = IF buffer.full THEN i ELSE i - 1
      <4>1. Count(buffer) = IF buffer.full THEN MAX_OPS ELSE in
        BY <1>4, ContentsPlaces
      <4> QED
        BY <1>4, <1>6, <2>3, <4>1 DEF Slots
    <3>2. Log[j] = heap[buffer.entry[Slot(buffer, j - 1)].buffptr]
      BY <1>11, <3>1 DEF LogIs
    <3> HIDE DEF j
    <3>3. /\ Slot(buffer', i - 1) = Slot(buffer, j - 1)
          /\ Slot(buffer, j - 1) \in Filled(buffer) \ {in}
      BY <1>6, <2>3, <3>1
    <3>4. Log'[i] = Log[j]
      BY <1>5, <1>7, <2>1, <3>2, <3>3 DEF Filled
    <3> QED
      BY <2>3, <3>4 DEF j
  <2> QED
    BY <2>2, <2>3
<1>13. Log' = CL!Keep(Log, line)
  <2> DEFINE S == Seq(Byte)
  <2>1. line \in S /\ Log \in Seq(S) /\ Log' \in Seq(S)
        /\ Len(Log) = Count(buffer) /\ Len(Log') = Count(buffer')
    BY <1>1, <1>11 DEF LogIs
  <2> HIDE DEF S
  <2>2. Count(buffer) = IF buffer.full THEN MAX_OPS ELSE in
    BY <1>4, ContentsPlaces
  <2>3. CASE ~ buffer.full
    <3>1. Len(Log) < MAX_OPS /\ Len(Log') = Len(Log) + 1
      BY <1>4, <1>6, <2>1, <2>2, <2>3 DEF Slots
    <3>2. \A i \in 1 .. Len(Log') : Log'[i] = Append(Log, line)[i]
      BY <1>6, <1>12, <2>1, <2>3, <3>1
    <3>3. Log' = Append(Log, line)
      BY <2>1, <3>1, <3>2, SeqEqual
    <3> QED
      BY <3>1, <3>3 DEF CL!Keep
  <2>4. CASE buffer.full
    <3>1. Len(Log) = MAX_OPS /\ Len(Log') = MAX_OPS /\ Count(buffer') = MAX_OPS
      BY <1>4, <1>6, <2>1, <2>2, <2>4
    <3>2. /\ Tail(Log) \in Seq(S) /\ Len(Tail(Log)) = MAX_OPS - 1
          /\ \A i \in 1 .. MAX_OPS - 1 : Tail(Log)[i] = Log[i + 1]
      BY <1>4, <2>1, <3>1
    <3>3. \A i \in 1 .. Len(Log') : Log'[i] = Append(Tail(Log), line)[i]
      BY <1>4, <1>12, <2>1, <2>4, <3>1, <3>2
    <3>4. Append(Tail(Log), line) \in Seq(S)
          /\ Len(Append(Tail(Log), line)) = MAX_OPS
      BY <1>4, <2>1, <3>2
    <3>5. Log' = Append(Tail(Log), line)
      BY <2>1, <3>1, <3>3, <3>4, SeqEqual
    <3> QED
      BY <1>4, <3>1, <3>5 DEF CL!Keep
  <2> QED
    BY <2>3, <2>4
<1>14. buffer.full => buffer'.full
  BY <1>3 DEF AddEntry
<1> QED
  BY <1>1, <1>2, <1>9, <1>13, <1>14 DEF line

LEMMA WriteCommitLog ==
  ASSUME DriverInv, LogInv, NEW t \in Threads, WriteCommit(t)
  PROVE  LogInv' /\ CL!Terminate(Data(t))
<1>1. PICK q \in Blocks : Commits(t, q)
  BY CommitStep
<1>2. /\ pc' = [pc EXCEPT ![t] = "advance"]
      /\ write_data' = [write_data EXCEPT ![t] = NULL]
      /\ write_buffer_size' = 0
  BY DEF WriteCommit, Leave
<1>3. DataKept'
  <2>1. buffer.in_offs \in Slots
    BY DEF DriverInv, DeviceTypeOK, Buffers
  <2>2. \A u \in Threads \ {t} : write_data[u] \in Blocks =>
          heap'[write_data[u]] = heap[write_data[u]]
    BY <1>1, <2>1, DriverAssumption
       DEF Commits, DriverInv, MemorySafe, TemporariesSafe, PendingSafe
  <2> QED
    BY <1>2, <2>2, OthersKeepData
<1>4. SlotsFilled' /\ Log' = CL!Keep(Log, Line(t))
  BY CommitKeeps DEF LogInv
<1>5. LogInv'
  BY <1>2, <1>3, <1>4 DEF LogInv, TailStored
<1>6. /\ CL!HasNewline(Data(t))
      /\ Line(t) = Unterminated \o CL!Accepted(Data(t))
  BY DEF WriteCommit, NewlineFound, CL!HasNewline, CL!Accepted, CL!AcceptedLen,
         AppendIndex, Line
<1>7. Unterminated' = <<>>
  BY <1>2 DEF Unterminated
<1> QED
  BY <1>4, <1>5, <1>6, <1>7 DEF CL!Terminate

(* Loading and unloading the module empty the log. *)
LEMMA ModuleLog ==
  ASSUME DriverInv, LogInv, InitModule \/ CleanupModule
  PROVE  LogInv' /\ CL!Forget
<1>1. /\ buffer' = InitBuffer /\ write_buffer_size' = 0
      /\ opened = {} /\ UNCHANGED pc
  BY DEF InitModule, CleanupModule, DriverInv, CallTypeOK, calls
<1>2. 0 \in Slots /\ MAX_OPS \in Nat /\ MAX_OPS > 0
  BY MaxOpsAssumption DEF Slots
<1>3. WellShaped(InitBuffer) /\ Filled(InitBuffer) = {} /\ ~ InitBuffer.full
      /\ InitBuffer.in_offs = 0
  BY <1>2 DEF InitBuffer, WellShaped, Filled, Slots
<1>4. DataKept'
  BY <1>1 DEF DriverInv, CallTypeOK, DataKept, Writing
<1>5. LogInv'
  BY <1>1, <1>3, <1>4 DEF LogInv, SlotsFilled, TailStored
<1>6. Log' = <<>>
  <2>1. Count(InitBuffer) = 0
    BY <1>3, ContentsPlaces, EmptyDevice
  <2>2. Count(buffer') = 0
    BY <1>1, <2>1
  <2> QED
    BY <2>2 DEF Log
<1>7. Unterminated' = <<>>
  BY <1>1 DEF Unterminated
<1> QED
  BY <1>5, <1>6, <1>7 DEF CL!Forget

-----------------------------------------------------------------------------
(* The refinement. *)

LEMMA LogInit == Init => LogInv /\ CL!Init
<1> SUFFICES ASSUME Init PROVE LogInv /\ CL!Init
  OBVIOUS
<1>1. 0 \in Slots
  BY MaxOpsAssumption DEF Slots
<1>2. /\ buffer = InitBuffer /\ write_buffer_size = 0
      /\ \A t \in Threads : pc[t] = "idle"
  BY DEF Init
<1>3. /\ WellShaped(buffer) /\ Filled(buffer) = {}
      /\ ~ buffer.full /\ buffer.in_offs = 0
  BY <1>1, <1>2 DEF InitBuffer, WellShaped, Filled, Slots
<1>4. LogInv
  BY <1>2, <1>3 DEF LogInv, SlotsFilled, TailStored, DataKept, Writing
<1>5. Log = <<>>
  <2>1. Count(buffer) = 0
    BY <1>2, <1>3, ContentsPlaces, EmptyDevice
  <2> QED
    BY <2>1 DEF Log
<1> QED
  BY <1>2, <1>4, <1>5 DEF CL!Init, Unterminated

LEMMA CallLog ==
  ASSUME DriverInv, LogInv, NEW t \in Threads, Call(t)
  PROVE  LogInv' /\ UNCHANGED CL!vars
<1>1. PICK f \in Files :
         \/ ReadCall(t, f) \/ WriteCall(t, f) \/ WriteRefused(t, f)
         \/ LlseekCall(t, f) \/ IoctlCall(t, f)
  BY DEF Call
<1>2. CASE WriteCall(t, f)
  BY <1>2, WriteCallLog
<1>3. CASE ~ WriteCall(t, f)
  <2>1. /\ UNCHANGED <<device, heap, write_data>>
        /\ \E label \in Labels \ Writing : Enter(t, f, label)
    BY <1>1, <1>3
       DEF ReadCall, WriteRefused, LlseekCall, IoctlCall, Reject, Labels, Writing
  <2>2. \A u \in Threads : pc'[u] \in Writing => pc[u] \in Writing
    BY <2>1 DEF Enter, DriverInv, CallTypeOK
  <2> QED
    BY <2>1, <2>2, QuietLog DEF device
<1> QED
  BY <1>2, <1>3

LEMMA WaitLog ==
  ASSUME DriverInv, LogInv, NEW t \in Threads, Lock(t) \/ LockBroken(t)
  PROVE  LogInv' /\ UNCHANGED CL!vars
<1>1. CASE Lock(t)
  <2>1. /\ UNCHANGED <<buffer, write_buffer, write_buffer_size, heap, write_data>>
        /\ \/ pc' = [pc EXCEPT ![t] = "write_body"] /\ pc[t] = "write_lock"
           \/ \E label \in Labels \ Writing : pc' = [pc EXCEPT ![t] = label]
    BY <1>1 DEF Lock, Locked, Labels, Writing
  <2>2. \A u \in Threads : pc'[u] \in Writing => pc[u] \in Writing
    BY <2>1 DEF DriverInv, CallTypeOK, Writing
  <2> QED
    BY <2>1, <2>2, QuietLog
<1>2. CASE LockBroken(t)
  <2>1. /\ UNCHANGED <<buffer, write_buffer, write_buffer_size, heap>>
        /\ pc' = [pc EXCEPT ![t] = "return"]
        /\ write_data' = [write_data EXCEPT ![t] = NULL]
    BY <1>2 DEF LockBroken, Interrupted, device
  <2>2. \A u \in Threads : pc'[u] \in Writing =>
          pc[u] \in Writing /\ write_data'[u] = write_data[u]
    BY <2>1 DEF DriverInv, CallTypeOK, Writing
  <2> QED
    BY <2>1, <2>2, QuietLog
<1> QED
  BY <1>1, <1>2

(* aesd_read, aesd_llseek, the ioctl and the return to the VFS. *)
LEMMA LookLog ==
  ASSUME DriverInv, LogInv, NEW t \in Threads,
         \/ ReadEof(t) \/ ReadCopy(t) \/ Llseek(t) \/ Return(t)
         \/ \E c \in Commands : AdjustFileOffset(t, c[1], c[2])
  PROVE  LogInv' /\ UNCHANGED CL!vars
<1>1. UNCHANGED <<buffer, write_buffer, write_buffer_size, heap, write_data>>
  BY DEF ReadEof, ReadCopy, Llseek, Return, AdjustFileOffset, device
<1>2. \E label \in Labels \ Writing : pc' = [pc EXCEPT ![t] = label]
  BY DEF ReadEof, ReadCopy, Llseek, Return, AdjustFileOffset, Leave, Labels, Writing
<1>3. \A u \in Threads : pc'[u] \in Writing => pc[u] \in Writing
  BY <1>2 DEF DriverInv, CallTypeOK
<1> QED
  BY <1>1, <1>3, QuietLog

LEMMA NextLog ==
  ASSUME "KREALLOC" \notin Faults
  PROVE  DriverInv /\ LogInv /\ [Next]_vars => LogInv' /\ [CL!Next]_(CL!vars)
<1> SUFFICES ASSUME DriverInv, LogInv, [Next]_vars
             PROVE  LogInv' /\ [CL!Next]_(CL!vars)
  OBVIOUS
<1>1. ASSUME NEW t \in Threads,
             Call(t) \/ Lock(t) \/ LockBroken(t) \/ Return(t)
      PROVE  LogInv' /\ UNCHANGED CL!vars
  BY <1>1, CallLog, WaitLog, LookLog
<1>2. ASSUME NEW t \in Threads, Body(t)
      PROVE  LogInv' /\ [CL!Next]_(CL!vars)
  <2>1. CASE WriteAppend(t) \/ WriteCommit(t)
    <3>1. Data(t) \in Payloads
      BY <2>1 DEF WriteAppend, WriteCommit, Leave, LogInv, DataKept, Writing
    <3> QED
      BY <2>1, <3>1, WriteAppendLog, WriteCommitLog DEF CL!Next
  <2>2. CASE WriteNoMemory(t)
    BY <2>2, WriteNoMemoryLog
  <2>3. CASE ~ (WriteAppend(t) \/ WriteCommit(t) \/ WriteNoMemory(t))
    BY <1>2, <2>3, LookLog DEF Body
  <2> QED
    BY <2>1, <2>2, <2>3
<1>3. ASSUME NEW f \in Files, Open(f) \/ Release(f)
      PROVE  LogInv' /\ UNCHANGED CL!vars
  BY <1>3, QuietLog DEF Open, Release, device, calls
<1>4. CASE InitModule \/ CleanupModule
  BY <1>4, ModuleLog DEF CL!Next
<1>5. CASE UNCHANGED vars
  BY <1>5, QuietLog DEF vars, device, calls
<1> QED
  BY <1>1, <1>2, <1>3, <1>4, <1>5 DEF Next

(* The driver implements the log of its newest commands: a write without a  *)
(* newline extends the unterminated tail, one with a newline makes it the    *)
(* newest command and drops the oldest of a full buffer, and no other step  *)
(* of aesd_read, aesd_write, aesd_llseek or the ioctl, in any interleaving, *)
(* changes what is stored.  A failing krealloc is excluded: the code then   *)
(* keeps counting bytes it has lost.                                        *)
THEOREM DriverImplementsLog ==
  ASSUME "KREALLOC" \notin Faults
  PROVE  Spec => ImplementsCommandLog
<1>1. Init => LogInv /\ CL!Init
  BY LogInit
<1>2. DriverInv /\ LogInv /\ [Next]_vars => LogInv' /\ [CL!Next]_(CL!vars)
  BY NextLog
<1> QED
  BY <1>1, <1>2, InvariantHolds, PTL DEF Spec, ImplementsCommandLog, CL!Spec

-----------------------------------------------------------------------------
(* Memory is not lost.  Before the first load nothing is allocated; a second *)
(* load is excluded because unloading loses an unterminated tail.           *)

Owned(p) ==
  \/ \E i \in Slots : buffer.entry[i].buffptr = p
  \/ p \in Pending
  \/ \E t \in Threads : write_data[t] = p

NothingBeforeLoad ==
  loads = 0 => ~ loaded /\ \A p \in Blocks : heap[p] = FREE

OnlyWritesHold == \A t \in Threads : pc[t] \notin Writing => write_data[t] = NULL

LeakInv == NoLeak /\ NothingBeforeLoad /\ OnlyWritesHold

(* A step while the module is loaded. *)
LEMMA LoadedStep ==
  ASSUME LeakInv, loaded, UNCHANGED module,
         \A p \in Blocks : heap'[p] # FREE => Owned(p)',
         OnlyWritesHold'
  PROVE  LeakInv'
  BY DEF LeakInv, NoLeak, NothingBeforeLoad, Owned, module

(* A call under way, or one that begins, finds the module loaded. *)
LEMMA CallLoaded ==
  ASSUME DriverInv, NEW t \in Threads, pc[t] # "idle"
  PROVE  loaded
  BY DEF DriverInv, CallTypeOK

LEMMA QuietLeak ==
  ASSUME LeakInv, UNCHANGED <<buffer, write_buffer, write_buffer_size, heap,
                              write_data, module>>,
         \A t \in Threads : pc[t] \in Writing => pc'[t] \in Writing
  PROVE  LeakInv'
  BY DEF LeakInv, NoLeak, NothingBeforeLoad, OnlyWritesHold, Pending, module

LEMMA WriteCallLeak ==
  ASSUME DriverInv, LeakInv, NEW t \in Threads, NEW f \in Files, WriteCall(t, f)
  PROVE  LeakInv'
<1>0. PICK data \in Payloads :
         \E p \in Kmalloc(Len(data)) \ {NULL} :
           /\ Enter(t, f, "write_lock")
           /\ write_data' = [write_data EXCEPT ![t] = p]
           /\ heap' = Fill(heap, p, data)
  BY DEF WriteCall
<1>1. PICK p \in Kmalloc(Len(data)) \ {NULL} :
         /\ Enter(t, f, "write_lock")
         /\ write_data' = [write_data EXCEPT ![t] = p]
         /\ heap' = Fill(heap, p, data)
  BY <1>0
<1>2. /\ \A x \in Blocks : heap'[x] = IF x = p THEN data ELSE heap[x]
      /\ UNCHANGED <<module, buffer, write_buffer, write_buffer_size>>
  BY <1>1, FillHeap, DriverAssumption DEF DriverInv, DeviceTypeOK, WriteCall, device
<1>3. loaded /\ pc[t] = "idle" /\ write_data \in [Threads -> Pointers]
  BY <1>1 DEF Enter, DriverInv, CallTypeOK
<1>4. ASSUME NEW x \in Blocks, heap'[x] # FREE
      PROVE  Owned(x)'
  <2>1. CASE x = p
    BY <1>1, <1>3, <2>1 DEF Owned
  <2>2. CASE x # p
    <3>1. heap[x] # FREE
      BY <1>2, <1>4, <2>2
    <3>2. Owned(x)
      BY <1>3, <3>1 DEF LeakInv, NoLeak, Owned
    <3>3. CASE \E u \in Threads : write_data[u] = x
      <4>1. write_data[t] = NULL
        BY <1>3 DEF LeakInv, OnlyWritesHold, Writing
      <4> QED
        BY <1>1, <1>3, <3>3, <4>1, DriverAssumption DEF Owned
    <3>4. CASE ~ \E u \in Threads : write_data[u] = x
      BY <1>2, <3>2, <3>4 DEF Owned, Pending
    <3> QED
      BY <3>3, <3>4
  <2> QED
    BY <2>1, <2>2
<1>5. OnlyWritesHold'
  BY <1>1, <1>3
     DEF Enter, LeakInv, OnlyWritesHold, Writing, DriverInv, CallTypeOK
<1> QED
  BY <1>2, <1>3, <1>4, <1>5, LoadedStep

(* The step that ends a write, whichever way: nothing changes owner but the *)
(* temporary buffer, which is freed, and the blocks of slot in and of the   *)
(* tail.                                                                    *)
LEMMA WriteEndLeak ==
  ASSUME DriverInv, LeakInv, NEW t \in Threads,
         NEW label \in {"advance", "return"}, pc[t] = "write_body",
         pc' = [pc EXCEPT ![t] = label],
         write_data' = [write_data EXCEPT ![t] = NULL], UNCHANGED module,
         \A x \in Blocks : heap'[x] # FREE =>
           \/ x \in Pending'
           \/ \E i \in Slots : buffer'.entry[i].buffptr = x
           \/ /\ heap[x] # FREE /\ x # write_data[t] /\ x \notin Pending
              /\ \A i \in Slots : buffer.entry[i].buffptr # x
  PROVE  LeakInv'
<1>1. loaded /\ write_data \in [Threads -> Pointers] /\ pc \in [Threads -> Labels]
  BY CallLoaded DEF DriverInv, CallTypeOK
<1>2. ASSUME NEW x \in Blocks, heap'[x] # FREE
      PROVE  Owned(x)'
  <2>1. CASE /\ heap[x] # FREE /\ x # write_data[t] /\ x \notin Pending
             /\ \A i \in Slots : buffer.entry[i].buffptr # x
    <3>1. PICK u \in Threads : write_data[u] = x
      BY <1>1, <2>1 DEF LeakInv, NoLeak
    <3>2. u # t
      BY <2>1, <3>1
    <3> QED
      BY <1>1, <3>1, <3>2 DEF Owned
  <2> QED
    BY <1>2, <2>1 DEF Owned
<1>3. OnlyWritesHold'
  BY <1>1 DEF LeakInv, OnlyWritesHold
<1> QED
  BY <1>1, <1>2, <1>3, LoadedStep

LEMMA WriteNoMemoryLeak ==
  ASSUME DriverInv, LogInv, LeakInv, "KREALLOC" \notin Faults,
         NEW t \in Threads, WriteNoMemory(t)
  PROVE  LeakInv'
<1>1. write_buffer_size = 0
  BY WriteNoMemoryHasNoTail
<1>2. \A x \in Blocks : heap'[x] = IF x = write_data[t] THEN FREE ELSE heap[x]
  BY KfreeHeap DEF WriteNoMemory, DriverInv, DeviceTypeOK
<1>3. /\ pc[t] = "write_body" /\ pc' = [pc EXCEPT ![t] = "return"]
      /\ write_data' = [write_data EXCEPT ![t] = NULL]
      /\ UNCHANGED <<module, buffer>>
  BY DEF WriteNoMemory, Leave
<1>4. \A x \in Blocks : heap'[x] # FREE =>
        heap[x] # FREE /\ x # write_data[t] /\ x \notin Pending
  BY <1>1, <1>2 DEF Pending
<1> QED
  BY <1>3, <1>4, WriteEndLeak

LEMMA WriteAppendLeak ==
  ASSUME DriverInv, LeakInv, NEW t \in Threads, WriteAppend(t)
  PROVE  LeakInv'
<1>1. PICK q :
    /\ write_buffer' = q
    /\ q \in Blocks => write_buffer_size' > 0
    /\ \A x \in Blocks \ {q} :
         heap'[x] = IF x = write_data[t] \/ x \in Pending THEN FREE ELSE heap[x]
  <2>1. PICK q :
    /\ write_buffer' = q
    /\ q \in Blocks => /\ write_buffer_size' > 0
                       /\ heap'[q] = Unterminated \o Data(t)
                       /\ \A i \in Slots : buffer.entry[i].buffptr # q
                       /\ \A u \in Threads : write_data[u] # q
    /\ \A x \in Blocks \ {q} :
         heap'[x] = IF x = write_data[t] \/ x \in Pending THEN FREE ELSE heap[x]
    BY AppendStep
  <2> QED
    BY <2>1
<1>2. /\ pc[t] = "write_body" /\ pc' = [pc EXCEPT ![t] = "advance"]
      /\ write_data' = [write_data EXCEPT ![t] = NULL]
      /\ UNCHANGED <<module, buffer>>
  BY DEF WriteAppend, Leave
<1>3. \A x \in Blocks : heap'[x] # FREE =>
        \/ x \in Pending'
        \/ heap[x] # FREE /\ x # write_data[t] /\ x \notin Pending
  BY <1>1 DEF Pending
<1> QED
  BY <1>2, <1>3, WriteEndLeak

LEMMA WriteCommitLeak ==
  ASSUME DriverInv, LogInv, LeakInv, NEW t \in Threads, WriteCommit(t)
  PROVE  LeakInv'
<1> DEFINE size == Len(Line(t))
           in   == buffer.in_offs
           old  == buffer.entry[in].buffptr
<1>0. PICK q \in Blocks : Commits(t, q)
  BY CommitStep
<1>1. /\ size \in Nat \ {0}
      /\ \A x \in Blocks \ {q} : heap'[x] =
           IF \/ x = write_data[t] \/ x \in Pending
              \/ buffer.full /\ x = old
           THEN FREE ELSE heap[x]
      /\ buffer' = AddEntry(buffer, [buffptr |-> q, size |-> size])
  BY <1>0 DEF Commits
<1>2. /\ pc[t] = "write_body" /\ pc' = [pc EXCEPT ![t] = "advance"]
      /\ write_data' = [write_data EXCEPT ![t] = NULL]
      /\ UNCHANGED module
  BY DEF WriteCommit, Leave
<1> HIDE DEF size
<1>3. /\ buffer \in Buffers(Entries) /\ in \in Slots
      /\ [buffptr |-> q, size |-> size] \in Entries
  BY <1>1 DEF DriverInv, DeviceTypeOK, Buffers, Entries
<1>4. \A i \in Slots : buffer'.entry[i] =
        IF i = in THEN [buffptr |-> q, size |-> size] ELSE buffer.entry[i]
  BY <1>1, <1>3, AddEntryType
<1>5. ASSUME NEW x \in Blocks, heap'[x] # FREE
      PROVE  \/ \E i \in Slots : buffer'.entry[i].buffptr = x
             \/ /\ heap[x] # FREE /\ x # write_data[t] /\ x \notin Pending
                /\ \A i \in Slots : buffer.entry[i].buffptr # x
  <2>1. CASE x = q
    BY <1>3, <1>4, <2>1
  <2>2. CASE x # q
    <3>1. /\ heap[x] # FREE /\ x # write_data[t] /\ x \notin Pending
          /\ ~ (buffer.full /\ x = old)
      BY <1>1, <1>5, <2>2
    <3>2. ~ buffer.full => old = NULL
      BY <1>3 DEF LogInv, SlotsFilled, WellShaped, NoEntry, Slots
    <3>3. x # old
      BY <3>1, <3>2, DriverAssumption
    <3> QED
      BY <1>4, <3>1, <3>3
  <2> QED
    BY <2>1, <2>2
<1> QED
  BY <1>2, <1>5, WriteEndLeak

(* Loading and unloading: the first load finds an empty heap, and after an  *)
(* unload nothing is claimed.                                               *)
LEMMA ModuleLeak ==
  ASSUME DriverInv, LeakInv, MaxLoads <= 1, InitModule \/ CleanupModule
  PROVE  LeakInv'
<1>1. CASE InitModule
  <2>1. loads = 0 /\ loads' = 1 /\ heap' = heap
    BY <1>1, DriverAssumption DEF InitModule, DriverInv, DeviceTypeOK
  <2> QED
    BY <1>1, <2>1 DEF InitModule, LeakInv, NoLeak, NothingBeforeLoad, OnlyWritesHold, calls
<1>2. CASE CleanupModule
  <2>1. loads # 0 /\ loads' = loads /\ ~ loaded'
    BY <1>2 DEF CleanupModule, LeakInv, NothingBeforeLoad
  <2> QED
    BY <1>2, <2>1
       DEF CleanupModule, LeakInv, NoLeak, NothingBeforeLoad, OnlyWritesHold, calls
<1> QED
  BY <1>1, <1>2

LEMMA LeakInit == Init => LeakInv
<1> SUFFICES ASSUME Init PROVE LeakInv
  OBVIOUS
<1> QED
  BY DEF Init, LeakInv, NoLeak, NothingBeforeLoad, OnlyWritesHold

LEMMA NextLeak ==
  ASSUME Faults \subseteq {"KMALLOC"}, MaxLoads <= 1
  PROVE  DriverInv /\ LogInv /\ LeakInv /\ [Next]_vars => LeakInv'
<1> SUFFICES ASSUME DriverInv, LogInv, LeakInv, [Next]_vars PROVE LeakInv'
  OBVIOUS
<1>1. ASSUME NEW t \in Threads, Call(t)
      PROVE  LeakInv'
  <2>1. PICK f \in Files :
           \/ ReadCall(t, f) \/ WriteCall(t, f) \/ WriteRefused(t, f)
           \/ LlseekCall(t, f) \/ IoctlCall(t, f)
    BY <1>1 DEF Call
  <2>2. CASE WriteCall(t, f)
    BY <2>2, WriteCallLeak
  <2>3. CASE ~ WriteCall(t, f)
    <3>1. /\ UNCHANGED <<module, device, heap, write_data>>
          /\ pc[t] = "idle" /\ \E label : pc' = [pc EXCEPT ![t] = label]
      BY <2>1, <2>3
         DEF ReadCall, WriteRefused, LlseekCall, IoctlCall, Reject, Enter
    <3>2. \A u \in Threads : pc[u] \in Writing => pc'[u] \in Writing
      BY <3>1 DEF Writing, DriverInv, CallTypeOK
    <3> QED
      BY <3>1, <3>2, QuietLeak DEF device
  <2> QED
    BY <2>2, <2>3
<1>2. ASSUME NEW t \in Threads, Lock(t)
      PROVE  LeakInv'
  <2>1. \A u \in Threads : pc[u] \in Writing => pc'[u] \in Writing
    BY <1>2 DEF Lock, Locked, Writing, DriverInv, CallTypeOK
  <2> QED
    BY <1>2, <2>1, QuietLeak DEF Lock, Locked
<1>3. ASSUME NEW t \in Threads, LockBroken(t)
      PROVE  LeakInv'
  BY <1>3 DEF LockBroken, Interrupted
<1>4. ASSUME NEW t \in Threads, WriteNoMemory(t) \/ WriteAppend(t) \/ WriteCommit(t)
      PROVE  LeakInv'
  BY <1>4, WriteNoMemoryLeak, WriteAppendLeak, WriteCommitLeak
<1>5. ASSUME NEW t \in Threads,
             \/ ReadEof(t) \/ ReadCopy(t) \/ Llseek(t) \/ Return(t)
             \/ \E c \in Commands : AdjustFileOffset(t, c[1], c[2])
      PROVE  LeakInv'
  <2>1. UNCHANGED <<buffer, write_buffer, write_buffer_size, heap, write_data, module>>
    BY <1>5 DEF ReadEof, ReadCopy, Llseek, Return, AdjustFileOffset, device
  <2>2. pc[t] \notin Writing /\ \E label : pc' = [pc EXCEPT ![t] = label]
    BY <1>5
       DEF ReadEof, ReadCopy, Llseek, Return, AdjustFileOffset, Leave, Writing
  <2>3. \A u \in Threads : pc[u] \in Writing => pc'[u] \in Writing
    BY <2>2 DEF DriverInv, CallTypeOK
  <2> QED
    BY <2>1, <2>3, QuietLeak
<1>6. ASSUME NEW f \in Files, Open(f) \/ Release(f)
      PROVE  LeakInv'
  BY <1>6, QuietLeak DEF Open, Release, device, calls
<1>7. CASE InitModule \/ CleanupModule
  BY <1>7, ModuleLeak
<1>8. CASE UNCHANGED vars
  BY <1>8, QuietLeak DEF vars, device, calls
<1> QED
  BY <1>1, <1>2, <1>3, <1>4, <1>5, <1>6, <1>7, <1>8 DEF Next, Body

(* While the module is loaded every allocated block is in a slot, or holds  *)
(* the unterminated tail, or belongs to a write under way: whatever kmalloc *)
(* refuses, none of aesd_write's early exits loses a block.  Excluded, each *)
(* because the code does leak there, are a signal while a write waits for   *)
(* the mutex, a failing krealloc, and an unload over an unterminated tail.  *)
THEOREM NothingLeaks ==
  ASSUME Faults \subseteq {"KMALLOC"}, MaxLoads <= 1
  PROVE  Spec => []NoLeak
<1>1. Init => LogInv /\ LeakInv
  BY LogInit, LeakInit
<1>2. DriverInv /\ LogInv /\ [Next]_vars => LogInv'
  BY NextLog
<1>3. DriverInv /\ LogInv /\ LeakInv /\ [Next]_vars => LeakInv'
  BY NextLeak
<1>4. LeakInv => NoLeak
  BY DEF LeakInv
<1> QED
  BY <1>1, <1>2, <1>3, <1>4, InvariantHolds, PTL DEF Spec

-----------------------------------------------------------------------------
(* What is stored was written. *)

Clean == Byte \ {GARBAGE}

CleanInv == Log \in Seq(Seq(Clean)) /\ Unterminated \in Seq(Clean)

LEMMA CleanKept ==
  ASSUME \A data \in Payloads : data \in Seq(Clean)
  PROVE  CleanInv /\ [CL!Next]_(CL!vars) => CleanInv'
<1> SUFFICES ASSUME CleanInv, [CL!Next]_(CL!vars) PROVE CleanInv'
  OBVIOUS
<1>1. ASSUME NEW data \in Payloads, CL!Extend(data)
      PROVE  CleanInv'
  BY <1>1 DEF CleanInv, CL!Extend
<1>2. ASSUME NEW data \in Payloads, CL!Terminate(data)
      PROVE  CleanInv'
  <2> DEFINE S    == Seq(Clean)
             line == Unterminated \o CL!Accepted(data)
  <2>1. data \in Seq(Byte) /\ data \in Seq(Clean)
    BY DriverAssumption
  <2>2. CL!AcceptedLen(data) \in 0 .. Len(data)
    BY <2>1, AppendIndexBounds
       DEF AppendIndex, NewlineFound, CL!AcceptedLen, CL!HasNewline
  <2>3. CL!Accepted(data) \in Seq(Clean)
    BY <2>1, <2>2, SubSeqProperties DEF CL!Accepted
  <2>4. line \in S /\ Log \in Seq(S)
    BY <2>3 DEF CleanInv
  <2>5. Log' = CL!Keep(Log, line) /\ Unterminated' = <<>>
    BY <1>2 DEF CL!Terminate
  <2> HIDE DEF S, line
  <2>6. CL!Keep(Log, line) \in Seq(S)
    BY <2>4, MaxOpsAssumption DEF CL!Keep
  <2> QED
    BY <2>5, <2>6 DEF CleanInv, S
<1>3. CASE CL!Forget
  BY <1>3 DEF CleanInv, CL!Forget
<1>4. CASE UNCHANGED CL!vars
  BY <1>4 DEF CleanInv, CL!vars
<1> QED
  BY <1>1, <1>2, <1>3, <1>4 DEF CL!Next

(* As long as no reallocation fails, a command holds nothing but bytes some *)
(* write handed over, "the number of bytes successfully written" of         *)
(* aesd_write; the run that looks for the contrary finds it exactly where   *)
(* this theorem does not apply.                                             *)
THEOREM OnlyWrittenBytesStored ==
  ASSUME "KREALLOC" \notin Faults, \A data \in Payloads : data \in Seq(Clean)
  PROVE  Spec => []OnlyWrittenBytes
<1>1. Init => LogInv /\ CleanInv
  BY LogInit DEF CL!Init, CleanInv
<1>2. DriverInv /\ LogInv /\ [Next]_vars => LogInv' /\ [CL!Next]_(CL!vars)
  BY NextLog
<1>3. CleanInv /\ [CL!Next]_(CL!vars) => CleanInv'
  BY CleanKept
<1>4. DriverInv /\ LogInv /\ CleanInv => OnlyWrittenBytes
  <2> SUFFICES ASSUME LogIs, CleanInv PROVE OnlyWrittenBytes
    BY LogType DEF LogInv
  <2>1. \A i \in 1 .. Count(buffer) : Log[i] \in Seq(Clean)
    BY DEF LogIs, CleanInv
  <2> QED
    BY <2>1 DEF OnlyWrittenBytes, Clean
<1> QED
  BY <1>1, <1>2, <1>3, <1>4, InvariantHolds, PTL DEF Spec

-----------------------------------------------------------------------------
(* The data, whatever fails: none of this needs the tail, so it also holds  *)
(* where a failing krealloc has lost the tail.                              *)

OutEmpty == \A t \in Threads : pc[t] # "advance" => out[t] = <<>>

DataInv == SlotsFilled /\ PositionTypeOK /\ OutEmpty /\ EveryByteSeekable

(* The log is what the entries' sizes say. *)
LEMMA LogCarried == DriverInv /\ SlotsFilled => Carries(buffer, Log, Byte)
<1> SUFFICES ASSUME DriverInv, SlotsFilled PROVE Carries(buffer, Log, Byte)
  OBVIOUS
<1>1. ASSUME NEW i \in 1 .. Count(buffer)
      PROVE  Len(Log[i]) = buffer.entry[Slot(buffer, i - 1)].size
  <2>1. /\ Slot(buffer, i - 1) \in Filled(buffer)
        /\ Log[i] = heap[buffer.entry[Slot(buffer, i - 1)].buffptr]
    BY LogType DEF LogIs
  <2>2. Slot(buffer, i - 1) \in Slots
        /\ buffer.entry[Slot(buffer, i - 1)].buffptr \in Blocks
    BY <2>1 DEF SlotsFilled, Filled
  <2> QED
    BY <2>1, <2>2, DriverAssumption DEF DriverInv, MemorySafe, SlotsSafe
<1> QED
  BY <1>1, LogType DEF Carries, LogIs

(* What the search tells aesd_read: byte k of command i, or the end. *)
Found(off, i, k) ==
  LET hit == FindEntry(buffer, off)
  IN  /\ off + 1 = Len(Upto(Log, i - 1)) + k
      /\ hit # NotFound
      /\ hit.byte = k - 1
      /\ heap[buffer.entry[hit.slot].buffptr] = Log[i]
      /\ buffer.entry[hit.slot].size = Len(Log[i])

LEMMA SearchTells ==
  ASSUME DriverInv, SlotsFilled, NEW off \in Nat
  PROVE  IF off >= Len(Concatenation)
         THEN FindEntry(buffer, off) = NotFound
         ELSE \E i \in 1 .. Len(Log) : \E k \in 1 .. Len(Log[i]) : Found(off, i, k)
<1>1. buffer \in Buffers(Entries) /\ WellShaped(buffer) /\ Carries(buffer, Log, Byte)
  BY LogCarried DEF DriverInv, DeviceTypeOK, SlotsFilled
<1>2. Finds(buffer, Log, off)
  BY <1>1, FindsPlace
<1>3. CASE off >= Len(Concatenation)
  BY <1>2, <1>3 DEF Finds, Concatenation
<1>4. CASE ~ (off >= Len(Concatenation))
  <2>1. PICK i \in 1 .. Count(buffer) : \E k \in 1 .. Len(Log[i]) :
          /\ off + 1 = Len(Upto(Log, i - 1)) + k
          /\ FindEntry(buffer, off) = [slot |-> Slot(buffer, i - 1), byte |-> k - 1]
    BY <1>2, <1>4 DEF Finds, Concatenation
  <2>2. PICK k \in 1 .. Len(Log[i]) :
          /\ off + 1 = Len(Upto(Log, i - 1)) + k
          /\ FindEntry(buffer, off) = [slot |-> Slot(buffer, i - 1), byte |-> k - 1]
    BY <2>1
  <2>3. /\ i \in 1 .. Len(Log) /\ Slot(buffer, i - 1) \in Slots
        /\ heap[buffer.entry[Slot(buffer, i - 1)].buffptr] = Log[i]
        /\ buffer.entry[Slot(buffer, i - 1)].size = Len(Log[i])
    BY <1>1, LogType DEF LogIs, Carries, Filled
  <2>4. FindEntry(buffer, off) # NotFound
    <3>1. -1 \notin Slots
      BY DEF Slots
    <3> QED
      BY <2>2, <2>3, <3>1 DEF NotFound
  <2>5. Found(off, i, k)
    BY <2>2, <2>3, <2>4 DEF Found
  <2> QED
    BY <1>4, <2>3, <2>5
<1> QED
  BY <1>3, <1>4

(* A finished read has what ReadsTheConcatenation promises. *)
ReadsRight(t) ==
  /\ out'[t] = SubSeq(Concatenation, pos[t] + 1, pos[t] + ret'[t])
  /\ pos'[t] = pos[t] + Len(out'[t]) /\ ret'[t] = Len(out'[t])
  /\ ret'[t] = 0 => \/ pos[t] >= Len(Concatenation)
                    \/ 0 \in ReadCounts

LEMMA EofRight ==
  ASSUME DriverInv, DataInv, NEW t \in Threads, ReadEof(t)
  PROVE  ReadsRight(t)
<1>1. pos[t] \in Nat /\ ret \in [Threads -> Int] /\ Log \in Seq(Seq(Byte))
  BY LogType DEF DriverInv, DataInv, PositionTypeOK, LogIs
<1>2. Concatenation \in Seq(Byte)
  BY <1>1, FlattenTyped DEF Concatenation
<1>3. pos[t] >= Len(Concatenation)
  <2>1. FindEntry(buffer, pos[t]) = NotFound
    BY DEF ReadEof
  <2> QED
    BY <1>1, <2>1, SearchTells DEF DataInv, Found
<1>4. out'[t] = <<>> /\ ret'[t] = 0 /\ pos' = pos
  BY <1>1 DEF ReadEof, Leave, DataInv, OutEmpty
<1>5. SubSeq(Concatenation, pos[t] + 1, pos[t] + 0) = <<>>
  BY <1>1, <1>2, SubSeqEmpty
<1> QED
  BY <1>1, <1>3, <1>4, <1>5 DEF ReadsRight

LEMMA CopyRight ==
  ASSUME DriverInv, DataInv, NEW t \in Threads, ReadCopy(t), pc'[t] = "advance"
  PROVE  /\ ReadsRight(t)
         /\ pos' \in [Threads -> Nat] /\ ret' \in [Threads -> Int]
         /\ out' \in [Threads -> Seq(Byte)]
         /\ \A u \in Threads \ {t} : out'[u] = out[u]
<1>1. /\ pos \in [Threads -> Nat] /\ ret \in [Threads -> Int]
      /\ out \in [Threads -> Seq(Byte)] /\ pc \in [Threads -> Labels]
      /\ Log \in Seq(Seq(Byte))
  BY LogType DEF DriverInv, CallTypeOK, DataInv, PositionTypeOK, LogIs
<1> DEFINE hit  == FindEntry(buffer, pos[t])
           size == buffer.entry[hit.slot].size
           data == heap[buffer.entry[hit.slot].buffptr]
<1>2. PICK count \in ReadCounts : \E n :
        /\ n = IF size - hit.byte < count THEN size - hit.byte ELSE count
        /\ ret' = [ret EXCEPT ![t] = n]
        /\ pos' = [pos EXCEPT ![t] = pos[t] + n]
        /\ out' = [out EXCEPT ![t] = SubSeq(data, hit.byte + 1, hit.byte + n)]
  BY <1>1 DEF ReadCopy, Leave
<1>3. PICK n :
        /\ n = IF size - hit.byte < count THEN size - hit.byte ELSE count
        /\ ret' = [ret EXCEPT ![t] = n]
        /\ pos' = [pos EXCEPT ![t] = pos[t] + n]
        /\ out' = [out EXCEPT ![t] = SubSeq(data, hit.byte + 1, hit.byte + n)]
  BY <1>2
<1>4. hit # NotFound
  BY DEF ReadCopy
<1>5. PICK i \in 1 .. Len(Log) : \E k \in 1 .. Len(Log[i]) : Found(pos[t], i, k)
  BY <1>1, <1>4, SearchTells DEF DataInv
<1>6. PICK k \in 1 .. Len(Log[i]) : Found(pos[t], i, k)
  BY <1>5
<1>7. PICK m \in Nat : m = Len(Log[i]) /\ Log[i] \in Seq(Byte)
  BY <1>1
<1>8. /\ hit.byte = k - 1 /\ data = Log[i] /\ size = m
      /\ pos[t] + 1 = Len(Upto(Log, i - 1)) + k
  BY <1>6, <1>7 DEF Found
<1> HIDE DEF hit, size, data
<1>9. k \in 1 .. m /\ count \in Nat
  BY <1>7, DriverAssumption
<1>10. /\ n \in 0 .. m - k + 1 /\ n \in Nat
       /\ n = 0 => count = 0
  BY <1>3, <1>8, <1>9
<1>11. ret'[t] = n /\ pos'[t] = pos[t] + n /\ out'[t] = SubSeq(Log[i], k, k + n - 1)
  <2>1. hit.byte + 1 = k /\ hit.byte + n = k + n - 1
    BY <1>8, <1>9, <1>10
  <2> QED
    BY <1>1, <1>3, <1>8, <2>1
<1>12. /\ SubSeq(Log[i], k, k + n - 1) \in Seq(Byte)
       /\ Len(SubSeq(Log[i], k, k + n - 1)) = n
  <2>1. k \in Int /\ k + n - 1 \in Int /\ \A j \in k .. k + n - 1 : Log[i][j] \in Byte
    BY <1>7, <1>9, <1>10
  <2>2. Len(SubSeq(Log[i], k, k + n - 1)) = IF k <= k + n - 1 THEN (k + n - 1) - k + 1 ELSE 0
    BY <2>1, SubSeqProperties
  <2> QED
    BY <1>9, <1>10, <2>1, <2>2, SubSeqProperties
<1>13. SubSeq(Concatenation, pos[t] + 1, pos[t] + 1 + n - 1)
         = SubSeq(Log[i], k, k + n - 1)
  <2> DEFINE at == pos[t] + 1
  <2>1. at = Len(Upto(Log, i - 1)) + k /\ n \in 0 .. Len(Log[i]) - k + 1
    BY <1>7, <1>8, <1>10
  <2> HIDE DEF at
  <2>2. SubSeq(FlattenSeq(Log), at, at + n - 1) = SubSeq(Log[i], k, k + n - 1)
    BY <1>1, <2>1, FlattenSlice
  <2> QED
    BY <2>2 DEF at, Concatenation
<1>14. pos[t] + 1 + n - 1 = pos[t] + n
  BY <1>1, <1>10
<1>15. ReadsRight(t)
  BY <1>10, <1>11, <1>12, <1>13, <1>14 DEF ReadsRight
<1>16. pos' \in [Threads -> Nat] /\ ret' \in [Threads -> Int]
  <2>1. pos[t] + n \in Nat /\ n \in Int
    BY <1>1, <1>10
  <2>2. pos' = [pos EXCEPT ![t] = pos[t] + n] /\ ret' = [ret EXCEPT ![t] = n]
    BY <1>3
  <2> QED
    BY <1>1, <2>1, <2>2
<1>17. out' = [out EXCEPT ![t] = out'[t]] /\ out'[t] \in Seq(Byte)
  BY <1>1, <1>3, <1>11, <1>12
<1> QED
  BY <1>1, <1>15, <1>16, <1>17

(* The seek's target is Place, as long as the oldest command is in slot 0.  *)
LEMMA SeekRight ==
  ASSUME DriverInv, DataInv, NEW t \in Threads, NEW c \in Commands,
         buffer.out_offs = 0, AdjustFileOffset(t, c[1], c[2])
  PROVE  SeeksTo(t, Place(c[1], c[2]))
<1>1. c[1] \in Nat /\ c[2] \in Nat
  BY DriverAssumption
<1>2. /\ buffer \in Buffers(Entries) /\ WellShaped(buffer)
      /\ Carries(buffer, Log, Byte)
  BY LogCarried DEF DriverInv, DeviceTypeOK, DataInv, SlotsFilled
<1> DEFINE to == AdjustedOffset(buffer, c[1], c[2])
<1>3. to = Place(c[1], c[2])
  <2>1. PICK cmd \in Nat, off \in Nat : cmd = c[1] /\ off = c[2]
    BY <1>1
  <2>2. AdjustedOffset(buffer, cmd, off) =
          IF cmd < Len(Log) /\ off < Len(Log[cmd + 1])
          THEN Len(Upto(Log, cmd)) + off ELSE EINVAL
    BY <1>2, SeeksPlace
  <2> QED
    BY <2>1, <2>2 DEF Place, Upto
<1>4. to \in Nat \union {EINVAL}
  <2>1. \A i \in Slots : buffer.entry[i].size \in Nat
    BY <1>2 DEF Buffers, Entries
  <2> QED
    BY <1>1, <2>1, AdjustedOffsetType
<1>5. /\ ret' = [ret EXCEPT ![t] = IF to < 0 THEN to ELSE 0]
      /\ f_pos' = IF to < 0 THEN f_pos ELSE [f_pos EXCEPT ![file[t]] = to]
  BY DEF AdjustFileOffset, Leave
<1>6. ret'[t] = IF to < 0 THEN to ELSE 0
  BY <1>5 DEF DataInv, PositionTypeOK
<1> HIDE DEF to
<1> QED
  BY <1>3, <1>4, <1>5, <1>6 DEF SeeksTo, EINVAL

(* What the log holds when it has taken one more command. *)
LEMMA KeepLength ==
  ASSUME NEW S, NEW log \in Seq(Seq(S)), NEW line \in Seq(S)
  PROVE  /\ CL!Keep(log, line) \in Seq(Seq(S))
         /\ Len(FlattenSeq(CL!Keep(log, line)))
              <= Len(FlattenSeq(log)) + Len(line)
         /\ Len(log) < MAX_OPS =>
              Len(FlattenSeq(CL!Keep(log, line))) = Len(FlattenSeq(log)) + Len(line)
<1>1. PICK m \in Nat : m = Len(log) /\ FlattenSeq(log) \in Seq(S)
  BY FlattenTyped
<1>2. CASE m < MAX_OPS
  <2>1. CL!Keep(log, line) = Append(log, line)
    BY <1>1, <1>2 DEF CL!Keep
  <2>2. FlattenSeq(Append(log, line)) = FlattenSeq(log) \o line
    BY FlattenAppend
  <2>3. Append(log, line) \in Seq(Seq(S))
    BY AppendProperties
  <2>4. /\ Len(FlattenSeq(log) \o line) = Len(FlattenSeq(log)) + Len(line)
        /\ Len(FlattenSeq(log)) \in Nat /\ Len(line) \in Nat
    BY <1>1
  <2> QED
    BY <1>1, <1>2, <2>1, <2>2, <2>3, <2>4
<1>3. CASE ~ (m < MAX_OPS)
  <2>1. CL!Keep(log, line) = Append(Tail(log), line)
    BY <1>1, <1>3 DEF CL!Keep
  <2>2. log # <<>>
    BY <1>1, <1>3, MaxOpsAssumption
  <2>3. Head(log) \in Seq(S) /\ Tail(log) \in Seq(Seq(S))
        /\ log = <<Head(log)>> \o Tail(log)
    <3> DEFINE T == Seq(S)
    <3>1. log \in Seq(T)
      OBVIOUS
    <3> HIDE DEF T
    <3>2. Head(log) \in T /\ Tail(log) \in Seq(T) /\ log = <<Head(log)>> \o Tail(log)
      BY <2>2, <3>1, HeadTailProperties
    <3> QED
      BY <3>2 DEF T
  <2>4. FlattenSeq(log) = FlattenSeq(<<Head(log)>>) \o FlattenSeq(Tail(log))
    <3>1. <<Head(log)>> \in Seq(Seq(S))
      BY <2>3
    <3> QED
      BY <2>3, <3>1, FlattenConcat
  <2>5. FlattenSeq(<<Head(log)>>) = Head(log)
    BY <2>3, FlattenOne
  <2>6. FlattenSeq(Tail(log)) \in Seq(S)
        /\ FlattenSeq(Append(Tail(log), line)) = FlattenSeq(Tail(log)) \o line
        /\ Append(Tail(log), line) \in Seq(Seq(S))
    BY <2>3, FlattenTyped, FlattenAppend, AppendProperties
  <2>7. PICK h \in Nat, r \in Nat, l \in Nat :
          /\ h = Len(Head(log)) /\ r = Len(FlattenSeq(Tail(log))) /\ l = Len(line)
    BY <2>3, <2>6
  <2>8. Len(FlattenSeq(log)) = h + r
        /\ Len(FlattenSeq(Append(Tail(log), line))) = r + l
    <3>1. PICK a \in Seq(S), b \in Seq(S) :
            a = Head(log) /\ b = FlattenSeq(Tail(log))
      BY <2>3, <2>6
    <3>2. FlattenSeq(log) = a \o b /\ FlattenSeq(Append(Tail(log), line)) = b \o line
      BY <2>4, <2>5, <2>6, <3>1
    <3>3. /\ Len(a \o b) = Len(a) + Len(b) /\ Len(b \o line) = Len(b) + Len(line)
      OBVIOUS
    <3> QED
      BY <2>7, <3>1, <3>2, <3>3
  <2> QED
    BY <1>1, <1>3, <2>1, <2>6, <2>7, <2>8
<1> QED
  BY <1>1, <1>2, <1>3

(* The size llseek is bounded by, over a commit and over every other step.  *)
LEMMA CommitSeekable ==
  ASSUME DriverInv, DataInv, NEW t \in Threads, WriteCommit(t)
  PROVE  SlotsFilled' /\ EveryByteSeekable'
<1>1. /\ SlotsFilled' /\ Log' = CL!Keep(Log, Line(t)) /\ Line(t) \in Seq(Byte)
      /\ buff_size' = buff_size + Len(Line(t))
      /\ buffer.full => buffer'.full
  BY CommitKeeps DEF DataInv
<1>2. /\ Log \in Seq(Seq(Byte)) /\ Len(Log) = Count(buffer) /\ buff_size \in Nat
      /\ buffer \in Buffers(Entries) /\ WellShaped(buffer)
  BY LogType DEF DriverInv, DeviceTypeOK, DataInv, LogIs, SlotsFilled
<1>3. ~ buffer.full => Len(Log) < MAX_OPS
  <2>1. Count(buffer) = IF buffer.full THEN MAX_OPS ELSE buffer.in_offs
    BY <1>2, ContentsPlaces
  <2>2. buffer.in_offs < MAX_OPS
    BY <1>2, MaxOpsAssumption DEF Buffers, Slots
  <2> QED
    BY <1>2, <2>1, <2>2
<1>4. PICK n \in Nat, l \in Nat :
        n = Len(FlattenSeq(Log)) /\ l = Len(Line(t))
  BY <1>1, <1>2, FlattenTyped
<1>5. /\ n <= buff_size
      /\ ~ buffer.full => buff_size = n
  BY <1>4 DEF DataInv, EveryByteSeekable, Concatenation
<1>6. /\ Len(FlattenSeq(Log')) <= n + l
      /\ Len(Log) < MAX_OPS => Len(FlattenSeq(Log')) = n + l
  BY <1>1, <1>2, <1>4, KeepLength
<1>7. Len(FlattenSeq(Log')) \in Nat
  <2>1. Log' \in Seq(Seq(Byte))
    BY <1>1, <1>2, KeepLength
  <2> QED
    BY <2>1, FlattenTyped
<1>8. Len(FlattenSeq(Log')) <= buff_size'
  BY <1>1, <1>2, <1>4, <1>5, <1>6, <1>7
<1>9. ~ buffer'.full => buff_size' = Len(FlattenSeq(Log'))
  BY <1>1, <1>3, <1>4, <1>5, <1>6
<1> QED
  BY <1>1, <1>8, <1>9 DEF EveryByteSeekable, Concatenation

LEMMA OthersSeekable ==
  ASSUME DriverInv, DataInv, UNCHANGED <<buffer, buff_size>>, FilledKept
  PROVE  SlotsFilled' /\ EveryByteSeekable'
<1>1. SlotsFilled' /\ Log' = Log
  BY LogKept DEF DataInv
<1> QED
  BY <1>1 DEF DataInv, EveryByteSeekable, Concatenation

LEMMA ModuleSeekable ==
  ASSUME buffer' = InitBuffer, buff_size' = 0
  PROVE  SlotsFilled' /\ EveryByteSeekable'
<1>1. NoEntry \in Entries
  BY DEF NoEntry, Entries
<1>2. Count(InitBuffer) = 0 /\ WellShaped(InitBuffer)
  BY <1>1, InitBufferType
<1>3. Filled(InitBuffer) = {}
  BY MaxOpsAssumption DEF Filled, InitBuffer, Slots
<1>4. Count(buffer') = 0
  BY <1>2
<1>5. Log' = <<>>
  BY <1>4 DEF Log
<1>6. FlattenSeq(Log') = <<>>
  BY <1>5, FlattenEmpty
<1> QED
  BY <1>2, <1>3, <1>6 DEF SlotsFilled, EveryByteSeekable, Concatenation

(* The types of what a call passes back and forth with the VFS.             *)
LEMMA PositionsKept ==
  ASSUME DriverInv, DataInv, NEW t \in Threads, pc[t] # "advance",
         \E label : pc' = [pc EXCEPT ![t] = label],
         UNCHANGED out, f_pos' \in [Files -> Nat],
         ret' \in [Threads -> Int], pos' \in [Threads -> Nat]
  PROVE  PositionTypeOK' /\ OutEmpty'
  BY DEF DriverInv, CallTypeOK, DataInv, PositionTypeOK, OutEmpty

LEMMA SeekTarget ==
  ASSUME NEW from \in Nat, NEW offset \in Int, NEW whence \in Int, NEW size \in Nat
  PROVE  FixedSizeLlseek(from, offset, whence, size) \in Nat \union {EINVAL}
<1> DEFINE to == CASE whence = SEEK_SET -> offset
                   [] whence = SEEK_CUR -> from + offset
                   [] whence = SEEK_END -> size + offset
                   [] OTHER -> -1
<1>1. to \in Int
  BY DEF SEEK_SET, SEEK_CUR, SEEK_END
<1>2. FixedSizeLlseek(from, offset, whence, size) =
        IF whence = SEEK_CUR /\ offset = 0 THEN from
        ELSE IF to < 0 \/ to > size THEN EINVAL ELSE to
  BY DEF FixedSizeLlseek
<1> HIDE DEF to
<1> QED
  BY <1>1, <1>2

LEMMA CallPositions ==
  ASSUME DriverInv, DataInv, NEW t \in Threads, Call(t)
  PROVE  PositionTypeOK' /\ OutEmpty'
<1>1. PICK f \in Files :
         \/ ReadCall(t, f) \/ WriteCall(t, f) \/ WriteRefused(t, f)
         \/ LlseekCall(t, f) \/ IoctlCall(t, f)
  BY DEF Call
<1>2. \E label : Enter(t, f, label)
  BY <1>1 DEF ReadCall, WriteCall, WriteRefused, LlseekCall, IoctlCall, Reject
<1>3. UNCHANGED <<vfs, out>>
  BY <1>1 DEF ReadCall, WriteCall, WriteRefused, LlseekCall, IoctlCall, Reject
<1>4. UNCHANGED ret
      \/ \E code \in {EINVAL, ENOMEM, EFAULT, ENOTTY} : ret' = [ret EXCEPT ![t] = code]
  BY <1>1 DEF ReadCall, WriteCall, WriteRefused, LlseekCall, IoctlCall, Reject
<1>5. /\ f_pos \in [Files -> Nat] /\ pos \in [Threads -> Nat]
      /\ ret \in [Threads -> Int]
  BY DEF DataInv, PositionTypeOK
<1>6. ret' \in [Threads -> Int]
  BY <1>4, <1>5 DEF EINVAL, ENOMEM, EFAULT, ENOTTY
<1>7. pos' \in [Threads -> Nat]
  BY <1>2, <1>5 DEF Enter
<1> QED
  BY <1>2, <1>3, <1>5, <1>6, <1>7, PositionsKept DEF Enter, vfs

LEMMA WaitPositions ==
  ASSUME DriverInv, DataInv, NEW t \in Threads, Lock(t) \/ LockBroken(t)
  PROVE  PositionTypeOK' /\ OutEmpty'
<1>1. /\ pc[t] # "advance" /\ \E label : pc' = [pc EXCEPT ![t] = label]
      /\ UNCHANGED <<f_pos, out, pos>>
      /\ UNCHANGED ret \/ ret' = [ret EXCEPT ![t] = ERESTARTSYS]
  BY DEF Lock, LockBroken, Locked, Interrupted, vfs
<1>2. /\ f_pos \in [Files -> Nat] /\ pos \in [Threads -> Nat]
      /\ ret \in [Threads -> Int]
  BY DEF DataInv, PositionTypeOK
<1>3. ret' \in [Threads -> Int]
  BY <1>1, <1>2 DEF ERESTARTSYS
<1> QED
  BY <1>1, <1>2, <1>3, PositionsKept

LEMMA BodyPositions ==
  ASSUME DriverInv, DataInv, NEW t \in Threads, Body(t)
  PROVE  PositionTypeOK' /\ OutEmpty'
<1>1. /\ f_pos \in [Files -> Nat] /\ pos \in [Threads -> Nat]
      /\ ret \in [Threads -> Int] /\ pc \in [Threads -> Labels]
      /\ out \in [Threads -> Seq(Byte)]
  BY DEF DriverInv, CallTypeOK, DataInv, PositionTypeOK
<1>2. CASE ReadEof(t)
  <2>1. /\ ret' = [ret EXCEPT ![t] = 0] /\ UNCHANGED <<pos, f_pos, out>>
        /\ pc[t] # "advance" /\ \E label : pc' = [pc EXCEPT ![t] = label]
    BY <1>2 DEF ReadEof, Leave, vfs
  <2>2. ret' \in [Threads -> Int]
    BY <1>1, <2>1
  <2> QED
    BY <1>1, <2>1, <2>2, PositionsKept
<1>3. CASE ReadCopy(t) /\ pc'[t] = "advance"
  <2>1. /\ pos' \in [Threads -> Nat] /\ ret' \in [Threads -> Int]
        /\ out' \in [Threads -> Seq(Byte)]
        /\ \A u \in Threads \ {t} : out'[u] = out[u]
    BY <1>3, CopyRight
  <2>2. UNCHANGED f_pos /\ \E label : pc' = [pc EXCEPT ![t] = label]
    BY <1>3 DEF ReadCopy, Leave, vfs
  <2> QED
    BY <1>1, <1>3, <2>1, <2>2 DEF PositionTypeOK, OutEmpty, DataInv
<1>4. CASE ReadCopy(t) /\ pc'[t] # "advance"
  <2>1. /\ UNCHANGED <<pos, out, f_pos>> /\ ret' = [ret EXCEPT ![t] = EFAULT]
        /\ \E label : pc' = [pc EXCEPT ![t] = label]
        /\ pc[t] # "advance"
    BY <1>1, <1>4 DEF ReadCopy, Leave, vfs
  <2>2. ret' \in [Threads -> Int]
    BY <1>1, <2>1 DEF EFAULT
  <2> QED
    BY <1>1, <2>1, <2>2, PositionsKept
<1>5. CASE WriteNoMemory(t)
  <2>1. ret' \in [Threads -> Int]
    BY <1>1, <1>5 DEF WriteNoMemory, Leave, ENOMEM
  <2> QED
    BY <1>1, <1>5, <2>1, PositionsKept DEF WriteNoMemory, Leave, vfs
<1>6. CASE WriteAppend(t) \/ WriteCommit(t)
  <2> DEFINE n == AppendIndex(Data(t))
  <2>1. n \in Nat
    BY DataType, AppendIndexBounds
  <2>2. /\ ret' = [ret EXCEPT ![t] = n] /\ pos' = [pos EXCEPT ![t] = pos[t] + n]
        /\ UNCHANGED <<f_pos, out>> /\ pc[t] # "advance"
        /\ \E label : pc' = [pc EXCEPT ![t] = label]
    BY <1>6 DEF WriteAppend, WriteCommit, Leave, vfs
  <2> HIDE DEF n
  <2>3. ret' \in [Threads -> Int] /\ pos' \in [Threads -> Nat]
    BY <1>1, <2>1, <2>2
  <2> QED
    BY <1>1, <2>2, <2>3, PositionsKept
<1>7. CASE Llseek(t)
  <2>1. PICK s \in Seeks :
          LET to == FixedSizeLlseek(f_pos[file[t]], s[1], s[2], buff_size)
          IN  /\ Leave(t, "llseek_body", "return", to)
              /\ f_pos' = IF to < 0 THEN f_pos ELSE [f_pos EXCEPT ![file[t]] = to]
    BY <1>7 DEF Llseek
  <2> DEFINE to == FixedSizeLlseek(f_pos[file[t]], s[1], s[2], buff_size)
  <2>2. to \in Nat \union {EINVAL}
    <3>1. f_pos[file[t]] \in Nat
      BY <1>1, <2>1 DEF DriverInv, CallTypeOK, Leave
    <3>2. s[1] \in Int /\ s[2] \in Int /\ buff_size \in Nat
      BY DriverAssumption DEF DriverInv, DeviceTypeOK
    <3> QED
      BY <3>1, <3>2, SeekTarget
  <2>3. /\ Leave(t, "llseek_body", "return", to)
        /\ f_pos' = IF to < 0 THEN f_pos ELSE [f_pos EXCEPT ![file[t]] = to]
    BY <2>1
  <2> HIDE DEF to
  <2>4. ret' \in [Threads -> Int] /\ f_pos' \in [Files -> Nat]
    <3>1. CASE to \in Nat
      <4>1. ~ (to < 0) /\ to \in Int
        BY <3>1
      <4>2. /\ ret' = [ret EXCEPT ![t] = to]
            /\ f_pos' = [f_pos EXCEPT ![file[t]] = to]
        BY <2>3, <4>1 DEF Leave
      <4> QED
        BY <1>1, <3>1, <4>1, <4>2
    <3>2. CASE to = EINVAL
      <4>1. EINVAL < 0 /\ EINVAL \in Int
        BY DEF EINVAL
      <4> QED
        BY <1>1, <2>3, <3>2, <4>1 DEF Leave
    <3> QED
      BY <2>2, <3>1, <3>2
  <2> QED
    BY <1>1, <1>7, <2>3, <2>4, PositionsKept DEF Llseek, Leave
<1>8. ASSUME NEW c \in Commands, AdjustFileOffset(t, c[1], c[2])
      PROVE  PositionTypeOK' /\ OutEmpty'
  <2> DEFINE to == AdjustedOffset(buffer, c[1], c[2])
  <2>1. to \in Nat \union {EINVAL}
    <3>1. \A i \in Slots : buffer.entry[i].size \in Nat
      BY DEF DriverInv, DeviceTypeOK, Buffers, Entries
    <3>2. c[1] \in Nat /\ c[2] \in Nat
      BY DriverAssumption
    <3> QED
      BY <3>1, <3>2, AdjustedOffsetType
  <2>2. /\ Leave(t, "ioctl_body", "return", IF to < 0 THEN to ELSE 0)
        /\ f_pos' = IF to < 0 THEN f_pos ELSE [f_pos EXCEPT ![file[t]] = to]
        /\ UNCHANGED <<pos, out>>
    BY <1>8 DEF AdjustFileOffset
  <2> HIDE DEF to
  <2>3. ret' \in [Threads -> Int] /\ f_pos' \in [Files -> Nat]
    <3>1. CASE to \in Nat
      <4>1. ~ (to < 0) /\ to \in Int
        BY <3>1
      <4>2. /\ ret' = [ret EXCEPT ![t] = 0]
            /\ f_pos' = [f_pos EXCEPT ![file[t]] = to]
        BY <2>2, <4>1 DEF Leave
      <4>3. ret' \in [Threads -> Int]
        BY <1>1, <4>2
      <4>4. f_pos' \in [Files -> Nat]
        BY <1>1, <3>1, <4>2
      <4> QED
        BY <4>3, <4>4
    <3>2. CASE to = EINVAL
      <4>1. EINVAL < 0 /\ EINVAL \in Int
        BY DEF EINVAL
      <4> QED
        BY <1>1, <2>2, <3>2, <4>1 DEF Leave
    <3> QED
      BY <2>1, <3>1, <3>2
  <2> QED
    BY <1>1, <2>2, <2>3, PositionsKept DEF Leave
<1> QED
  BY <1>2, <1>3, <1>4, <1>5, <1>6, <1>7, <1>8 DEF Body

LEMMA ReturnPositions ==
  ASSUME DriverInv, DataInv, NEW t \in Threads, Return(t)
  PROVE  PositionTypeOK' /\ OutEmpty'
<1>1. file[t] \in Files /\ pos[t] \in Nat
  BY DEF Return, DriverInv, CallTypeOK, DataInv, PositionTypeOK
<1>2. /\ f_pos \in [Files -> Nat] /\ pos \in [Threads -> Nat]
      /\ ret \in [Threads -> Int] /\ pc \in [Threads -> Labels]
      /\ out \in [Threads -> Seq(Byte)] /\ <<>> \in Seq(Byte)
  BY DEF DriverInv, CallTypeOK, DataInv, PositionTypeOK
<1>3. PositionTypeOK'
  BY <1>1, <1>2 DEF Return, PositionTypeOK
<1>4. OutEmpty'
  BY <1>2 DEF Return, OutEmpty, DataInv
<1> QED
  BY <1>3, <1>4

LEMMA DataInit == Init => DataInv
<1> SUFFICES ASSUME Init PROVE DataInv
  OBVIOUS
<1>1. SlotsFilled
  BY LogInit DEF LogInv
<1>2. PositionTypeOK
  <2>1. <<>> \in Seq(Byte)
    OBVIOUS
  <2> QED
    BY <2>1 DEF Init, PositionTypeOK
<1>3. OutEmpty
  BY DEF Init, OutEmpty
<1>4. EveryByteSeekable
  <2>1. Log = <<>> /\ buff_size = 0
    BY LogInit DEF CL!Init, Init
  <2>2. FlattenSeq(Log) = <<>>
    BY <2>1, FlattenEmpty
  <2> QED
    BY <2>1, <2>2 DEF EveryByteSeekable, Concatenation
<1> QED
  BY <1>1, <1>2, <1>3, <1>4 DEF DataInv

LEMMA ThreadData ==
  ASSUME DriverInv, DataInv, NEW t \in Threads,
         Call(t) \/ Lock(t) \/ LockBroken(t) \/ Body(t) \/ Return(t)
  PROVE  DataInv'
<1>1. PositionTypeOK' /\ OutEmpty'
  BY CallPositions, WaitPositions, BodyPositions, ReturnPositions
<1>2. SlotsFilled' /\ EveryByteSeekable'
  <2>1. CASE WriteCommit(t)
    BY <2>1, CommitSeekable
  <2>2. CASE WriteNoMemory(t) \/ WriteAppend(t) \/ \E f \in Files : WriteCall(t, f)
    <3>1. FilledKept /\ UNCHANGED buffer
      BY <2>2, WriteKeeps DEF DataInv
    <3>2. UNCHANGED buff_size
      BY <2>2 DEF WriteNoMemory, WriteAppend, WriteCall, device
    <3> QED
      BY <3>1, <3>2, OthersSeekable
  <2>3. CASE /\ ~ (WriteCommit(t) \/ WriteNoMemory(t) \/ WriteAppend(t))
             /\ ~ \E f \in Files : WriteCall(t, f)
    <3>1. UNCHANGED <<buffer, buff_size, heap>>
      <4>1. CASE Call(t)
        BY <2>3, <4>1
           DEF Call, ReadCall, WriteRefused, LlseekCall, IoctlCall, Reject, device
      <4>2. CASE Lock(t) \/ LockBroken(t)
        BY <4>2 DEF Lock, LockBroken, Locked, Interrupted, device
      <4>3. CASE Body(t)
        BY <2>3, <4>3 DEF Body, ReadEof, ReadCopy, Llseek, AdjustFileOffset
      <4>4. CASE Return(t)
        BY <4>4 DEF Return, device
      <4> QED
        BY <4>1, <4>2, <4>3, <4>4
    <3> QED
      BY <3>1, OthersSeekable DEF FilledKept
  <2> QED
    BY <2>1, <2>2, <2>3
<1> QED
  BY <1>1, <1>2 DEF DataInv

LEMMA NextData == DriverInv /\ DataInv /\ [Next]_vars => DataInv'
<1> SUFFICES ASSUME DriverInv, DataInv, [Next]_vars PROVE DataInv'
  OBVIOUS
<1>1. ASSUME NEW t \in Threads,
             Call(t) \/ Lock(t) \/ LockBroken(t) \/ Body(t) \/ Return(t)
      PROVE  DataInv'
  BY <1>1, ThreadData
<1>2. ASSUME NEW f \in Files, Open(f) \/ Release(f)
      PROVE  DataInv'
  <2>1. UNCHANGED <<buffer, buff_size, heap, pc, pos, ret, out>>
    BY <1>2 DEF Open, Release, device, calls
  <2>2. SlotsFilled' /\ EveryByteSeekable'
    BY <2>1, OthersSeekable DEF FilledKept
  <2>3. f_pos' \in [Files -> Nat]
    <3>1. f_pos \in [Files -> Nat]
      BY DEF DataInv, PositionTypeOK
    <3>2. UNCHANGED f_pos \/ f_pos' = [f_pos EXCEPT ![f] = 0]
      BY <1>2 DEF Open, Release
    <3> QED
      BY <3>1, <3>2
  <2> QED
    BY <2>1, <2>2, <2>3 DEF DataInv, PositionTypeOK, OutEmpty
<1>3. CASE InitModule \/ CleanupModule
  <2>1. /\ buffer' = InitBuffer /\ buff_size' = 0
        /\ UNCHANGED <<f_pos, pc, pos, ret, out>>
    BY <1>3 DEF InitModule, CleanupModule, vfs, calls
  <2>2. SlotsFilled' /\ EveryByteSeekable'
    BY <2>1, ModuleSeekable
  <2> QED
    BY <2>1, <2>2 DEF DataInv, PositionTypeOK, OutEmpty
<1>4. CASE UNCHANGED vars
  <2>1. UNCHANGED <<buffer, buff_size, heap, f_pos, pc, pos, ret, out>>
    BY <1>4 DEF vars, device, vfs, calls
  <2>2. SlotsFilled' /\ EveryByteSeekable'
    BY <2>1, OthersSeekable DEF FilledKept
  <2> QED
    BY <2>1, <2>2 DEF DataInv, PositionTypeOK, OutEmpty
<1> QED
  BY <1>1, <1>2, <1>3, <1>4 DEF Next

LEMMA DataHolds == Spec => [](DriverInv /\ DataInv)
  BY DataInit, NextData, InvariantHolds, PTL DEF Spec

(* Everything the driver and its callers hold has the type it should: no    *)
(* position goes below zero, whatever is sought, and a read hands out       *)
(* nothing but bytes of a live block.                                       *)
THEOREM DriverTypeCorrect == Spec => []TypeOK
<1>1. DriverInv /\ DataInv => TypeOK
  BY DEF DriverInv, DataInv, TypeOK
<1> QED
  BY <1>1, DataHolds, PTL

(* However the commands were cut into writes, whichever of them failed and  *)
(* however often the buffer wrapped, the size aesd_llseek is bounded by     *)
(* never falls short of the concatenation, and is exact until the buffer is *)
(* full.                                                                    *)
THEOREM SizeCoversEveryByte == Spec => []EveryByteSeekable
<1>1. DriverInv /\ DataInv => EveryByteSeekable
  BY DEF DataInv
<1> QED
  BY <1>1, DataHolds, PTL

(* Only a thread's own read ends its read. *)
LEMMA ReadStep ==
  ASSUME DriverInv, DataInv, [Next]_vars, NEW t \in Threads,
         pc[t] = "read_body", pc'[t] = "advance"
  PROVE  ReadsRight(t)
<1>1. pc \in [Threads -> Labels]
  BY DEF DriverInv, CallTypeOK
<1>2. ASSUME NEW u \in Threads,
             Call(u) \/ Lock(u) \/ LockBroken(u) \/ Body(u) \/ Return(u)
      PROVE  ReadsRight(t)
  <2>1. \E label : pc' = [pc EXCEPT ![u] = label]
    <3>1. CASE Call(u)
      BY <3>1
         DEF Call, ReadCall, WriteCall, WriteRefused, LlseekCall, IoctlCall,
             Reject, Enter
    <3>2. CASE Lock(u) \/ LockBroken(u)
      BY <3>2 DEF Lock, LockBroken, Locked, Interrupted
    <3>3. CASE Body(u)
      BY <3>3
         DEF Body, ReadEof, ReadCopy, WriteNoMemory, WriteAppend, WriteCommit,
             Llseek, AdjustFileOffset, Leave
    <3>4. CASE Return(u)
      BY <3>4 DEF Return
    <3> QED
      BY <1>2, <3>1, <3>2, <3>3, <3>4
  <2>2. u = t
    BY <1>1, <2>1
  <2>3. ReadEof(t) \/ ReadCopy(t)
    <3>1. ~ Call(t)
      BY DEF Call, ReadCall, WriteCall, WriteRefused, LlseekCall, IoctlCall,
             Reject, Enter
    <3>2. ~ (Lock(t) \/ LockBroken(t) \/ Return(t))
      BY DEF Lock, LockBroken, Locked, Interrupted, Return
    <3> QED
      BY <1>2, <2>2, <3>1, <3>2
         DEF Body, WriteNoMemory, WriteAppend, WriteCommit, Llseek,
             AdjustFileOffset, Leave
  <2> QED
    BY <2>3, EofRight, CopyRight
<1>3. ASSUME UNCHANGED pc PROVE ReadsRight(t)
  BY <1>3
<1> QED
  BY <1>2, <1>3
     DEF Next, vars, calls, Open, Release, InitModule, CleanupModule

(* Whatever else runs and fails, a read hands out exactly the bytes of the  *)
(* concatenated commands from its position on, as many as it returns, and   *)
(* none only at the end or if it asked for none.                            *)
THEOREM ReadsAreExact == Spec => ReadsTheConcatenation
<1> DEFINE Reads == \A t \in Threads :
                      (pc[t] = "read_body" /\ pc'[t] = "advance") => ReadsRight(t)
<1>1. DriverInv /\ DataInv /\ [Next]_vars => [Reads]_vars
  BY ReadStep
<1>2. Spec => [][Reads]_vars
  BY <1>1, DataHolds, PTL DEF Spec
<1> QED
  BY <1>2 DEF ReadsTheConcatenation, ReadsRight

(* Until the indices wrap, AESDCHAR_IOCSEEKTO moves to the given byte of    *)
(* the given command, and refuses every place there is none.                *)
THEOREM SeeksAreExactUntilWrap == Spec => SeekReachesUnwrappedCommand
<1> DEFINE Seek == \A t \in Threads, c \in Commands :
                     buffer.out_offs = 0 /\ AdjustFileOffset(t, c[1], c[2])
                       => SeeksTo(t, Place(c[1], c[2]))
<1>1. DriverInv /\ DataInv => Seek
  BY SeekRight
<1>2. Spec => [][Seek]_vars
  BY <1>1, DataHolds, PTL
<1> QED
  BY <1>2 DEF SeekReachesUnwrappedCommand
=============================================================================
