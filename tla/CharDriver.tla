----------------------------- MODULE CharDriver -----------------------------
(***************************************************************************)
(* The aesdchar driver, aesd-char-driver/main.c: threads that open, read,   *)
(* write, seek and release /dev/aesdchar, and the module's load and unload. *)
(*                                                                         *)
(* A system call is cut where other threads can see the cut: the part       *)
(* before the device mutex, the wait for the mutex, the critical section    *)
(* with its mutex_unlock, and the return to the VFS, which stores the file   *)
(* position.  Arguments that are first looked at inside the critical        *)
(* section are chosen there.                                                *)
(*                                                                         *)
(* The kernel heap is modelled block by block, because who owns which block *)
(* is what this code can get wrong: heap[p] is FREE, or the bytes stored    *)
(* in block p so far.                                                       *)
(***************************************************************************)
EXTENDS DriverOps, SequencesExt

CONSTANTS
  Threads, Files,
  Blocks,         \* the blocks kmalloc can hand out
  ZERO_SIZE_PTR,  \* what kmalloc(0) returns
  FREE,           \* the content of a block that is not allocated
  NOBODY,         \* the owner of an unlocked mutex
  Byte,           \* the byte values, the newline NL among them, and
  GARBAGE,        \* a byte never initialised
  Payloads,       \* the byte sequences user space writes
  ReadCounts,     \* the counts user space reads
  Seeks,          \* the <<offset, whence>> user space passes to llseek
  Commands,       \* the <<write_cmd, write_cmd_offset>> passed to the ioctl
  UserBufs,       \* the user buffers: among "ok", "bad" (faults), "null"
  Faults,         \* what may fail: among "KMALLOC", "KREALLOC", "SIGNAL"
  MaxWrites,      \* bound: the number of writes that reach the device
  MaxLoads        \* bound: the number of times the module is loaded

ASSUME DriverAssumption ==
  /\ NULL \notin Blocks /\ ZERO_SIZE_PTR \notin Blocks
  /\ NULL # ZERO_SIZE_PTR /\ NULL \notin Files
  /\ NOBODY \notin Threads
  /\ NL \in Byte /\ GARBAGE \in Byte /\ NL # GARBAGE
  /\ FREE \notin Seq(Byte)
  /\ \A data \in Payloads : data \in Seq(Byte)
  /\ ReadCounts \subseteq Nat
  /\ Seeks \subseteq Int \X Int
  /\ Commands \subseteq Nat \X Nat
  /\ MaxWrites \in Nat /\ MaxLoads \in Nat

VARIABLES
  loads,              \* how often the module has been loaded
  loaded,             \* whether it is loaded now
  lock,               \* aesd_device.lock: its owner, or NOBODY
  buffer,             \* aesd_device.buffer
  write_buffer,       \* aesd_device.write_buffer
  write_buffer_size,  \* aesd_device.write_buffer_size
  buff_size,          \* aesd_device.buff_size
  heap,               \* the kernel heap
  opened,             \* the open file descriptions
  f_pos,              \* filp->f_pos of each
  pc,                 \* where each thread is
  file,               \* the filp of its call
  pos,                \* the VFS's copy of the position, *f_pos in the code
  write_data,         \* aesd_write's temporary buffer
  ret,                \* the value its call returns
  out,                \* the bytes its read put into the user's buffer
  writes              \* how many writes have been issued

module  == <<loads, loaded>>
device  == <<lock, buffer, write_buffer, write_buffer_size, buff_size>>
vfs     == <<opened, f_pos>>
calls   == <<pc, file, pos, write_data, ret, out>>
vars    == <<module, device, heap, vfs, calls, writes>>

ENOMEM      == -12
EFAULT      == -14
ENOTTY      == -25
ERESTARTSYS == -512

-----------------------------------------------------------------------------
(* The kernel heap. *)

FreeBlocks == {p \in Blocks : heap[p] = FREE}

(* kmalloc(size): a free block, ZERO_SIZE_PTR for size 0, or NULL. *)
Kmalloc(size) ==
  IF size = 0
  THEN {ZERO_SIZE_PTR}
  ELSE FreeBlocks \union
         (IF "KMALLOC" \in Faults \/ FreeBlocks = {} THEN {NULL} ELSE {})

(* krealloc(p, size), to a size n bytes larger: the same block, a free one  *)
(* the content moves to, or NULL with p still allocated.                    *)
Krealloc(p, n) ==
  LET found == FreeBlocks \union ({p} \ {NULL})
  IN  IF n = 0 /\ p # NULL
      THEN {p}
      ELSE found \union
             (IF "KREALLOC" \in Faults \/ found = {} THEN {NULL} ELSE {})

Kfree(h, p) == IF p \in Blocks THEN [h EXCEPT ![p] = FREE] ELSE h

Fill(h, p, bytes) == IF p \in Blocks THEN [h EXCEPT ![p] = bytes] ELSE h

-----------------------------------------------------------------------------
(* System calls: entry, mutex, return. *)

Enter(t, f, label) ==
  /\ pc[t] = "idle"
  /\ f \in opened
  /\ pc' = [pc EXCEPT ![t] = label]
  /\ file' = [file EXCEPT ![t] = f]
  /\ pos' = [pos EXCEPT ![t] = f_pos[f]]

(* A call that ends before it takes the mutex. *)
Reject(t, f, code) ==
  /\ Enter(t, f, "return")
  /\ ret' = [ret EXCEPT ![t] = code]
  /\ UNCHANGED <<module, device, heap, vfs, write_data, out, writes>>

(* mutex_lock_interruptible, on the way from one label to the next. *)
Locked(t, from, to) ==
  /\ pc[t] = from
  /\ lock = NOBODY
  /\ lock' = t
  /\ pc' = [pc EXCEPT ![t] = to]
  /\ UNCHANGED <<module, buffer, write_buffer, write_buffer_size, buff_size,
                 heap, vfs, file, pos, write_data, ret, out, writes>>

(* A signal ends the wait for a mutex someone else holds.  aesd_write then  *)
(* returns without freeing write_data; the other calls hold nothing.        *)
Interrupted(t, from) ==
  /\ "SIGNAL" \in Faults
  /\ pc[t] = from
  /\ lock # NOBODY
  /\ pc' = [pc EXCEPT ![t] = "return"]
  /\ ret' = [ret EXCEPT ![t] = ERESTARTSYS]
  /\ write_data' = [write_data EXCEPT ![t] = NULL]
  /\ UNCHANGED <<module, device, heap, vfs, file, pos, out, writes>>

(* The end of a critical section: the result is set, the mutex unlocked.    *)
(* Faulty variant: an exit that forgets mutex_unlock.                       *)
LeaveKeepsLock(t, from, to, code) ==
  /\ pc[t] = from
  /\ pc' = [pc EXCEPT ![t] = to]
  /\ ret' = [ret EXCEPT ![t] = code]
  /\ UNCHANGED lock

Leave(t, from, to, code) ==
  /\ pc[t] = from
  /\ pc' = [pc EXCEPT ![t] = to]
  /\ ret' = [ret EXCEPT ![t] = code]
  /\ lock' = NOBODY

(* Back in the VFS: read and write store the position they worked on, if    *)
(* they succeeded ("advance"); a call that set f_pos itself, or failed, does *)
(* not touch it again.                                                      *)
Return(t) ==
  /\ pc[t] \in {"return", "advance"}
  /\ f_pos' = IF pc[t] = "advance"
              THEN [f_pos EXCEPT ![file[t]] = pos[t]] ELSE f_pos
  /\ pc' = [pc EXCEPT ![t] = "idle"]
  /\ file' = [file EXCEPT ![t] = NULL]
  /\ pos' = [pos EXCEPT ![t] = 0]
  /\ ret' = [ret EXCEPT ![t] = 0]
  /\ out' = [out EXCEPT ![t] = <<>>]
  /\ UNCHANGED <<module, device, heap, opened, write_data, writes>>

-----------------------------------------------------------------------------
(* aesd_open, aesd_release *)

Open(f) ==
  /\ loaded /\ f \notin opened
  /\ opened' = opened \union {f}
  /\ UNCHANGED <<module, device, heap, f_pos, calls, writes>>

(* The last reference to the file goes, and its position with it. *)
Release(f) ==
  /\ f \in opened
  /\ \A t \in Threads : file[t] # f
  /\ opened' = opened \ {f}
  /\ f_pos' = [f_pos EXCEPT ![f] = 0]
  /\ UNCHANGED <<module, device, heap, calls, writes>>

-----------------------------------------------------------------------------
(* aesd_read *)

ReadCall(t, f) ==
  \/ /\ ReadCounts # {}
     /\ Enter(t, f, "read_lock")
     /\ UNCHANGED <<module, device, heap, vfs, write_data, ret, out, writes>>
  \/ "null" \in UserBufs /\ ReadCounts # {} /\ Reject(t, f, EINVAL)

(* Nothing at this position: end of file. *)
ReadEof(t) ==
  /\ FindEntry(buffer, pos[t]) = NotFound
  /\ Leave(t, "read_body", "advance", 0)
  /\ UNCHANGED <<module, buffer, write_buffer, write_buffer_size, buff_size,
                 heap, vfs, file, pos, write_data, out, writes>>

(* What is left of the entry at this position, at most count bytes. *)
ReadCopy(t) ==
  LET hit   == FindEntry(buffer, pos[t])
      entry == buffer.entry[hit.slot]
  IN  /\ pc[t] = "read_body"
      /\ hit # NotFound
      /\ \E count \in ReadCounts, ubuf \in UserBufs \ {"null"} :
           LET left == entry.size - hit.byte
               n    == IF left < count THEN left ELSE count
           IN  IF ubuf = "bad" /\ n > 0
               THEN /\ Leave(t, "read_body", "return", EFAULT)
                    /\ UNCHANGED <<pos, out>>
               ELSE /\ Leave(t, "read_body", "advance", n)
                    /\ pos' = [pos EXCEPT ![t] = @ + n]
                    /\ out' = [out EXCEPT ![t] =
                         SubSeq(heap[entry.buffptr], hit.byte + 1, hit.byte + n)]
      /\ UNCHANGED <<module, buffer, write_buffer, write_buffer_size,
                     buff_size, heap, vfs, file, write_data, writes>>

-----------------------------------------------------------------------------
(* aesd_write *)

(* The user's data are in write_data's block from the first step on. *)
Data(t) == IF write_data[t] \in Blocks THEN heap[write_data[t]] ELSE <<>>

WriteCall(t, f) ==
  /\ writes < MaxWrites
  /\ writes' = writes + 1
  /\ \E data \in Payloads : \E p \in Kmalloc(Len(data)) \ {NULL} :
       /\ Enter(t, f, "write_lock")
       /\ write_data' = [write_data EXCEPT ![t] = p]
       /\ heap' = Fill(heap, p, data)
  /\ UNCHANGED <<module, device, vfs, ret, out>>

(* A null buffer, no memory for write_data, or a fault while copying. *)
WriteRefused(t, f) ==
  \/ "null" \in UserBufs /\ Payloads # {} /\ Reject(t, f, EINVAL)
  \/ \E data \in Payloads :
       NULL \in Kmalloc(Len(data)) /\ Reject(t, f, ENOMEM)
  \/ "bad" \in UserBufs /\ Payloads \ {<<>>} # {} /\ Reject(t, f, EFAULT)

(* The first write_buffer_size bytes of write_buffer. *)
Unterminated ==
  IF write_buffer_size = 0 THEN <<>>
  ELSE IF write_buffer \in Blocks THEN heap[write_buffer]
  ELSE [i \in 1 .. write_buffer_size |-> GARBAGE]

(* What kmalloc or krealloc may make of write_buffer for thread t. *)
Targets(t) ==
  IF write_buffer_size = 0
  THEN Kmalloc(Len(Data(t)))
  ELSE Krealloc(write_buffer, AppendIndex(Data(t)))

WriteNoMemory(t) ==
  /\ NULL \in Targets(t)
  /\ Leave(t, "write_body", "return", ENOMEM)
  /\ write_buffer' = NULL
  /\ heap' = Kfree(heap, write_data[t])
  /\ write_data' = [write_data EXCEPT ![t] = NULL]
  /\ UNCHANGED <<module, buffer, write_buffer_size, buff_size, vfs, file, pos,
                 out, writes>>

(* The heap once write_buffer is block q and holds bytes; a reallocated     *)
(* block that moved has been freed by krealloc.                             *)
Stored(q, bytes) ==
  Fill(IF write_buffer_size = 0 THEN heap ELSE Kfree(heap, write_buffer),
       q, bytes)

WriteAppend(t) ==
  LET n == AppendIndex(Data(t))
  IN  /\ Leave(t, "write_body", "advance", n)
      /\ ~ NewlineFound(Data(t))
      /\ \E q \in Targets(t) \ {NULL} :
           /\ write_buffer' = q
           /\ heap' = Kfree(Stored(q, Unterminated \o Data(t)), write_data[t])
      /\ write_buffer_size' = write_buffer_size + n
      /\ pos' = [pos EXCEPT ![t] = @ + n]
      /\ write_data' = [write_data EXCEPT ![t] = NULL]
      /\ UNCHANGED <<module, buffer, buff_size, vfs, file, out, writes>>

(* The entry a full buffer is about to overwrite is freed first. *)
(* Faulty variants: nothing is freed, or the wrong slot.                    *)
FreeNothing(h) == h

FreeNext(h) ==
  IF buffer.full
  THEN Kfree(h, buffer.entry[Advance(buffer.in_offs)].buffptr) ELSE h

FreeOldest(h) ==
  IF buffer.full THEN Kfree(h, buffer.entry[buffer.in_offs].buffptr) ELSE h

(* The new buff_size.  The faulty variant adds the last piece only. *)
ConcatenatedLengthLastPiece(n) == buff_size + n

ConcatenatedLength(n) == buff_size + write_buffer_size + n

WriteCommit(t) ==
  LET n    == AppendIndex(Data(t))
      size == write_buffer_size + n
  IN  /\ Leave(t, "write_body", "advance", n)
      /\ NewlineFound(Data(t))
      /\ \E q \in Targets(t) \ {NULL} :
           /\ write_buffer' = q
           /\ heap' = Kfree(FreeOldest(
                        Stored(q, Unterminated \o SubSeq(Data(t), 1, n))),
                        write_data[t])
           /\ buffer' = AddEntry(buffer, [buffptr |-> q, size |-> size])
      /\ buff_size' = ConcatenatedLength(n)
      /\ write_buffer_size' = 0
      /\ pos' = [pos EXCEPT ![t] = @ + n]
      /\ write_data' = [write_data EXCEPT ![t] = NULL]
      /\ UNCHANGED <<module, vfs, file, out, writes>>

-----------------------------------------------------------------------------
(* aesd_llseek *)

SEEK_SET == 0
SEEK_CUR == 1
SEEK_END == 2

(* The kernel's fixed_size_llseek: where the position ends up, or EINVAL. *)
FixedSizeLlseek(from, offset, whence, size) ==
  LET to == CASE whence = SEEK_SET -> offset
              [] whence = SEEK_CUR -> from + offset
              [] whence = SEEK_END -> size + offset
              [] OTHER -> -1
  IN  IF whence = SEEK_CUR /\ offset = 0 THEN from
      ELSE IF to < 0 \/ to > size THEN EINVAL ELSE to

LlseekCall(t, f) ==
  /\ Seeks # {}
  /\ Enter(t, f, "llseek_lock")
  /\ UNCHANGED <<module, device, heap, vfs, write_data, ret, out, writes>>

Llseek(t) ==
  \E s \in Seeks :
    LET to == FixedSizeLlseek(f_pos[file[t]], s[1], s[2], buff_size)
    IN  /\ Leave(t, "llseek_body", "return", to)
        /\ f_pos' = IF to < 0 THEN f_pos ELSE [f_pos EXCEPT ![file[t]] = to]
        /\ UNCHANGED <<module, buffer, write_buffer, write_buffer_size,
                       buff_size, heap, opened, file, pos, write_data, out,
                       writes>>

-----------------------------------------------------------------------------
(* aesd_ioctl, aesd_adjust_file_offset *)

IoctlCall(t, f) ==
  \/ /\ Commands # {}
     /\ Enter(t, f, "ioctl_lock")
     /\ UNCHANGED <<module, device, heap, vfs, write_data, ret, out, writes>>
  \/ Commands # {} /\ Reject(t, f, ENOTTY)
  \/ Commands # {} /\ "bad" \in UserBufs /\ Reject(t, f, EFAULT)

AdjustFileOffset(t, write_cmd, write_cmd_offset) ==
  LET to == AdjustedOffset(buffer, write_cmd, write_cmd_offset)
  IN  /\ Leave(t, "ioctl_body", "return", IF to < 0 THEN to ELSE 0)
      /\ f_pos' = IF to < 0 THEN f_pos ELSE [f_pos EXCEPT ![file[t]] = to]
      /\ UNCHANGED <<module, buffer, write_buffer, write_buffer_size,
                     buff_size, heap, opened, file, pos, write_data, out,
                     writes>>

-----------------------------------------------------------------------------
(* aesd_init_module, aesd_cleanup_module *)

(* The device becomes reachable, by cdev_add, only when it is set up.  A     *)
(* load that fails undoes what it did and changes nothing.                  *)
InitModule ==
  /\ ~ loaded /\ loads < MaxLoads
  /\ loaded' = TRUE /\ loads' = loads + 1
  /\ lock' = NOBODY
  /\ buffer' = InitBuffer
  /\ write_buffer' = NULL
  /\ write_buffer_size' = 0
  /\ buff_size' = 0
  /\ UNCHANGED <<heap, vfs, calls, writes>>

(* The module cannot go while a file is open (owner = THIS_MODULE).  Every  *)
(* slot's block is freed; the struct disappears with the module.            *)
CleanupModule ==
  /\ loaded /\ opened = {}
  /\ loaded' = FALSE
  /\ heap' = [p \in Blocks |->
       IF \E i \in Slots : buffer.entry[i].buffptr = p THEN FREE ELSE heap[p]]
  /\ lock' = NOBODY
  /\ buffer' = InitBuffer
  /\ write_buffer' = NULL
  /\ write_buffer_size' = 0
  /\ buff_size' = 0
  /\ UNCHANGED <<loads, vfs, calls, writes>>

-----------------------------------------------------------------------------

Init ==
  /\ loads = 0 /\ loaded = FALSE
  /\ lock = NOBODY
  /\ buffer = InitBuffer
  /\ write_buffer = NULL /\ write_buffer_size = 0 /\ buff_size = 0
  /\ heap = [p \in Blocks |-> FREE]
  /\ opened = {} /\ f_pos = [f \in Files |-> 0]
  /\ pc = [t \in Threads |-> "idle"]
  /\ file = [t \in Threads |-> NULL]
  /\ pos = [t \in Threads |-> 0]
  /\ write_data = [t \in Threads |-> NULL]
  /\ ret = [t \in Threads |-> 0]
  /\ out = [t \in Threads |-> <<>>]
  /\ writes = 0

Call(t) ==
  \E f \in Files :
    \/ ReadCall(t, f) \/ WriteCall(t, f) \/ WriteRefused(t, f)
    \/ LlseekCall(t, f) \/ IoctlCall(t, f)

Lock(t) ==
  \/ Locked(t, "read_lock", "read_body")
  \/ Locked(t, "write_lock", "write_body")
  \/ Locked(t, "llseek_lock", "llseek_body")
  \/ Locked(t, "ioctl_lock", "ioctl_body")

LockBroken(t) ==
  \E from \in {"read_lock", "write_lock", "llseek_lock", "ioctl_lock"} :
    Interrupted(t, from)

Body(t) ==
  \/ ReadEof(t) \/ ReadCopy(t)
  \/ WriteNoMemory(t) \/ WriteAppend(t) \/ WriteCommit(t)
  \/ Llseek(t)
  \/ \E c \in Commands : AdjustFileOffset(t, c[1], c[2])

Next ==
  \/ \E t \in Threads : \/ Call(t) \/ Lock(t) \/ LockBroken(t)
                        \/ Body(t) \/ Return(t)
  \/ \E f \in Files : Open(f) \/ Release(f)
  \/ InitModule \/ CleanupModule

Spec == Init /\ [][Next]_vars

(* A thread in the kernel runs on, and a contended kernel mutex is handed   *)
(* to its waiters in turn.                                                  *)
Fairness ==
  \A t \in Threads :
    /\ SF_vars(Lock(t))
    /\ WF_vars(Body(t))
    /\ WF_vars(Return(t))

FairSpec == Spec /\ Fairness

-----------------------------------------------------------------------------
(* Types. *)

Entries == [buffptr : Blocks \union {NULL}, size : Nat]

Pointers == Blocks \union {NULL, ZERO_SIZE_PTR}

Labels ==
  {"idle", "read_lock", "read_body", "write_lock", "write_body",
   "llseek_lock", "llseek_body", "ioctl_lock", "ioctl_body",
   "advance", "return"}

DeviceTypeOK ==
  /\ loads \in Nat /\ loaded \in BOOLEAN
  /\ lock \in Threads \union {NOBODY}
  /\ buffer \in Buffers(Entries)
  /\ write_buffer \in Pointers
  /\ write_buffer_size \in Nat /\ buff_size \in Nat
  /\ heap \in [Blocks -> Seq(Byte) \union {FREE}]

(* The types of the calls' state; a call under way has an open file, and an *)
(* open file holds the module.                                              *)
CallTypeOK ==
  /\ opened \subseteq Files
  /\ opened # {} => loaded
  /\ \A t \in Threads : pc[t] # "idle" => file[t] \in opened
  /\ pc \in [Threads -> Labels]
  /\ file \in [Threads -> Files \union {NULL}]
  /\ write_data \in [Threads -> Pointers]
  /\ writes \in Nat

PositionTypeOK ==
  /\ f_pos \in [Files -> Nat]
  /\ pos \in [Threads -> Nat]
  /\ ret \in [Threads -> Int]
  /\ out \in [Threads -> Seq(Byte)]

TypeOK == DeviceTypeOK /\ CallTypeOK /\ PositionTypeOK

-----------------------------------------------------------------------------
(* Safety of the lock and of the memory. *)

Bodies == {"read_body", "write_body", "llseek_body", "ioctl_body"}

(* The mutex is held by exactly the thread inside a critical section:       *)
(* every path out of one unlocks it, and no path unlocks another's.         *)
LockOwner == \A t \in Threads : pc[t] \in Bodies <=> lock = t

Live(p) == p \in Blocks /\ heap[p] # FREE

Pending == IF write_buffer_size > 0 THEN {write_buffer} ELSE {}

(* Every pointer the driver may still follow or free points to a live block *)
(* of the size it believes, and no block has two owners: the slots of the   *)
(* buffer, the unterminated write_buffer and the temporary buffers of the   *)
(* writes under way.  It excludes use after free and double free.           *)
SlotsSafe ==
  \A i \in Slots :
    LET e == buffer.entry[i]
    IN  IF e.buffptr = NULL
        THEN e.size = 0
        ELSE Live(e.buffptr) /\ Len(heap[e.buffptr]) = e.size

SlotsDistinct ==
  \A i, j \in Slots :
    /\ i # j /\ buffer.entry[i].buffptr # NULL
    => buffer.entry[i].buffptr # buffer.entry[j].buffptr

PendingSafe ==
  \A p \in Pending \ {NULL} :
    /\ Live(p) /\ Len(heap[p]) = write_buffer_size
    /\ \A i \in Slots : buffer.entry[i].buffptr # p
    /\ \A t \in Threads : write_data[t] # p

TemporariesSafe ==
  \A t \in Threads : write_data[t] \in Blocks =>
    /\ Live(write_data[t])
    /\ \A i \in Slots : buffer.entry[i].buffptr # write_data[t]
    /\ \A u \in Threads \ {t} : write_data[u] # write_data[t]

MemorySafe == SlotsSafe /\ SlotsDistinct /\ PendingSafe /\ TemporariesSafe

(* Every allocated block still has an owner, so it will be freed.  (Not so  *)
(* under signals, failing reallocations and an unload: see the README.)     *)
NoLeak ==
  loaded => \A p \in Blocks : heap[p] # FREE =>
    \/ \E i \in Slots : buffer.entry[i].buffptr = p
    \/ p \in Pending
    \/ \E t \in Threads : write_data[t] = p

-----------------------------------------------------------------------------
(* The data. *)

Log ==
  [i \in 1 .. Count(buffer) |-> heap[Contents(buffer)[i].buffptr]]

Concatenation == FlattenSeq(Log)

(* The device behaves as the log of its newest commands, whatever the       *)
(* interleaving of the calls and whichever of them fail.                    *)
CL == INSTANCE CommandLog
        WITH Capacity <- MAX_OPS, log <- Log, partial <- Unterminated

ImplementsCommandLog == CL!Spec

(* "The number of bytes successfully written" (aesd_write): nothing but     *)
(* bytes some write handed over is ever in a command.                       *)
OnlyWrittenBytes ==
  \A i \in 1 .. Count(buffer) : \A k \in 1 .. Len(Log[i]) :
    Log[i][k] # GARBAGE

(* A read delivers the bytes of the concatenated commands from the file's   *)
(* position on, as many as it says; it delivers none only at or beyond the  *)
(* end, or if it asked for none.  aesd_read with the search of the buffer.  *)
ReadsTheConcatenation ==
  [][\A t \in Threads :
       (pc[t] = "read_body" /\ pc'[t] = "advance") =>
         /\ out'[t] = SubSeq(Concatenation, pos[t] + 1, pos[t] + ret'[t])
         /\ pos'[t] = pos[t] + Len(out'[t]) /\ ret'[t] = Len(out'[t])
         /\ ret'[t] = 0 => \/ pos[t] >= Len(Concatenation)
                           \/ 0 \in ReadCounts]_vars

(* The seek's target: the given byte of the given command, counted from the *)
(* oldest one kept, or no such place.                                       *)
Place(write_cmd, write_cmd_offset) ==
  IF write_cmd < Len(Log) /\ write_cmd_offset < Len(Log[write_cmd + 1])
  THEN Len(FlattenSeq(SubSeq(Log, 1, write_cmd))) + write_cmd_offset
  ELSE EINVAL

SeeksTo(t, to) ==
  IF to < 0
  THEN ret'[t] = EINVAL /\ UNCHANGED f_pos
  ELSE ret'[t] = 0 /\ f_pos' = [f_pos EXCEPT ![file[t]] = to]

(* AESDCHAR_IOCSEEKTO moves to the given byte of "the zero referenced write *)
(* command" (aesd_ioctl.h), counted over the commands the device holds.     *)
SeekReachesCommand ==
  [][\A t \in Threads, c \in Commands :
       AdjustFileOffset(t, c[1], c[2]) => SeeksTo(t, Place(c[1], c[2]))]_vars

(* The same as long as the oldest command kept is in slot 0.                *)
SeekReachesUnwrappedCommand ==
  [][\A t \in Threads, c \in Commands :
       buffer.out_offs = 0 /\ AdjustFileOffset(t, c[1], c[2])
         => SeeksTo(t, Place(c[1], c[2]))]_vars

(* The size llseek is bounded by never falls short of the concatenation,    *)
(* however the commands were cut into writes, so that every byte can be     *)
(* reached; and it is exact until the buffer is full.  (Beyond that it also *)
(* counts the commands evicted.)                                            *)
EveryByteSeekable ==
  /\ Len(Concatenation) <= buff_size
  /\ ~ buffer.full => buff_size = Len(Concatenation)

-----------------------------------------------------------------------------
(* Liveness *)

(* Every system call on the device returns, however often others get the    *)
(* mutex before it.                                                         *)
CallsReturn == \A t \in Threads : (pc[t] # "idle") ~> (pc[t] = "idle")
=============================================================================
