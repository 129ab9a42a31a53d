--------------------------- MODULE CircularBuffer ---------------------------
(***************************************************************************)
(* The circular buffer of aesd-char-driver/aesd-circular-buffer.c: an array *)
(* of entries with a write index in_offs, a read index out_offs and a flag  *)
(* that tells a full buffer from an empty one.  The C functions are pure    *)
(* but for the struct they update, so they are operators on a record here;  *)
(* locking is the caller's business, in C as well.                          *)
(***************************************************************************)
EXTENDS Integers, Sequences

CONSTANTS
  MAX_OPS,   \* AESDCHAR_MAX_WRITE_OPERATIONS_SUPPORTED, 10 in the code
  NULL       \* the null pointer

ASSUME MaxOpsAssumption == MAX_OPS \in Nat \ {0}

Slots == 0 .. (MAX_OPS - 1)

NoEntry == [buffptr |-> NULL, size |-> 0]

-----------------------------------------------------------------------------

(* aesd_circular_buffer_init: everything zero. *)
InitBuffer ==
  [entry |-> [i \in Slots |-> NoEntry],
   in_offs |-> 0, out_offs |-> 0, full |-> FALSE]

(* Faulty variant: an index that does not wrap. *)
AdvanceNoWrap(i) == i + 1

Advance(i) == (i + 1) % MAX_OPS

(* aesd_circular_buffer_add_entry.  The faulty variants advance only        *)
(* in_offs on a full buffer (AddEntryKeepOut), or never notice that the     *)
(* buffer became full (AddEntryNotFull).                                    *)
AddEntryKeepOut(b, e) ==
  [entry |-> [b.entry EXCEPT ![b.in_offs] = e],
   in_offs |-> Advance(b.in_offs), out_offs |-> b.out_offs,
   full |-> Advance(b.in_offs) = b.out_offs]

AddEntryNotFull(b, e) ==
  [entry |-> [b.entry EXCEPT ![b.in_offs] = e],
   in_offs |-> Advance(b.in_offs), out_offs |-> b.out_offs, full |-> b.full]

AddEntry(b, e) ==
  LET next == Advance(b.in_offs)
      out  == IF b.full THEN next ELSE b.out_offs
  IN  [entry |-> [b.entry EXCEPT ![b.in_offs] = e],
       in_offs |-> next, out_offs |-> out, full |-> (next = out)]

-----------------------------------------------------------------------------

(* The slot the search visits at its step j, and the steps it gets to: it   *)
(* stops at in_offs unless the buffer is full, and after MAX_OPS steps.     *)
Slot(b, j) == (b.out_offs + j) % MAX_OPS

Scanned(b) ==
  {j \in Slots : \A k \in 0 .. j : b.full \/ Slot(b, k) # b.in_offs}

(* accumulated_byte_count when the search is at step j. *)
Accumulated(b) ==
  LET bytes[j \in 0 .. MAX_OPS] ==
        IF j = 0 THEN 0 ELSE bytes[j - 1] + b.entry[Slot(b, j - 1)].size
  IN  bytes

(* Faulty variant: an offset at the end of an entry taken to be inside it.  *)
HitsClosed(b, char_offset) ==
  {j \in Scanned(b) :
     Accumulated(b)[j] + b.entry[Slot(b, j)].size >= char_offset}

Hits(b, char_offset) ==
  {j \in Scanned(b) :
     Accumulated(b)[j] + b.entry[Slot(b, j)].size > char_offset}

NotFound == [slot |-> -1, byte |-> 0]

(* aesd_circular_buffer_find_entry_offset_for_fpos: the first entry that    *)
(* reaches past char_offset, and the byte of it that char_offset denotes.   *)
FindEntry(b, char_offset) ==
  LET hits == Hits(b, char_offset)
      j    == CHOOSE h \in hits : \A k \in hits : h <= k
  IN  IF hits = {}
      THEN NotFound
      ELSE [slot |-> Slot(b, j), byte |-> char_offset - Accumulated(b)[j]]

-----------------------------------------------------------------------------

(* What the struct stands for: its entries, oldest first. *)
Count(b) ==
  IF b.full THEN MAX_OPS ELSE (b.in_offs - b.out_offs) % MAX_OPS

Contents(b) == [i \in 1 .. Count(b) |-> b.entry[Slot(b, i - 1)]]

Buffers(Entries) ==
  [entry : [Slots -> Entries], in_offs : Slots, out_offs : Slots,
   full : BOOLEAN]

(* The shapes add_entry can produce from an initialised struct: out_offs    *)
(* leaves 0 only once the buffer is full, and it then stays full.           *)
WellShaped(b) ==
  /\ b.full => b.in_offs = b.out_offs
  /\ ~ b.full => b.out_offs = 0
  /\ \A i \in Slots : (~ b.full /\ i >= b.in_offs) => b.entry[i] = NoEntry
=============================================================================
