-------------------------- MODULE CircularBufferUse --------------------------
(***************************************************************************)
(* The circular buffer in the hands of a caller that adds entries of any    *)
(* small size and looks positions up, as the driver and the unit test       *)
(* test/assignment7/Test_circular_buffer.c do.  The entry's buffptr is the  *)
(* number of the call that added it, so every entry is distinguishable.     *)
(***************************************************************************)
EXTENDS CircularBuffer, SequencesExt

CONSTANTS
  Sizes,    \* the sizes an entry may have
  MaxAdds   \* bound: the number of entries ever added

ASSUME UseAssumption == Sizes \subseteq Nat

VARIABLES
  buffer,   \* struct aesd_circular_buffer
  added     \* history: every entry added, oldest first

useVars == <<buffer, added>>

UseInit == buffer = InitBuffer /\ added = <<>>

Add(size) ==
  LET e == [buffptr |-> Len(added) + 1, size |-> size]
  IN  /\ Len(added) < MaxAdds
      /\ buffer' = AddEntry(buffer, e)
      /\ added' = Append(added, e)

UseNext == \E size \in Sizes : Add(size)

UseSpec == UseInit /\ [][UseNext]_useVars

-----------------------------------------------------------------------------

(* The offsets stay in the array and the flag tells full from empty the way *)
(* add_entry keeps them (aesd-circular-buffer.c:77-85).                     *)
Shape ==
  /\ buffer.in_offs \in Slots /\ buffer.out_offs \in Slots
  /\ buffer.full \in BOOLEAN
  /\ WellShaped(buffer)

(* The struct holds exactly the newest MAX_OPS entries, in the order they   *)
(* were added: nothing is dropped early, kept too long or reordered when    *)
(* the indices wrap (aesd-circular-buffer.c:74-85).                         *)
KeepsNewest ==
  LET n == Len(added)
  IN  Contents(buffer) =
        SubSeq(added, IF n > MAX_OPS THEN n - MAX_OPS + 1 ELSE 1, n)

(* The bytes of all entries, oldest first, each as the slot it is in and    *)
(* its place in that slot's entry: the concatenation the comment on the     *)
(* search speaks of (aesd-circular-buffer.c:21-22).                         *)
Concatenation ==
  FlattenSeq([i \in 1 .. Count(buffer) |->
    [k \in 1 .. Contents(buffer)[i].size |->
       [slot |-> Slot(buffer, i - 1), byte |-> k - 1]]])

(* The search finds, for every position of the concatenation, the slot and  *)
(* the byte that position denotes, and nothing for a position past the end, *)
(* also across the wrap and over entries of size 0                          *)
(* (aesd-circular-buffer.c:29-53).                                          *)
FindAgreesWithConcatenation ==
  \A char_offset \in 0 .. Len(Concatenation) + 1 :
    FindEntry(buffer, char_offset) =
      IF char_offset < Len(Concatenation)
      THEN Concatenation[char_offset + 1]
      ELSE NotFound
=============================================================================
