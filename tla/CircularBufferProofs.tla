------------------------ MODULE CircularBufferProofs ------------------------
(***************************************************************************)
(* For every capacity, every size and any number of additions: the struct's *)
(* indices and flag keep their shape, it holds the newest MAX_OPS entries   *)
(* in the order they were added, across every wrap, and the search finds    *)
(* every byte of them.  (NL, from DriverOpsProofs, plays no part.)          *)
(***************************************************************************)
EXTENDS CircularBufferUse, DriverOpsProofs

Entry == [buffptr : Nat, size : Sizes]

UseTypeOK ==
  /\ buffer \in Buffers(Entry \union {NoEntry})
  /\ added \in Seq(Entry)

(* Where the newest entries are: from the first slot on until the buffer is *)
(* full, from out_offs on and around afterwards.                            *)
NotYetFull ==
  /\ Len(added) < MAX_OPS
  /\ buffer.out_offs = 0 /\ buffer.in_offs = Len(added)
  /\ \A i \in Slots :
       buffer.entry[i] = IF i < Len(added) THEN added[i + 1] ELSE NoEntry

Full ==
  /\ Len(added) >= MAX_OPS
  /\ buffer.out_offs = buffer.in_offs
  /\ \A j \in Slots :
       buffer.entry[Wrapped(buffer.in_offs + j)] =
         added[Len(added) - MAX_OPS + 1 + j]

PlaceInv ==
  IF buffer.full THEN Full ELSE NotYetFull

UseInv == UseTypeOK /\ PlaceInv

-----------------------------------------------------------------------------

LEMMA UseInitInv == UseInit => UseInv
<1> SUFFICES ASSUME UseInit
             PROVE  UseInv
  OBVIOUS
<1>1. MAX_OPS \in Nat \ {0}
  BY MaxOpsAssumption
<1>2. UseTypeOK
  BY <1>1 DEF UseInit, UseTypeOK, InitBuffer, Buffers, Slots
<1>3. ~ buffer.full /\ NotYetFull
  BY <1>1 DEF UseInit, NotYetFull, InitBuffer, Slots
<1> QED
  BY <1>2, <1>3 DEF UseInv, PlaceInv

LEMMA AddKeeps ==
  ASSUME UseInv, NEW size \in Sizes, Add(size)
  PROVE  UseInv'
<1> DEFINE e == [buffptr |-> Len(added) + 1, size |-> size]
           n == Len(added)
           in == buffer.in_offs
<1>1. /\ added \in Seq(Entry) /\ n \in Nat /\ e \in Entry
      /\ added' = Append(added, e)
  BY DEF UseInv, UseTypeOK, Add, Entry
<1>2. /\ added' \in Seq(Entry) /\ Len(added') = n + 1 /\ added'[n + 1] = e
      /\ \A i \in 1 .. n : added'[i] = added[i]
  BY <1>1
<1>3. /\ in \in Slots /\ buffer.out_offs \in Slots /\ buffer.full \in BOOLEAN
      /\ buffer.entry \in [Slots -> Entry \union {NoEntry}]
      /\ MAX_OPS \in Nat \ {0}
  BY MaxOpsAssumption DEF UseInv, UseTypeOK, Buffers
<1>4. Advance(in) = Wrapped(in + 1) /\ Advance(in) \in Slots
  BY <1>3, AdvanceWraps
<1>5. /\ buffer' = AddEntry(buffer, e)
      /\ buffer'.entry = [buffer.entry EXCEPT ![in] = e]
      /\ buffer'.in_offs = Advance(in)
      /\ buffer'.out_offs = IF buffer.full THEN Advance(in)
                            ELSE buffer.out_offs
      /\ buffer'.full = (buffer'.in_offs = buffer'.out_offs)
  BY DEF Add, AddEntry
<1>6. UseTypeOK'
  <2>1. buffer' \in Buffers(Entry \union {NoEntry})
    BY <1>1, <1>3, <1>4, <1>5 DEF AddEntry, Buffers
  <2> QED
    BY <1>2, <2>1 DEF UseTypeOK
<1> HIDE DEF e, n, in
<1>7. CASE ~ buffer.full
  <2>1. n < MAX_OPS /\ buffer.out_offs = 0 /\ in = n
        /\ \A i \in Slots :
             buffer.entry[i] = IF i < n THEN added[i + 1] ELSE NoEntry
    BY <1>7 DEF UseInv, PlaceInv, NotYetFull, n, in
  <2>2. \A i \in Slots :
          buffer'.entry[i] = IF i < n + 1 THEN added'[i + 1] ELSE NoEntry
    BY <1>1, <1>2, <1>3, <1>5, <2>1 DEF Slots
  <2>3. CASE n + 1 < MAX_OPS
    <3>1. ~ buffer'.full /\ buffer'.in_offs = n + 1 /\ buffer'.out_offs = 0
      BY <1>1, <1>3, <1>4, <1>5, <1>7, <2>1, <2>3 DEF Wrapped
    <3> QED
      BY <1>2, <1>6, <2>2, <2>3, <3>1 DEF UseInv, PlaceInv, NotYetFull
  <2>4. CASE n + 1 = MAX_OPS
    <3>0. buffer'.in_offs = 0 /\ buffer'.out_offs = 0
      BY <1>1, <1>3, <1>4, <1>5, <1>7, <2>1, <2>4 DEF Wrapped
    <3>1. buffer'.full /\ buffer'.in_offs = 0 /\ buffer'.out_offs = 0
      BY <1>5, <3>0
    <3>2. \A j \in Slots : buffer'.entry[Wrapped(0 + j)] = added'[0 + 1 + j]
      BY <1>3, <2>2, <2>4 DEF Wrapped, Slots
    <3>3. Len(added') - MAX_OPS = 0
      BY <1>2, <1>3, <2>4
    <3> QED
      BY <1>2, <1>3, <1>6, <2>4, <3>1, <3>2, <3>3 DEF UseInv, PlaceInv, Full
  <2> QED
    BY <1>1, <1>3, <2>1, <2>3, <2>4
<1>8. CASE buffer.full
  <2>1. /\ n >= MAX_OPS /\ buffer.out_offs = in
        /\ \A j \in Slots :
             buffer.entry[Wrapped(in + j)] = added[n - MAX_OPS + 1 + j]
    BY <1>8 DEF UseInv, PlaceInv, Full, n, in
  <2>2. buffer'.full /\ buffer'.in_offs = Wrapped(in + 1)
        /\ buffer'.out_offs = Wrapped(in + 1)
    BY <1>4, <1>5, <1>8
  <2>3. ASSUME NEW j \in Slots
        PROVE  buffer'.entry[Wrapped(Wrapped(in + 1) + j)] =
                 added'[n + 1 - MAX_OPS + 1 + j]
    <3>1. CASE j = MAX_OPS - 1
      <4>1. Wrapped(Wrapped(in + 1) + j) = in
        BY <1>3, <3>1 DEF Wrapped, Slots
      <4>2. n + 1 - MAX_OPS + 1 + j = n + 1
        BY <1>1, <1>3, <3>1
      <4> QED
        BY <1>2, <1>3, <1>5, <4>1, <4>2
    <3>2. CASE j < MAX_OPS - 1
      <4>1. j + 1 \in Slots /\ n - MAX_OPS + 1 + (j + 1) \in 1 .. n
        BY <1>1, <1>3, <2>1, <3>2 DEF Slots
      <4>2. /\ Wrapped(Wrapped(in + 1) + j) = Wrapped(in + (j + 1))
            /\ Wrapped(in + (j + 1)) \in Slots /\ Wrapped(in + (j + 1)) # in
        BY <1>3, <3>2 DEF Wrapped, Slots
      <4>3. buffer'.entry[Wrapped(in + (j + 1))]
              = added[n - MAX_OPS + 1 + (j + 1)]
        BY <1>3, <1>5, <2>1, <4>1, <4>2
      <4>4. n + 1 - MAX_OPS + 1 + j = n - MAX_OPS + 1 + (j + 1)
        BY <1>1, <1>3, <3>2 DEF Slots
      <4> QED
        BY <1>2, <4>1, <4>2, <4>3, <4>4
    <3> QED
      BY <1>3, <3>1, <3>2 DEF Slots
  <2>4. Len(added') >= MAX_OPS
    BY <1>1, <1>2, <1>3, <2>1
  <2>5. Full'
    <3>1. ASSUME NEW j \in Slots
          PROVE  buffer'.entry[Wrapped(buffer'.in_offs + j)] =
                   added'[Len(added') - MAX_OPS + 1 + j]
      <4>1. Len(added') - MAX_OPS + 1 + j = n + 1 - MAX_OPS + 1 + j
        BY <1>1, <1>2, <1>3 DEF Slots
      <4>2. Wrapped(buffer'.in_offs + j) = Wrapped(Wrapped(in + 1) + j)
        BY <2>2
      <4> QED
        BY <2>3, <4>1, <4>2, Zenon
    <3> QED
      BY <2>2, <2>4, <3>1 DEF Full
  <2> QED
    BY <1>6, <2>2, <2>5 DEF UseInv, PlaceInv
<1> QED
  BY <1>3, <1>7, <1>8

LEMMA UseStep == UseInv /\ [UseNext]_useVars => UseInv'
<1> SUFFICES ASSUME UseInv, [UseNext]_useVars
             PROVE  UseInv'
  OBVIOUS
<1>1. CASE UseNext
  BY <1>1, AddKeeps DEF UseNext
<1>2. CASE UNCHANGED useVars
  BY <1>2 DEF useVars, UseInv, UseTypeOK, PlaceInv, Full, NotYetFull
<1> QED
  BY <1>1, <1>2

LEMMA UseInvariant == UseSpec => []UseInv
  BY UseInitInv, UseStep, PTL DEF UseSpec

-----------------------------------------------------------------------------

LEMMA InvShape ==
  ASSUME UseInv
  PROVE  Shape
<1>1. /\ buffer.in_offs \in Slots /\ buffer.out_offs \in Slots
      /\ buffer.full \in BOOLEAN
  BY DEF UseInv, UseTypeOK, Buffers
<1>2. CASE buffer.full
  BY <1>1, <1>2 DEF Shape, WellShaped, UseInv, PlaceInv, Full
<1>3. CASE ~ buffer.full
  <2>1. \A i \in Slots : i >= buffer.in_offs => buffer.entry[i] = NoEntry
    BY <1>1, <1>3 DEF UseInv, PlaceInv, NotYetFull, Slots
  <2> QED
    BY <1>1, <1>3, <2>1 DEF Shape, WellShaped, UseInv, PlaceInv, NotYetFull
<1> QED
  BY <1>2, <1>3

(* The indices and the flag keep the shape add_entry relies on.             *)
THEOREM ShapeKept == UseSpec => []Shape
  BY UseInvariant, InvShape, PTL

LEMMA InvNewest ==
  ASSUME UseInv
  PROVE  KeepsNewest
<1> DEFINE n == Len(added)
           from == IF n > MAX_OPS THEN n - MAX_OPS + 1 ELSE 1
           newest == SubSeq(added, from, n)
<1>1. /\ added \in Seq(Entry) /\ n \in Nat /\ MAX_OPS \in Nat \ {0}
      /\ buffer.in_offs \in Slots /\ buffer.full \in BOOLEAN
  BY MaxOpsAssumption DEF UseInv, UseTypeOK, Buffers
<1>2. from \in Int /\ \A i \in from .. n : added[i] \in Entry
  BY <1>1
<1>3. /\ newest \in Seq(Entry)
      /\ Len(newest) = IF from <= n THEN n - from + 1 ELSE 0
      /\ \A i \in 1 .. n - from + 1 : newest[i] = added[from + i - 1]
  BY <1>1, <1>2, SubSeqProperties
<1> HIDE DEF newest
<1>4. Count(buffer) = Len(newest)
  <2>1. CASE buffer.full
    BY <1>1, <1>3, <2>1 DEF Count, UseInv, PlaceInv, Full
  <2>2. CASE ~ buffer.full
    <3>1. n < MAX_OPS /\ buffer.in_offs = n /\ buffer.out_offs = 0
      BY <2>2 DEF UseInv, PlaceInv, NotYetFull
    <3>2. (buffer.in_offs - buffer.out_offs) % MAX_OPS = n
      <4>1. buffer.in_offs - buffer.out_offs = n
            /\ n \in 0 .. (2 * MAX_OPS - 1)
        BY <1>1, <3>1
      <4>2. n % MAX_OPS = n
        BY <3>1, <4>1, ModWraps DEF Wrapped
      <4> QED
        BY <4>1, <4>2
    <3> QED
      BY <1>1, <1>3, <2>2, <3>1, <3>2 DEF Count
  <2> QED
    BY <1>1, <2>1, <2>2
<1>5. ASSUME NEW i \in 1 .. Count(buffer)
      PROVE  buffer.entry[Slot(buffer, i - 1)] = newest[i]
  <2>1. CASE buffer.full
    <3>1. /\ n >= MAX_OPS /\ buffer.out_offs = buffer.in_offs
          /\ \A j \in Slots : buffer.entry[Wrapped(buffer.in_offs + j)] =
                              added[n - MAX_OPS + 1 + j]
      BY <2>1 DEF UseInv, PlaceInv, Full
    <3>2. i - 1 \in Slots /\ i \in 1 .. n - from + 1
          /\ buffer.out_offs + (i - 1) \in 0 .. (2 * MAX_OPS - 1)
      BY <1>1, <1>3, <1>4, <2>1, <3>1 DEF Count, Slots
    <3>3. Slot(buffer, i - 1) = Wrapped(buffer.in_offs + (i - 1))
      BY <3>1, <3>2, ModWraps DEF Slot
    <3>4. n - MAX_OPS + 1 + (i - 1) = from + i - 1
      <4>1. from = n - MAX_OPS + 1 /\ i \in Int
        BY <1>1, <3>1, <3>2
      <4> QED
        BY <1>1, <4>1
    <3> QED
      BY <1>3, <3>1, <3>2, <3>3, <3>4
  <2>2. CASE ~ buffer.full
    <3>1. /\ n < MAX_OPS /\ buffer.out_offs = 0
          /\ \A k \in Slots :
               buffer.entry[k] = IF k < n THEN added[k + 1] ELSE NoEntry
      BY <2>2 DEF UseInv, PlaceInv, NotYetFull
    <3>2. i \in 1 .. n /\ from = 1
      BY <1>1, <1>3, <1>4, <3>1
    <3>3. i - 1 \in Slots /\ i - 1 < n /\ 0 + (i - 1) = i - 1
          /\ i - 1 \in 0 .. (2 * MAX_OPS - 1)
      BY <1>1, <3>1, <3>2 DEF Slots
    <3>4. Slot(buffer, i - 1) = i - 1
      BY <1>1, <3>1, <3>3, ModWraps DEF Slot, Wrapped, Slots
    <3>5. newest[i] = added[i]
      BY <1>1, <1>3, <3>2
    <3> QED
      BY <3>1, <3>2, <3>3, <3>4, <3>5
  <2> QED
    BY <1>1, <2>1, <2>2
<1>6. newest = [i \in 1 .. Count(buffer) |-> newest[i]]
  BY <1>3, <1>4
<1>7. Contents(buffer) = newest
  BY <1>5, <1>6 DEF Contents
<1> QED
  BY <1>7 DEF KeepsNewest, newest

(* However often the indices wrapped, the struct holds exactly the newest   *)
(* MAX_OPS entries, oldest first.                                           *)
THEOREM NewestKept == UseSpec => []KeepsNewest
  BY UseInvariant, InvNewest, PTL

-----------------------------------------------------------------------------
(* The search. *)

LEMMA InvFinds ==
  ASSUME UseInv
  PROVE  FindAgreesWithConcatenation
<1> DEFINE Place == [slot : Int, byte : Int]
           n == Count(buffer)
           Of(i) == [k \in 1 .. Contents(buffer)[i].size |->
                       [slot |-> Slot(buffer, i - 1), byte |-> k - 1]]
           seqs == [i \in 1 .. n |-> Of(i)]
<1>1. /\ buffer \in Buffers(Entry \union {NoEntry}) /\ WellShaped(buffer)
      /\ MAX_OPS \in Nat
  BY InvShape, MaxOpsAssumption DEF UseInv, UseTypeOK, Shape
<1>2. /\ n \in Nat
      /\ \A i \in 1 .. n : Slot(buffer, i - 1) \in Slots
  BY <1>1, ContentsPlaces DEF Filled
<1>3. \A j \in Slots : buffer.entry[j].size \in Nat
  <2>1. \A j \in Slots : buffer.entry[j] \in Entry \union {NoEntry}
    BY <1>1 DEF Buffers
  <2>2. SUFFICES ASSUME NEW j \in Slots
                 PROVE  buffer.entry[j].size \in Nat
    OBVIOUS
  <2>3. CASE buffer.entry[j] \in Entry
    <3>1. buffer.entry[j].size \in Sizes
      BY <2>3 DEF Entry
    <3> QED
      BY <3>1, UseAssumption
  <2>4. CASE buffer.entry[j] = NoEntry
    BY <2>4 DEF NoEntry
  <2> QED
    BY <2>1, <2>3, <2>4
<1>4. ASSUME NEW i \in 1 .. n
      PROVE  /\ Of(i) \in Seq(Place)
             /\ Len(Of(i)) = buffer.entry[Slot(buffer, i - 1)].size
             /\ \A k \in 1 .. Len(Of(i)) :
                  Of(i)[k] = [slot |-> Slot(buffer, i - 1), byte |-> k - 1]
  <2>1. Contents(buffer)[i] = buffer.entry[Slot(buffer, i - 1)]
    BY DEF Contents
  <2>2. PICK m \in Nat : m = Contents(buffer)[i].size
                         /\ m = buffer.entry[Slot(buffer, i - 1)].size
    BY <1>2, <1>3, <2>1
  <2>3. PICK sl \in Int : sl = Slot(buffer, i - 1)
    BY <1>2 DEF Slots
  <2>4. Of(i) = [k \in 1 .. m |-> [slot |-> sl, byte |-> k - 1]]
    BY <2>2, <2>3
  <2>5. [k \in 1 .. m |-> [slot |-> sl, byte |-> k - 1]] \in [1 .. m -> Place]
    OBVIOUS
  <2> HIDE DEF Of, Place
  <2>6. Of(i) \in Seq(Place) /\ Len(Of(i)) = m
    BY <2>4, <2>5
  <2> QED
    BY <2>2, <2>3, <2>4, <2>6
<1> HIDE DEF Of, Place, n
<1>5. seqs \in Seq(Seq(Place)) /\ Len(seqs) = n
  <2> DEFINE S == Seq(Place)
  <2>1. seqs \in [1 .. n -> S]
    BY <1>4
  <2> HIDE DEF S, seqs
  <2>2. seqs \in Seq(S) /\ Len(seqs) = n
    BY <1>2, <2>1
  <2> QED
    BY <2>2 DEF S
<1>6. \A i \in 1 .. n : seqs[i] = Of(i)
  OBVIOUS
<1>7. Concatenation = FlattenSeq(seqs)
  BY DEF Concatenation, Of, n
<1> HIDE DEF seqs
<1>8. Carries(buffer, seqs, Place)
  BY <1>4, <1>5, <1>6 DEF Carries, n
<1>9. ASSUME NEW off \in Nat
      PROVE  FindEntry(buffer, off) =
               IF off < Len(Concatenation)
               THEN Concatenation[off + 1] ELSE NotFound
  <2>0. Len(FlattenSeq(seqs)) \in Nat
    BY <1>5, FlattenTyped
  <2>1. IF off >= Len(FlattenSeq(seqs))
        THEN FindEntry(buffer, off) = NotFound
        ELSE \E i \in 1 .. Count(buffer) : \E k \in 1 .. Len(seqs[i]) :
               /\ off + 1 = Len(Upto(seqs, i - 1)) + k
               /\ FindEntry(buffer, off) =
                    [slot |-> Slot(buffer, i - 1), byte |-> k - 1]
    <3> DEFINE E == Entry \union {NoEntry}
    <3>1. buffer \in Buffers(E)
      BY <1>1
    <3> HIDE DEF E
    <3>2. Finds(buffer, seqs, off)
      BY <1>1, <1>8, <3>1, FindsPlace
    <3> QED
      BY <3>2 DEF Finds
  <2>2. CASE off >= Len(FlattenSeq(seqs))
    BY <1>7, <2>0, <2>1, <2>2
  <2>3. CASE ~ (off >= Len(FlattenSeq(seqs)))
    <3>1. PICK i \in 1 .. n : \E k \in 1 .. Len(seqs[i]) :
               /\ off + 1 = Len(Upto(seqs, i - 1)) + k
               /\ FindEntry(buffer, off) =
                    [slot |-> Slot(buffer, i - 1), byte |-> k - 1]
      BY <2>1, <2>3 DEF n
    <3>2. PICK k \in 1 .. Len(seqs[i]) :
               /\ off + 1 = Len(Upto(seqs, i - 1)) + k
               /\ FindEntry(buffer, off) =
                    [slot |-> Slot(buffer, i - 1), byte |-> k - 1]
      BY <3>1
    <3>3. i \in 1 .. Len(seqs) /\ seqs \in Seq(Seq(Place))
      BY <1>5
    <3>4. FlattenSeq(seqs)[off + 1] = seqs[i][k]
      <4>1. PICK at : at = off + 1
        OBVIOUS
      <4> QED
        BY <3>2, <3>3, <4>1, FlattenByte
    <3>5. seqs[i][k] = [slot |-> Slot(buffer, i - 1), byte |-> k - 1]
      BY <1>4, <1>6
    <3> QED
      BY <1>7, <2>0, <2>3, <3>2, <3>4, <3>5
  <2> QED
    BY <2>2, <2>3
<1>10. Len(Concatenation) \in Nat
  BY <1>5, <1>7, FlattenTyped
<1> QED
  BY <1>9, <1>10 DEF FindAgreesWithConcatenation

(* Whatever was added, and however the indices wrapped, the search finds    *)
(* the slot and the byte of every position, and nothing past the end.       *)
THEOREM SearchIsExact == UseSpec => []FindAgreesWithConcatenation
  BY UseInvariant, InvFinds, PTL
=============================================================================
