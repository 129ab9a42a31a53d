-------------------------- MODULE DriverOpsProofs --------------------------
(***************************************************************************)
(* What the operators the modules are built from compute, for every         *)
(* capacity and all data: flattened sequences, the buffer's entries as a    *)
(* sequence, its search, the seek commands, and where a write is cut.       *)
(*                                                                         *)
(* FlattenSeq, the search's byte count and the seek's are recursive.  An     *)
(* induction over them is one over a set of numbers or sequences here       *)
(* (CountUp, GrowUp), for which a least counterexample exists               *)
(* (LeastNatural).                                                          *)
(***************************************************************************)
EXTENDS DriverOps, SequencesExt, SequenceTheorems, NaturalsInduction,
        WellFoundedInduction, TLAPS

(* A nonempty set of naturals has a least element. *)
LEMMA LeastNatural ==
  ASSUME NEW S \in SUBSET Nat, S # {}
  PROVE  \E x \in S : \A y \in S : x <= y
<1> DEFINE R == OpToRel(<, Nat)
<1>1. IsWellFoundedOn(R, Nat)
  BY NatLessThanWellFounded
<1>2. PICK x \in S : \A y \in S : <<y, x>> \notin R
  BY <1>1, WFMin, Zenon
<1>3. \A y \in S : ~ (y < x)
  BY <1>2 DEF OpToRel
<1> QED
  BY <1>3

(* Induction up to n, for a set: what the base and the steps put into G.    *)
LEMMA CountUp ==
  ASSUME NEW n \in Nat, NEW G, 0 \in G,
         \A k \in 0 .. n : k \in G /\ k < n => k + 1 \in G
  PROVE  \A k \in 0 .. n : k \in G
<1> SUFFICES ASSUME (0 .. n) \ G # {} PROVE FALSE
  OBVIOUS
<1>0. (0 .. n) \ G \in SUBSET Nat
  OBVIOUS
<1>1. PICK x \in (0 .. n) \ G : \A y \in (0 .. n) \ G : x <= y
  BY <1>0, LeastNatural
<1>2. x # 0 /\ x - 1 \in 0 .. n /\ x - 1 < n
  BY <1>1
<1>3. x - 1 \in G
  BY <1>1, <1>2
<1> QED
  BY <1>1, <1>2, <1>3

-----------------------------------------------------------------------------
(* FlattenSeq is defined by recursion over the index; this is the equation. *)

FlattensAs(f, seqs, n) ==
  f = [i \in 1 .. n |-> IF i = 1 THEN seqs[i] ELSE f[i - 1] \o seqs[i]]

HasFlattening(seqs, n) == \E f : FlattensAs(f, seqs, n)

LEMMA FlattenAt ==
  ASSUME NEW f, NEW seqs, NEW n \in Nat, FlattensAs(f, seqs, n),
         NEW i \in 1 .. n
  PROVE  f[i] = IF i = 1 THEN seqs[i] ELSE f[i - 1] \o seqs[i]
  BY DEF FlattensAs

LEMMA FlattenStep ==
  ASSUME NEW seqs, NEW n \in Nat, HasFlattening(seqs, n)
  PROVE  HasFlattening(seqs, n + 1)
<1>1. PICK f : FlattensAs(f, seqs, n)
  BY DEF HasFlattening
<1> DEFINE g == [i \in 1 .. n + 1 |->
                   IF i = n + 1
                   THEN IF i = 1 THEN seqs[i] ELSE f[n] \o seqs[i]
                   ELSE f[i]]
<1>2. ASSUME NEW i \in 1 .. n + 1
      PROVE  g[i] = IF i = 1 THEN seqs[i] ELSE g[i - 1] \o seqs[i]
  <2>1. CASE i = n + 1
    <3>1. i # 1 => i - 1 \in 1 .. n + 1 /\ i - 1 # n + 1 /\ i - 1 = n
      BY <2>1
    <3>2. i # 1 => g[i - 1] = f[n]
      BY <3>1
    <3> QED
      BY <2>1, <3>2
  <2>2. CASE i # n + 1
    <3>1. i \in 1 .. n /\ (i # 1 => i - 1 \in 1 .. n + 1 /\ i - 1 # n + 1)
      BY <2>2
    <3>2. f[i] = IF i = 1 THEN seqs[i] ELSE f[i - 1] \o seqs[i]
      BY <1>1, <3>1, FlattenAt
    <3> QED
      BY <2>2, <3>1, <3>2
  <2> QED
    BY <2>1, <2>2
<1> HIDE DEF g
<1>3. g = [i \in 1 .. n + 1 |->
             IF i = 1 THEN seqs[i] ELSE g[i - 1] \o seqs[i]]
  <2>1. g = [i \in 1 .. n + 1 |-> g[i]]
    BY DEF g
  <2> QED
    BY <1>2, <2>1, Zenon
<1> QED
  BY <1>3 DEF HasFlattening, FlattensAs

LEMMA FlattenExists ==
  ASSUME NEW seqs, NEW n \in Nat
  PROVE  HasFlattening(seqs, n)
<1> DEFINE G == {m \in Nat : HasFlattening(seqs, m)}
<1>1. 0 \in G
  <2>1. FlattensAs([i \in 1 .. 0 |-> 0], seqs, 0)
    BY DEF FlattensAs
  <2> QED
    BY <2>1 DEF HasFlattening
<1>2. \A k \in 0 .. n : k \in G /\ k < n => k + 1 \in G
  BY FlattenStep
<1> HIDE DEF G
<1>3. n \in G
  BY <1>1, <1>2, CountUp
<1> QED
  BY <1>3 DEF G

Agree(s, r, m) == \A i \in 1 .. m : s[i] = r[i]

(* Two flattenings of a common prefix agree on it. *)
LEMMA FlattenAgrees ==
  ASSUME NEW s, NEW r, NEW m \in Nat, NEW n \in Nat, NEW f, NEW g, m <= n,
         FlattensAs(f, s, m), FlattensAs(g, r, n),
         Agree(s, r, m)
  PROVE  Agree(f, g, m)
<1> DEFINE G == {k \in Nat : k \in 1 .. m => f[k] = g[k]}
<1>1. 0 \in G
  OBVIOUS
<1>2. ASSUME NEW k \in 0 .. m, k \in G, k < m
      PROVE  k + 1 \in G
  <2>1. k + 1 \in 1 .. m /\ k + 1 \in 1 .. n
    BY <1>2
  <2>2. /\ f[k + 1] = IF k + 1 = 1 THEN s[k + 1] ELSE f[k + 1 - 1] \o s[k + 1]
        /\ g[k + 1] = IF k + 1 = 1 THEN r[k + 1] ELSE g[k + 1 - 1] \o r[k + 1]
    BY <2>1, FlattenAt
  <2>3. k + 1 # 1 => k \in 1 .. m /\ k + 1 - 1 = k
    BY <1>2
  <2>4. s[k + 1] = r[k + 1] /\ (k + 1 # 1 => f[k] = g[k])
    BY <1>2, <2>1, <2>3 DEF Agree
  <2>5. f[k + 1] = g[k + 1]
    BY <2>2, <2>3, <2>4
  <2> QED
    BY <2>5
<1> HIDE DEF G
<1>3. \A k \in 0 .. m : k \in G
  BY <1>1, <1>2, CountUp
<1> QED
  BY <1>3 DEF G, Agree

LEMMA FlattenIs ==
  ASSUME NEW seqs, Len(seqs) \in Nat, Len(seqs) # 0
  PROVE  \E f : FlattensAs(f, seqs, Len(seqs)) /\ FlattenSeq(seqs) = f[Len(seqs)]
<1> DEFINE h == CHOOSE f : FlattensAs(f, seqs, Len(seqs))
<1>1. PICK f : FlattensAs(f, seqs, Len(seqs))
  BY FlattenExists DEF HasFlattening
<1>2. FlattensAs(h, seqs, Len(seqs))
  BY <1>1
<1>3. FlattenSeq(seqs) = h[Len(seqs)]
  BY DEF FlattenSeq, FlattensAs
<1> QED
  BY <1>2, <1>3

-----------------------------------------------------------------------------
(* Induction over sequences, for a set. *)
LEMMA GrowUp ==
  ASSUME NEW S, NEW G, <<>> \in G,
         \A s \in Seq(S), e \in S : s \in G => Append(s, e) \in G
  PROVE  \A s \in Seq(S) : s \in G
<1> SUFFICES ASSUME NEW s \in Seq(S), s \notin G PROVE FALSE
  OBVIOUS
<1> DEFINE Missing(k) == \E r \in Seq(S) : r \notin G /\ Len(r) = k
           L == {k \in Nat : Missing(k)}
<1>1. L \in SUBSET Nat /\ L # {}
  OBVIOUS
<1>2. PICK k \in L : \A m \in L : k <= m
  BY <1>1, LeastNatural
<1>3. PICK r \in Seq(S) : r \notin G /\ Len(r) = k
  BY <1>2
<1>4. r # <<>>
  BY <1>3
<1>5. PICK q \in Seq(S), e \in S : r = Append(q, e)
  BY <1>4, SequenceEmptyOrAppend
<1>6. Len(q) \in Nat /\ Len(r) = Len(q) + 1
  BY <1>5, AppendProperties
<1>7. q \notin G
  BY <1>3, <1>5
<1>8. Len(q) \in L
  BY <1>6, <1>7
<1> QED
  BY <1>2, <1>3, <1>6, <1>8

-----------------------------------------------------------------------------
(* What FlattenSeq computes, by its last element. *)

LEMMA FlattenEmpty == FlattenSeq(<<>>) = <<>>
  BY DEF FlattenSeq

LEMMA FlattenLast ==
  ASSUME NEW S, NEW q \in Seq(Seq(S)), NEW s \in Seq(S)
  PROVE  FlattenSeq(Append(q, s)) =
           IF q = <<>> THEN s ELSE FlattenSeq(q) \o s
<1>1. PICK r \in Seq(Seq(S)) : r = Append(q, s)
  BY AppendProperties
<1>2. PICK n \in Nat : n = Len(q)
  OBVIOUS
<1>3. /\ Len(r) = n + 1 /\ r[n + 1] = s
      /\ \A i \in 1 .. n : r[i] = q[i]
  BY <1>1, <1>2, AppendProperties
<1>4. PICK g : FlattensAs(g, r, n + 1) /\ FlattenSeq(r) = g[n + 1]
  <2>0. Len(r) \in Nat /\ Len(r) # 0
    BY <1>3
  <2>1. PICK g : FlattensAs(g, r, Len(r)) /\ FlattenSeq(r) = g[Len(r)]
    BY <2>0, FlattenIs
  <2> QED
    BY <1>3, <2>1
<1>5. g[n + 1] = IF n + 1 = 1 THEN r[n + 1] ELSE g[n + 1 - 1] \o r[n + 1]
  BY <1>4, FlattenAt
<1>6. CASE q = <<>>
  BY <1>1, <1>2, <1>3, <1>4, <1>5, <1>6
<1>7. CASE q # <<>>
  <2>1. n # 0 /\ n \in 1 .. n /\ n + 1 - 1 = n
    BY <1>2, <1>7
  <2>2. PICK f : FlattensAs(f, q, n) /\ FlattenSeq(q) = f[n]
    BY <1>2, <2>1, FlattenIs
  <2>3. Agree(f, g, n)
    <3>1. n + 1 \in Nat /\ n <= n + 1 /\ Agree(q, r, n)
      BY <1>3 DEF Agree
    <3> QED
      BY <1>4, <2>2, <3>1, FlattenAgrees
  <2>4. f[n] = g[n]
    BY <2>1, <2>3 DEF Agree
  <2>5. g[n + 1] = g[n] \o s
    BY <1>3, <1>5, <2>1
  <2> QED
    BY <1>1, <1>4, <1>7, <2>2, <2>4, <2>5
<1> QED
  BY <1>6, <1>7

LEMMA FlattenTyped ==
  ASSUME NEW S, NEW seqs \in Seq(Seq(S))
  PROVE  FlattenSeq(seqs) \in Seq(S)
<1> DEFINE G == {q \in Seq(Seq(S)) : FlattenSeq(q) \in Seq(S)}
<1>1. <<>> \in G
  <2>1. <<>> \in Seq(Seq(S)) /\ <<>> \in Seq(S)
    OBVIOUS
  <2> QED
    BY <2>1, FlattenEmpty
<1>2. ASSUME NEW q \in Seq(Seq(S)), NEW s \in Seq(S), q \in G
      PROVE  Append(q, s) \in G
  <2>1. Append(q, s) \in Seq(Seq(S)) /\ FlattenSeq(q) \o s \in Seq(S)
    BY <1>2
  <2> QED
    BY <2>1, FlattenLast
<1> HIDE DEF G
<1>3. \A q \in Seq(Seq(S)) : q \in G
  BY <1>1, <1>2, GrowUp
<1> QED
  BY <1>3 DEF G

LEMMA FlattenAppend ==
  ASSUME NEW S, NEW q \in Seq(Seq(S)), NEW s \in Seq(S)
  PROVE  FlattenSeq(Append(q, s)) = FlattenSeq(q) \o s
<1>1. <<>> \o s = s
  OBVIOUS
<1> QED
  BY <1>1, FlattenLast, FlattenEmpty

LEMMA FlattenOne ==
  ASSUME NEW S, NEW s \in Seq(S)
  PROVE  FlattenSeq(<<s>>) = s
<1>1. <<s>> = Append(<<>>, s) /\ <<>> \in Seq(Seq(S))
  OBVIOUS
<1> QED
  BY <1>1, FlattenLast

LEMMA Associates ==
  ASSUME NEW S, NEW s \in Seq(S), NEW t \in Seq(S), NEW u \in Seq(S)
  PROVE  s \o (t \o u) = (s \o t) \o u
  BY ConcatAssociative

LEMMA FlattenConcat ==
  ASSUME NEW S, NEW p \in Seq(Seq(S)), NEW r \in Seq(Seq(S))
  PROVE  FlattenSeq(p \o r) = FlattenSeq(p) \o FlattenSeq(r)
<1> DEFINE G == {q \in Seq(Seq(S)) :
                   FlattenSeq(p \o q) = FlattenSeq(p) \o FlattenSeq(q)}
<1>1. <<>> \in G
  <2>1. FlattenSeq(p) \in Seq(S)
    BY FlattenTyped
  <2>2. /\ p \o <<>> = p /\ FlattenSeq(p) \o <<>> = FlattenSeq(p)
        /\ <<>> \in Seq(Seq(S))
    BY <2>1, ConcatEmptySeq
  <2> QED
    BY <2>2, FlattenEmpty, Zenon
<1>2. ASSUME NEW q \in Seq(Seq(S)), NEW s \in Seq(S), q \in G
      PROVE  Append(q, s) \in G
  <2>1. p \o Append(q, s) = Append(p \o q, s) /\ p \o q \in Seq(Seq(S))
    OBVIOUS
  <2>2. FlattenSeq(p \o Append(q, s)) = (FlattenSeq(p) \o FlattenSeq(q)) \o s
    BY <1>2, <2>1, FlattenAppend
  <2>3. FlattenSeq(p) \in Seq(S) /\ FlattenSeq(q) \in Seq(S)
    BY FlattenTyped
  <2>4. FlattenSeq(p) \o (FlattenSeq(q) \o s)
          = (FlattenSeq(p) \o FlattenSeq(q)) \o s
    <3> HIDE DEF G
    <3> QED
      BY <2>3, Associates
  <2>5. FlattenSeq(Append(q, s)) = FlattenSeq(q) \o s
    BY FlattenAppend
  <2>6. FlattenSeq(p \o Append(q, s)) = FlattenSeq(p) \o FlattenSeq(Append(q, s))
    BY <2>2, <2>4, <2>5, Zenon
  <2>7. Append(q, s) \in Seq(Seq(S))
    OBVIOUS
  <2> QED
    BY <2>6, <2>7, Zenon
<1> HIDE DEF G
<1>3. \A q \in Seq(Seq(S)) : q \in G
  BY <1>1, <1>2, GrowUp
<1> QED
  BY <1>3 DEF G

(* The flattening of the first i sequences. *)
Upto(seqs, i) == FlattenSeq(SubSeq(seqs, 1, i))

LEMMA UptoGrows ==
  ASSUME NEW S, NEW seqs \in Seq(Seq(S)), NEW i \in 1 .. Len(seqs)
  PROVE  /\ Upto(seqs, i - 1) \in Seq(S) /\ seqs[i] \in Seq(S)
         /\ Upto(seqs, i) = Upto(seqs, i - 1) \o seqs[i]
         /\ Len(Upto(seqs, i)) = Len(Upto(seqs, i - 1)) + Len(seqs[i])
<1>1. SubSeq(seqs, 1, i - 1) \in Seq(Seq(S)) /\ seqs[i] \in Seq(S)
      /\ SubSeq(seqs, 1, i) = Append(SubSeq(seqs, 1, i - 1), seqs[i])
  OBVIOUS
<1>2. Upto(seqs, i - 1) \in Seq(S)
  BY <1>1, FlattenTyped DEF Upto
<1>3. Upto(seqs, i) = Upto(seqs, i - 1) \o seqs[i]
  BY <1>1, FlattenAppend DEF Upto
<1> QED
  BY <1>1, <1>2, <1>3, ConcatProperties

LEMMA UptoEnds ==
  ASSUME NEW S, NEW seqs \in Seq(Seq(S))
  PROVE  Upto(seqs, 0) = <<>> /\ Upto(seqs, Len(seqs)) = FlattenSeq(seqs)
<1>1. SubSeq(seqs, 1, 0) = <<>> /\ SubSeq(seqs, 1, Len(seqs)) = seqs
  BY SubSeqFull, SubSeqEmpty
<1> QED
  BY <1>1, FlattenEmpty DEF Upto

(* The i-th sequence lies in the flattening after the ones before it. *)
LEMMA FlattenPlace ==
  ASSUME NEW S, NEW seqs \in Seq(Seq(S)), NEW i \in 1 .. Len(seqs)
  PROVE  \E rest \in Seq(S) :
           FlattenSeq(seqs) = (Upto(seqs, i - 1) \o seqs[i]) \o rest
<1> DEFINE first == SubSeq(seqs, 1, i)
           last == SubSeq(seqs, i + 1, Len(seqs))
<1>1. first \in Seq(Seq(S)) /\ last \in Seq(Seq(S)) /\ first \o last = seqs
  OBVIOUS
<1> HIDE DEF last
<1>2. FlattenSeq(seqs) = FlattenSeq(first) \o FlattenSeq(last)
  BY <1>1, FlattenConcat
<1>3. FlattenSeq(last) \in Seq(S)
  BY <1>1, FlattenTyped
<1> QED
  BY <1>2, <1>3, UptoGrows DEF Upto

LEMMA SliceIndex ==
  ASSUME NEW b \in Nat, NEW h \in Nat, NEW k \in 1 .. h
  PROVE  /\ \A r \in Nat : b + k \in 1 .. b + h + r
         /\ \A n \in 0 .. h - k + 1 : \A j \in 1 .. n :
              k + j - 1 \in 1 .. h /\ b + k + j - 1 = b + (k + j - 1)
  OBVIOUS

LEMMA FlattenSlice ==
  ASSUME NEW S, NEW seqs \in Seq(Seq(S)), NEW i \in 1 .. Len(seqs),
         NEW k \in 1 .. Len(seqs[i]), NEW n \in 0 .. Len(seqs[i]) - k + 1,
         NEW at, at = Len(Upto(seqs, i - 1)) + k
  PROVE  /\ at \in 1 .. Len(FlattenSeq(seqs))
         /\ FlattenSeq(seqs)[at] = seqs[i][k]
         /\ SubSeq(FlattenSeq(seqs), at, at + n - 1) =
              SubSeq(seqs[i], k, k + n - 1)
<1>1. PICK rest \in Seq(S) :
         FlattenSeq(seqs) = (Upto(seqs, i - 1) \o seqs[i]) \o rest
  BY FlattenPlace
<1>2. PICK before \in Seq(S) : before = Upto(seqs, i - 1)
  BY UptoGrows
<1>3. PICK here \in Seq(S) : here = seqs[i]
  BY UptoGrows
<1>4. PICK whole \in Seq(S) : whole = FlattenSeq(seqs)
  BY FlattenTyped
<1>5. /\ Len(whole) = Len(before) + Len(here) + Len(rest)
      /\ \A j \in 1 .. Len(here) : whole[Len(before) + j] = here[j]
  <2>1. /\ before \o here \in Seq(S)
        /\ Len(before \o here) = Len(before) + Len(here)
        /\ \A j \in 1 .. Len(here) : (before \o here)[Len(before) + j] = here[j]
    OBVIOUS
  <2>2. whole = (before \o here) \o rest
    BY <1>1, <1>2, <1>3, <1>4
  <2> QED
    BY <2>1, <2>2
<1>6. PICK b \in Nat, h \in Nat, r \in Nat :
         b = Len(before) /\ h = Len(here) /\ r = Len(rest)
  OBVIOUS
<1>7. at = b + k /\ k \in 1 .. h /\ n \in 0 .. h - k + 1
  BY <1>2, <1>3, <1>6
<1>8. Len(whole) = b + h + r /\ \A j \in 1 .. h : whole[b + j] = here[j]
  BY <1>5, <1>6
<1>9. at \in 1 .. Len(whole) /\ whole[at] = here[k]
  <2>1. b + k \in 1 .. b + h + r
    BY <1>7, SliceIndex
  <2> QED
    BY <1>7, <1>8, <2>1
<1>10. SubSeq(whole, at, at + n - 1) = SubSeq(here, k, k + n - 1)
  <2> DEFINE left == SubSeq(whole, at, at + n - 1)
             right == SubSeq(here, k, k + n - 1)
  <2>1. /\ left \in Seq(S) /\ Len(left) = n
        /\ \A j \in 1 .. n : left[j] = whole[at + j - 1]
    <3>1. \A j \in at .. at + n - 1 : j \in 1 .. Len(whole)
      BY <1>7, <1>8
    <3>2. \A j \in at .. at + n - 1 : whole[j] \in S
      BY <3>1, ElementOfSeq
    <3>3. at \in Int /\ at + n - 1 \in Int /\ (at + n - 1) - at + 1 = n
      BY <1>7
    <3> QED
      BY <3>2, <3>3, SubSeqProperties
  <2>2. /\ right \in Seq(S) /\ Len(right) = n
        /\ \A j \in 1 .. n : right[j] = here[k + j - 1]
    <3>1. \A j \in k .. k + n - 1 : j \in 1 .. Len(here)
      BY <1>6, <1>7
    <3>2. \A j \in k .. k + n - 1 : here[j] \in S
      BY <3>1, ElementOfSeq
    <3>3. k \in Int /\ k + n - 1 \in Int /\ (k + n - 1) - k + 1 = n
      BY <1>7
    <3> QED
      BY <3>2, <3>3, SubSeqProperties
  <2> HIDE DEF left, right
  <2>3. ASSUME NEW j \in 1 .. n
        PROVE  left[j] = right[j]
    <3>1. k + j - 1 \in 1 .. h /\ b + k + j - 1 = b + (k + j - 1)
      BY <1>7, SliceIndex
    <3>2. at + j - 1 = b + (k + j - 1)
      BY <1>7, <3>1
    <3>3. left[j] = whole[b + (k + j - 1)]
      BY <2>1, <3>2
    <3> QED
      BY <1>8, <2>2, <3>1, <3>3
  <2>4. left = right
    BY <2>1, <2>2, <2>3, SeqEqual
  <2> QED
    BY <2>4 DEF left, right
<1> QED
  BY <1>3, <1>4, <1>9, <1>10

Slices(seqs, i, k, n, at) ==
  SubSeq(FlattenSeq(seqs), at, at + n - 1) = SubSeq(seqs[i], k, k + n - 1)

LEMMA FlattenPiece ==
  ASSUME NEW S, NEW seqs \in Seq(Seq(S)), NEW i \in 1 .. Len(seqs),
         NEW k \in 1 .. Len(seqs[i]), NEW n \in 0 .. Len(seqs[i]) - k + 1,
         NEW at, at = Len(Upto(seqs, i - 1)) + k
  PROVE  Slices(seqs, i, k, n, at)
BY FlattenSlice DEF Slices

LEMMA FlattenByte ==
  ASSUME NEW S, NEW seqs \in Seq(Seq(S)), NEW i \in 1 .. Len(seqs),
         NEW k \in 1 .. Len(seqs[i]), NEW at, at = Len(Upto(seqs, i - 1)) + k
  PROVE  at \in 1 .. Len(FlattenSeq(seqs)) /\ FlattenSeq(seqs)[at] = seqs[i][k]
<1>1. Len(seqs[i]) \in Nat
  BY UptoGrows
<1>2. 0 \in 0 .. Len(seqs[i]) - k + 1
  BY <1>1
<1> QED
  BY <1>2, FlattenSlice

-----------------------------------------------------------------------------
(* Indices. *)

Wrapped(i) == IF i < MAX_OPS THEN i ELSE i - MAX_OPS

(* The remainder, for the numbers the code takes it of. *)
LEMMA ModWraps ==
  ASSUME NEW i \in 0 .. (2 * MAX_OPS - 1)
  PROVE  i % MAX_OPS = Wrapped(i)
<1>1. MAX_OPS \in Nat /\ MAX_OPS > 0
  BY MaxOpsAssumption
<1>2. CASE i < MAX_OPS
  BY <1>1, <1>2 DEF Wrapped
<1>3. CASE i >= MAX_OPS
  BY <1>1, <1>3 DEF Wrapped
<1> QED
  BY <1>1, <1>2, <1>3

LEMMA AdvanceWraps ==
  ASSUME NEW i \in Slots
  PROVE  Advance(i) = Wrapped(i + 1) /\ Advance(i) \in Slots
<1>1. i + 1 \in 0 .. (2 * MAX_OPS - 1) /\ MAX_OPS \in Nat \ {0}
  BY MaxOpsAssumption DEF Slots
<1>2. Advance(i) = Wrapped(i + 1)
  BY <1>1, ModWraps DEF Advance
<1> QED
  BY <1>1, <1>2 DEF Wrapped, Slots

-----------------------------------------------------------------------------
(* The buffer as a sequence. *)

Filled(b) == {i \in Slots : b.full \/ i < b.in_offs}

(* How many entries there are, and which slot each is in. *)
LEMMA ContentsPlaces ==
  ASSUME NEW E, NEW b \in Buffers(E), WellShaped(b)
  PROVE  /\ Count(b) = IF b.full THEN MAX_OPS ELSE b.in_offs
         /\ Count(b) \in 0 .. MAX_OPS
         /\ \A i \in 1 .. Count(b) :
              /\ Slot(b, i - 1) = Wrapped(b.out_offs + (i - 1))
              /\ Slot(b, i - 1) \in Filled(b)
<1>1. /\ b.in_offs \in Slots /\ b.out_offs \in Slots /\ b.full \in BOOLEAN
      /\ MAX_OPS \in Nat /\ MAX_OPS > 0
  BY MaxOpsAssumption DEF Buffers
<1>2. Count(b) = IF b.full THEN MAX_OPS ELSE b.in_offs
  <2>1. ASSUME ~ b.full
        PROVE  (b.in_offs - b.out_offs) % MAX_OPS = b.in_offs
    <3>1. b.in_offs - b.out_offs = b.in_offs
          /\ b.in_offs \in 0 .. (2 * MAX_OPS - 1) /\ b.in_offs < MAX_OPS
      BY <1>1, <2>1 DEF WellShaped, Slots
    <3>2. b.in_offs % MAX_OPS = b.in_offs
      BY <3>1, ModWraps DEF Wrapped
    <3> QED
      BY <3>1, <3>2
  <2> QED
    BY <1>1, <2>1 DEF Count
<1>3. Count(b) \in 0 .. MAX_OPS
  BY <1>1, <1>2 DEF Slots
<1>4. ASSUME NEW i \in 1 .. Count(b)
      PROVE  /\ Slot(b, i - 1) = Wrapped(b.out_offs + (i - 1))
             /\ Slot(b, i - 1) \in Filled(b)
  <2>1. b.out_offs + (i - 1) \in 0 .. (2 * MAX_OPS - 1)
    BY <1>1, <1>3 DEF Slots
  <2>2. Slot(b, i - 1) = Wrapped(b.out_offs + (i - 1))
    BY <2>1, ModWraps DEF Slot
  <2>3. Wrapped(b.out_offs + (i - 1)) \in Slots
    BY <1>1, <2>1 DEF Wrapped, Slots
  <2>4. ~ b.full => Wrapped(b.out_offs + (i - 1)) < b.in_offs
    BY <1>1, <1>2 DEF Wrapped, WellShaped, Slots
  <2> QED
    BY <2>2, <2>3, <2>4 DEF Filled
<1> QED
  BY <1>2, <1>3, <1>4

(* The search visits exactly the entries there are. *)
LEMMA ScannedIs ==
  ASSUME NEW E, NEW b \in Buffers(E), WellShaped(b)
  PROVE  Scanned(b) = 0 .. Count(b) - 1
<1>1. /\ b.in_offs \in Slots /\ b.out_offs \in Slots /\ b.full \in BOOLEAN
      /\ MAX_OPS \in Nat /\ MAX_OPS > 0
  BY MaxOpsAssumption DEF Buffers
<1>2. Count(b) = IF b.full THEN MAX_OPS ELSE b.in_offs
  BY ContentsPlaces
<1>3. CASE b.full
  BY <1>1, <1>2, <1>3 DEF Scanned, Slots
<1>4. CASE ~ b.full
  <2>1. \A k \in Slots : Slot(b, k) = k
    <3> SUFFICES ASSUME NEW k \in Slots PROVE Slot(b, k) = k
      OBVIOUS
    <3>1. b.out_offs + k = k /\ k \in 0 .. (2 * MAX_OPS - 1) /\ k < MAX_OPS
      BY <1>1, <1>4 DEF WellShaped, Slots
    <3>2. k % MAX_OPS = k
      BY <3>1, ModWraps DEF Wrapped
    <3> QED
      BY <3>1, <3>2 DEF Slot
  <2>2. \A j \in Slots : \A k \in 0 .. j : k \in Slots
    BY <1>1 DEF Slots
  <2>3. Scanned(b) = {j \in Slots : \A k \in 0 .. j : k # b.in_offs}
    BY <1>4, <2>1, <2>2 DEF Scanned
  <2> QED
    BY <1>1, <1>2, <1>4, <2>3 DEF Slots
<1> QED
  BY <1>1, <1>3, <1>4

-----------------------------------------------------------------------------
(* The byte counts are defined by recursion, too. *)

SumsAs(f, size, n) ==
  f = [k \in 0 .. n |-> IF k = 0 THEN 0 ELSE f[k - 1] + size[k - 1]]

HasSums(size, n) == \E f : SumsAs(f, size, n)

LEMMA SumsAt ==
  ASSUME NEW f, NEW size, NEW n \in Nat, SumsAs(f, size, n), NEW k \in 0 .. n
  PROVE  f[k] = IF k = 0 THEN 0 ELSE f[k - 1] + size[k - 1]
  BY DEF SumsAs

LEMMA SumsStep ==
  ASSUME NEW size, NEW n \in Nat, HasSums(size, n)
  PROVE  HasSums(size, n + 1)
<1>1. PICK f : SumsAs(f, size, n)
  BY DEF HasSums
<1> DEFINE g == [k \in 0 .. n + 1 |-> IF k = n + 1 THEN f[n] + size[n] ELSE f[k]]
<1>2. ASSUME NEW k \in 0 .. n + 1
      PROVE  g[k] = IF k = 0 THEN 0 ELSE g[k - 1] + size[k - 1]
  <2>1. CASE k = n + 1
    <3>1. k # 0 /\ k - 1 \in 0 .. n + 1 /\ k - 1 # n + 1 /\ k - 1 = n
      BY <2>1
    <3>2. g[k - 1] = f[n]
      BY <3>1
    <3> QED
      BY <2>1, <3>1, <3>2
  <2>2. CASE k # n + 1
    <3>1. k \in 0 .. n /\ (k # 0 => k - 1 \in 0 .. n + 1 /\ k - 1 # n + 1)
      BY <2>2
    <3>2. f[k] = IF k = 0 THEN 0 ELSE f[k - 1] + size[k - 1]
      BY <1>1, <3>1, SumsAt
    <3> QED
      BY <2>2, <3>1, <3>2
  <2> QED
    BY <2>1, <2>2
<1> HIDE DEF g
<1>3. g = [k \in 0 .. n + 1 |-> IF k = 0 THEN 0 ELSE g[k - 1] + size[k - 1]]
  <2>1. g = [k \in 0 .. n + 1 |-> g[k]]
    BY DEF g
  <2> QED
    BY <1>2, <2>1, Zenon
<1> QED
  BY <1>3 DEF HasSums, SumsAs

LEMMA SumsExist ==
  ASSUME NEW size, NEW n \in Nat
  PROVE  HasSums(size, n)
<1> DEFINE G == {m \in Nat : HasSums(size, m)}
<1>1. 0 \in G
  <2>1. SumsAs([k \in 0 .. 0 |-> 0], size, 0)
    BY DEF SumsAs
  <2> QED
    BY <2>1 DEF HasSums
<1>2. \A k \in 0 .. n : k \in G /\ k < n => k + 1 \in G
  BY SumsStep
<1> HIDE DEF G
<1>3. n \in G
  BY <1>1, <1>2, CountUp
<1> QED
  BY <1>3 DEF G

(* seqs are the entries' contents, oldest first. *)
Carries(b, seqs, S) ==
  /\ seqs \in Seq(Seq(S)) /\ Len(seqs) = Count(b)
  /\ \A i \in 1 .. Count(b) : Len(seqs[i]) = b.entry[Slot(b, i - 1)].size

LEMMA AccumulatedIs ==
  ASSUME NEW E, NEW b \in Buffers(E), WellShaped(b),
         NEW S, NEW seqs, Carries(b, seqs, S), NEW j \in 0 .. Count(b)
  PROVE  Accumulated(b)[j] = Len(Upto(seqs, j))
<1> DEFINE size == [k \in Slots |-> b.entry[Slot(b, k)].size]
           Body(f) == [k \in 0 .. MAX_OPS |->
                         IF k = 0 THEN 0
                         ELSE f[k - 1] + b.entry[Slot(b, k - 1)].size]
<1>0. MAX_OPS \in Nat /\ Count(b) \in 0 .. MAX_OPS
  BY MaxOpsAssumption, ContentsPlaces
<1>1. PICK f : SumsAs(f, size, MAX_OPS)
  BY <1>0, SumsExist DEF HasSums
<1>2. f = Body(f)
  <2>1. \A k \in 0 .. MAX_OPS : k # 0 => size[k - 1] = b.entry[Slot(b, k - 1)].size
    BY <1>0 DEF Slots
  <2> HIDE DEF size
  <2> QED
    BY <1>1, <2>1 DEF SumsAs
<1>3. Accumulated(b) = Body(Accumulated(b))
  <2>1. Accumulated(b) = CHOOSE g : g = Body(g)
    BY DEF Accumulated
  <2> HIDE DEF Body
  <2> QED
    BY <1>2, <2>1
<1>4. PICK a : a = Accumulated(b)
  OBVIOUS
<1>5. \A k \in 0 .. MAX_OPS :
        a[k] = IF k = 0 THEN 0 ELSE a[k - 1] + b.entry[Slot(b, k - 1)].size
  BY <1>3, <1>4
<1> DEFINE G == {k \in Nat : k \in 0 .. Count(b) => a[k] = Len(Upto(seqs, k))}
<1>6. 0 \in G
  <2>1. a[0] = 0
    BY <1>0, <1>5
  <2>2. Len(Upto(seqs, 0)) = 0
    BY UptoEnds DEF Carries
  <2> QED
    BY <2>1, <2>2
<1>7. ASSUME NEW k \in 0 .. Count(b), k \in G, k < Count(b)
      PROVE  k + 1 \in G
  <2>1. k + 1 \in 1 .. Len(seqs) /\ k + 1 \in 0 .. MAX_OPS /\ k + 1 # 0
        /\ (k + 1) - 1 = k
    BY <1>0, <1>7 DEF Carries
  <2>2. a[k + 1] = a[k] + b.entry[Slot(b, k)].size
    BY <1>5, <2>1
  <2>3. Len(Upto(seqs, k + 1)) = Len(Upto(seqs, k)) + Len(seqs[k + 1])
    <3>1. Len(Upto(seqs, k + 1))
            = Len(Upto(seqs, (k + 1) - 1)) + Len(seqs[k + 1])
      BY <2>1, UptoGrows DEF Carries
    <3> QED
      BY <2>1, <3>1
  <2>4. Len(seqs[k + 1]) = b.entry[Slot(b, k)].size
    <3>1. Len(seqs[k + 1]) = b.entry[Slot(b, (k + 1) - 1)].size
      BY <2>1 DEF Carries
    <3> QED
      BY <2>1, <3>1
  <2>5. a[k] = Len(Upto(seqs, k))
    BY <1>7
  <2>6. a[k + 1] = Len(Upto(seqs, k + 1))
    BY <2>2, <2>3, <2>4, <2>5
  <2> QED
    BY <2>1, <2>6
<1> HIDE DEF G
<1>8. j \in G
  BY <1>0, <1>6, <1>7, CountUp
<1> QED
  BY <1>4, <1>8 DEF G

(* What the search finds at position off, told from the flattened contents. *)
Finds(b, seqs, off) ==
  IF off >= Len(FlattenSeq(seqs))
  THEN FindEntry(b, off) = NotFound
  ELSE \E i \in 1 .. Count(b) : \E k \in 1 .. Len(seqs[i]) :
         /\ off + 1 = Len(Upto(seqs, i - 1)) + k
         /\ FindEntry(b, off) = [slot |-> Slot(b, i - 1), byte |-> k - 1]

(* The search finds the entry and the byte in it that a position of the     *)
(* flattened contents denotes, and nothing at or beyond their end.          *)
LEMMA FindsPlace ==
  ASSUME NEW E, NEW b \in Buffers(E), WellShaped(b),
         NEW S, NEW seqs, Carries(b, seqs, S), NEW off \in Nat
  PROVE  Finds(b, seqs, off)
<1> USE DEF Finds
<1>1. PICK n \in Nat : n = Count(b) /\ n <= MAX_OPS
  BY MaxOpsAssumption, ContentsPlaces
<1> DEFINE total == [j \in 0 .. n |-> Len(Upto(seqs, j))]
<1>2. /\ total \in [0 .. n -> Nat] /\ total[0] = 0
      /\ total[n] = Len(FlattenSeq(seqs))
      /\ \A j \in 1 .. n : /\ Len(seqs[j]) \in Nat
                           /\ total[j] = total[j - 1] + Len(seqs[j])
  <2>1. ASSUME NEW j \in 0 .. n PROVE Len(Upto(seqs, j)) \in Nat
    <3>1. SubSeq(seqs, 1, j) \in Seq(Seq(S))
      BY <1>1 DEF Carries
    <3> QED
      BY <3>1, FlattenTyped DEF Upto
  <2>2. ASSUME NEW j \in 1 .. n
        PROVE  /\ Len(seqs[j]) \in Nat
               /\ total[j] = total[j - 1] + Len(seqs[j])
    <3>1. j \in 1 .. Len(seqs) /\ j \in 0 .. n /\ j - 1 \in 0 .. n
      BY <1>1 DEF Carries
    <3>2. seqs[j] \in Seq(S) /\ Len(Upto(seqs, j)) = Len(Upto(seqs, j - 1)) + Len(seqs[j])
      BY <3>1, UptoGrows DEF Carries
    <3>3. Len(seqs[j]) \in Nat
      BY <3>2
    <3>4. total[j] = Len(Upto(seqs, j)) /\ total[j - 1] = Len(Upto(seqs, j - 1))
      BY <3>1
    <3> HIDE DEF total
    <3> QED
      BY <3>2, <3>3, <3>4
  <2>3. Upto(seqs, 0) = <<>> /\ Upto(seqs, n) = FlattenSeq(seqs)
    BY <1>1, UptoEnds DEF Carries
  <2>4. total \in [0 .. n -> Nat]
    BY <2>1
  <2>5. total[0] = 0 /\ total[n] = Len(FlattenSeq(seqs))
    <3>1. 0 \in 0 .. n /\ n \in 0 .. n
      OBVIOUS
    <3>2. total[0] = Len(Upto(seqs, 0)) /\ total[n] = Len(Upto(seqs, n))
      BY <3>1
    <3> QED
      BY <2>3, <3>2
  <2> HIDE DEF total
  <2> QED
    BY <2>2, <2>4, <2>5
<1>3. Hits(b, off) = {j \in 0 .. n - 1 : total[j + 1] > off}
  <2>1. Scanned(b) = 0 .. n - 1
    BY <1>1, ScannedIs
  <2>2. ASSUME NEW j \in 0 .. n - 1
        PROVE  Accumulated(b)[j] + b.entry[Slot(b, j)].size = total[j + 1]
    <3>1. j \in 0 .. n /\ j + 1 \in 1 .. n /\ (j + 1) - 1 = j
      BY <1>1
    <3>2. Accumulated(b)[j] = total[j]
      BY <1>1, <3>1, AccumulatedIs
    <3>3. Len(seqs[j + 1]) = b.entry[Slot(b, (j + 1) - 1)].size
      BY <1>1, <3>1 DEF Carries
    <3>4. total[j + 1] = total[(j + 1) - 1] + Len(seqs[j + 1])
      BY <1>2, <3>1
    <3> HIDE DEF total
    <3> QED
      BY <3>1, <3>2, <3>3, <3>4
  <2> HIDE DEF total
  <2> QED
    BY <2>1, <2>2 DEF Hits
<1>4. \A j \in 0 .. n : Accumulated(b)[j] = total[j]
  BY <1>1, AccumulatedIs
<1> HIDE DEF total
<1> DEFINE hits == {j \in 0 .. n - 1 : total[j + 1] > off}
<1>5. CASE hits = {}
  <2>1. total[n] <= off
    <3>1. CASE n = 0
      BY <1>2, <3>1
    <3>2. CASE n # 0
      <4>1. n - 1 \in 0 .. n - 1 /\ (n - 1) + 1 = n
        BY <3>2
      <4>2. ~ (total[(n - 1) + 1] > off)
        BY <1>5, <4>1
      <4>3. total[n] \in Nat
        BY <1>2
      <4> QED
        BY <4>1, <4>2, <4>3
    <3> QED
      BY <3>1, <3>2
  <2>2. FindEntry(b, off) = NotFound
    BY <1>3, <1>5 DEF FindEntry
  <2> QED
    BY <1>2, <2>1, <2>2
<1>6. CASE hits # {}
  <2>1. PICK h \in hits : \A k \in hits : h <= k
    <3>1. hits \in SUBSET Nat
      OBVIOUS
    <3> QED
      BY <1>6, <3>1, LeastNatural
  <2>2. h \in 0 .. n - 1 /\ total[h + 1] > off
    OBVIOUS
  <2>3. total[h] <= off
    <3>1. CASE h = 0
      BY <1>2, <3>1
    <3>2. CASE h # 0
      <4>1. h - 1 \in 0 .. n - 1 /\ (h - 1) + 1 = h /\ h - 1 \notin hits
        BY <2>1, <2>2, <3>2
      <4>2. ~ (total[h] > off) /\ total[h] \in Nat
        BY <1>2, <2>2, <4>1
      <4> QED
        BY <4>2
    <3> QED
      BY <3>1, <3>2
  <2>4. (CHOOSE x \in hits : \A k \in hits : x <= k) = h
    <3>1. ASSUME NEW x \in hits, \A k \in hits : x <= k PROVE x = h
      BY <2>1, <3>1
    <3> HIDE DEF hits
    <3> QED
      BY <2>1, <3>1
  <2>5. FindEntry(b, off) = [slot |-> Slot(b, h), byte |-> off - total[h]]
    <3>1. Accumulated(b)[h] = total[h]
      BY <1>4, <2>2
    <3>2. Hits(b, off) = hits
      BY <1>3
    <3> HIDE DEF hits
    <3> QED
      BY <1>6, <2>4, <3>1, <3>2 DEF FindEntry
  <2>6. PICK i \in 1 .. n : i = h + 1
    BY <2>2
  <2>7. i - 1 = h /\ total[i] = total[h] + Len(seqs[i]) /\ Len(seqs[i]) \in Nat
        /\ total[h] \in Nat /\ total[i] > off
    BY <1>2, <2>2, <2>6
  <2>8. PICK k \in 1 .. Len(seqs[i]) : k = off - total[h] + 1
    BY <2>3, <2>7
  <2>9. total[n] > off
    <3> DEFINE G == {m \in Nat : m \in i .. n => total[m] > off}
    <3>1. \A m \in 0 .. n : m \in G /\ m < n => m + 1 \in G
      <4> SUFFICES ASSUME NEW m \in 0 .. n, m \in G, m < n PROVE m + 1 \in G
        OBVIOUS
      <4>1. CASE m < i
        <5>1. m + 1 \in i .. n => m + 1 = i
          BY <4>1
        <5> QED
          BY <2>7, <5>1
      <4>2. CASE m >= i
        <5>1. /\ m + 1 \in 1 .. n /\ (m + 1) - 1 = m /\ m \in 0 .. n
              /\ total[m] > off
          BY <2>6, <4>2
        <5>2. total[m + 1] = total[m] + Len(seqs[m + 1])
              /\ Len(seqs[m + 1]) \in Nat /\ total[m] \in Nat
          BY <1>2, <5>1
        <5>3. total[m + 1] > off
          BY <5>1, <5>2
        <5> QED
          BY <5>3
      <4> QED
        BY <4>1, <4>2
    <3>2. 0 \in G
      BY <2>6
    <3> HIDE DEF G
    <3>3. \A m \in 0 .. n : m \in G
      BY <3>1, <3>2, CountUp
    <3>4. n \in 0 .. n /\ n \in i .. n
      BY <2>6
    <3>5. n \in G
      BY <3>3, <3>4
    <3> QED
      BY <3>4, <3>5 DEF G
  <2>10. off + 1 = Len(Upto(seqs, i - 1)) + k
    <3>1. total[h] = Len(Upto(seqs, i - 1))
      BY <2>2, <2>7 DEF total
    <3> QED
      BY <2>7, <2>8, <3>1
  <2>11. FindEntry(b, off) = [slot |-> Slot(b, i - 1), byte |-> k - 1]
    BY <2>5, <2>7, <2>8
  <2>12. ~ (off >= Len(FlattenSeq(seqs)))
    BY <1>2, <2>9
  <2> QED
    BY <1>1, <2>6, <2>8, <2>10, <2>11, <2>12
<1> QED
  BY <1>5, <1>6

-----------------------------------------------------------------------------
(* Seek commands. *)

LEMMA BytesBelowIs ==
  ASSUME NEW b
  PROVE  \E a : /\ \A i : BytesBelow(b, i) = a[i]
                /\ \A k \in 0 .. MAX_OPS :
                     a[k] = IF k = 0 THEN 0
                            ELSE a[k - 1] + b.entry[k - 1].size
<1> DEFINE size == [k \in Slots |-> b.entry[k].size]
           Body(f) == [k \in 0 .. MAX_OPS |->
                         IF k = 0 THEN 0 ELSE f[k - 1] + b.entry[k - 1].size]
           h == CHOOSE f : f = Body(f)
<1>0. MAX_OPS \in Nat
  BY MaxOpsAssumption
<1>1. PICK f : SumsAs(f, size, MAX_OPS)
  BY <1>0, SumsExist DEF HasSums
<1>2. f = Body(f)
  <2>1. \A k \in 0 .. MAX_OPS : k # 0 => size[k - 1] = b.entry[k - 1].size
    BY <1>0 DEF Slots
  <2> HIDE DEF size
  <2> QED
    BY <1>1, <2>1 DEF SumsAs
<1>3. h = Body(h)
  <2> HIDE DEF Body
  <2> QED
    BY <1>2
<1>4. \A i : BytesBelow(b, i) = h[i]
  BY DEF BytesBelow
<1>5. PICK a : a = h
  OBVIOUS
<1>6. a = Body(a)
  <2> HIDE DEF Body
  <2> QED
    BY <1>3, <1>5
<1>7. \A k \in 0 .. MAX_OPS :
        a[k] = IF k = 0 THEN 0 ELSE a[k - 1] + b.entry[k - 1].size
  BY <1>6
<1> HIDE DEF h
<1> QED
  BY <1>4, <1>5, <1>7

LEMMA BytesBelowNat ==
  ASSUME NEW b, \A k \in Slots : b.entry[k].size \in Nat, NEW i \in 0 .. MAX_OPS
  PROVE  BytesBelow(b, i) \in Nat
<1>1. PICK a : /\ \A j : BytesBelow(b, j) = a[j]
               /\ \A k \in 0 .. MAX_OPS :
                    a[k] = IF k = 0 THEN 0
                           ELSE a[k - 1] + b.entry[k - 1].size
  BY BytesBelowIs
<1> DEFINE G == {k \in Nat : k \in 0 .. MAX_OPS => a[k] \in Nat}
<1>2. MAX_OPS \in Nat
  BY MaxOpsAssumption
<1>3. 0 \in G
  BY <1>1, <1>2
<1>4. ASSUME NEW k \in 0 .. MAX_OPS, k \in G, k < MAX_OPS
      PROVE  k + 1 \in G
  <2>1. k \in Slots /\ k + 1 \in 0 .. MAX_OPS /\ k + 1 # 0 /\ (k + 1) - 1 = k
    BY <1>2, <1>4 DEF Slots
  <2>2. a[k + 1] = a[k] + b.entry[k].size
    BY <1>1, <2>1
  <2> QED
    BY <1>4, <2>1, <2>2
<1> HIDE DEF G
<1>5. i \in G
  BY <1>2, <1>3, <1>4, CountUp
<1> QED
  BY <1>1, <1>5 DEF G

(* A seek leads to a position, or nowhere. *)
LEMMA AdjustedOffsetType ==
  ASSUME NEW b, \A k \in Slots : b.entry[k].size \in Nat,
         NEW cmd \in Nat, NEW off \in Nat
  PROVE  AdjustedOffset(b, cmd, off) \in Nat \union {EINVAL}
<1>1. MAX_OPS \in Nat
  BY MaxOpsAssumption
<1>2. CASE cmd < MAX_OPS
  <2>1. cmd \in Slots /\ cmd \in 0 .. MAX_OPS
    BY <1>1, <1>2 DEF Slots
  <2>2. BytesBelow(b, cmd) \in Nat
    BY <2>1, BytesBelowNat
  <2> QED
    BY <2>2 DEF AdjustedOffset
<1>3. CASE ~ (cmd < MAX_OPS)
  BY <1>1, <1>3 DEF AdjustedOffset
<1> QED
  BY <1>2, <1>3

(* While the oldest entry is in slot 0, the slots' order is the entries'.   *)
LEMMA SeeksPlace ==
  ASSUME NEW E, NEW b \in Buffers(E), WellShaped(b), b.out_offs = 0,
         NEW S, NEW seqs, Carries(b, seqs, S), NEW cmd \in Nat, NEW off \in Nat
  PROVE  AdjustedOffset(b, cmd, off) =
           IF cmd < Len(seqs) /\ off < Len(seqs[cmd + 1])
           THEN Len(Upto(seqs, cmd)) + off ELSE EINVAL
<1>1. PICK a : /\ \A j : BytesBelow(b, j) = a[j]
               /\ \A k \in 0 .. MAX_OPS :
                    a[k] = IF k = 0 THEN 0
                           ELSE a[k - 1] + b.entry[k - 1].size
  BY BytesBelowIs
<1>2. PICK n \in Nat : n = Count(b) /\ n <= MAX_OPS /\ n = Len(seqs)
  BY MaxOpsAssumption, ContentsPlaces DEF Carries
<1>3. MAX_OPS \in Nat /\ MAX_OPS > 0
  BY MaxOpsAssumption
<1>4. \A k \in 0 .. n - 1 : /\ Len(seqs[k + 1]) = b.entry[k].size
                            /\ Len(seqs[k + 1]) \in Nat
  <2> SUFFICES ASSUME NEW k \in 0 .. n - 1
               PROVE  /\ Len(seqs[k + 1]) = b.entry[k].size
                      /\ Len(seqs[k + 1]) \in Nat
    OBVIOUS
  <2>1. PICK i \in 1 .. n : i = k + 1 /\ i - 1 = k
    OBVIOUS
  <2>2. Slot(b, i - 1) = Wrapped(b.out_offs + (i - 1))
    BY <1>2, ContentsPlaces
  <2>3. b.out_offs + (i - 1) = k /\ k < MAX_OPS
    BY <1>2, <1>3, <2>1
  <2>4. Slot(b, i - 1) = k
    BY <2>2, <2>3 DEF Wrapped
  <2>5. Len(seqs[i]) = b.entry[Slot(b, i - 1)].size /\ seqs[i] \in Seq(S)
    BY <1>2 DEF Carries
  <2>6. Len(seqs[i]) \in Nat
    BY <2>5
  <2> QED
    BY <2>1, <2>4, <2>5, <2>6
<1>5. \A k \in Slots : k >= n => b.entry[k].size = 0
  <2> SUFFICES ASSUME NEW k \in Slots, k >= n PROVE b.entry[k].size = 0
    OBVIOUS
  <2>1. Count(b) = IF b.full THEN MAX_OPS ELSE b.in_offs
    BY ContentsPlaces
  <2>2. ~ b.full /\ k >= b.in_offs
    BY <1>2, <1>3, <2>1 DEF Slots, Buffers
  <2>3. b.entry[k] = NoEntry
    BY <2>2 DEF WellShaped
  <2> QED
    BY <2>3 DEF NoEntry
<1> DEFINE G == {k \in Nat : k \in 0 .. n => a[k] = Len(Upto(seqs, k))}
<1>6. 0 \in G
  <2>1. a[0] = 0
    BY <1>1, <1>3
  <2>2. Len(Upto(seqs, 0)) = 0
    BY UptoEnds DEF Carries
  <2> QED
    BY <2>1, <2>2
<1>7. ASSUME NEW k \in 0 .. n, k \in G, k < n
      PROVE  k + 1 \in G
  <2>1. PICK i \in 1 .. n : i = k + 1 /\ i - 1 = k /\ i \in 0 .. MAX_OPS /\ i # 0
    BY <1>2, <1>3, <1>7
  <2>2. a[i] = a[k] + b.entry[k].size
    BY <1>1, <2>1
  <2>3. Len(Upto(seqs, i)) = Len(Upto(seqs, i - 1)) + Len(seqs[i])
    BY <1>2, <2>1, UptoGrows DEF Carries
  <2>4. k \in 0 .. n - 1
    BY <1>7
  <2>5. Len(seqs[k + 1]) = b.entry[k].size
    BY <1>4, <2>4
  <2>6. a[k] = Len(Upto(seqs, k))
    BY <1>7
  <2>7. a[k + 1] = Len(Upto(seqs, k + 1))
    BY <2>1, <2>2, <2>3, <2>5, <2>6
  <2> QED
    BY <2>7
<1> HIDE DEF G
<1>8. \A k \in 0 .. n : k \in G
  BY <1>6, <1>7, CountUp
<1>9. CASE cmd < n
  <2>1. /\ cmd \in Slots /\ cmd \in 0 .. n - 1 /\ cmd \in 0 .. n
        /\ ~ (cmd >= MAX_OPS)
    BY <1>2, <1>3, <1>9 DEF Slots
  <2>2. BytesBelow(b, cmd) = Len(Upto(seqs, cmd))
    BY <1>1, <1>8, <2>1 DEF G
  <2>3. b.entry[cmd].size = Len(seqs[cmd + 1]) /\ Len(seqs[cmd + 1]) \in Nat
    BY <1>4, <2>1
  <2> QED
    BY <1>2, <1>9, <2>1, <2>2, <2>3 DEF AdjustedOffset
<1>10. CASE ~ (cmd < n)
  <2>1. CASE cmd >= MAX_OPS
    BY <1>2, <1>10, <2>1 DEF AdjustedOffset
  <2>2. CASE ~ (cmd >= MAX_OPS)
    <3>1. cmd \in Slots /\ cmd >= n
      BY <1>3, <1>10, <2>2 DEF Slots
    <3>2. b.entry[cmd].size = 0
      BY <1>5, <3>1
    <3> QED
      BY <1>2, <1>10, <3>2 DEF AdjustedOffset
  <2> QED
    BY <2>1, <2>2
<1> QED
  BY <1>9, <1>10

-----------------------------------------------------------------------------
(* Adding an entry. *)

(* add_entry keeps a buffer a buffer, and changes the one slot at in_offs.  *)
LEMMA AddEntryType ==
  ASSUME NEW E, NEW b \in Buffers(E), NEW e \in E
  PROVE  /\ AddEntry(b, e) \in Buffers(E)
         /\ \A i \in Slots : AddEntry(b, e).entry[i] =
                               IF i = b.in_offs THEN e ELSE b.entry[i]
<1>1. b.in_offs \in Slots /\ b.out_offs \in Slots /\ b.full \in BOOLEAN
      /\ b.entry \in [Slots -> E]
  BY DEF Buffers
<1>2. Advance(b.in_offs) \in Slots
  BY <1>1, AdvanceWraps
<1> QED
  BY <1>1, <1>2 DEF AddEntry, Buffers

(* The empty buffer is a buffer, of no entry. *)
LEMMA InitBufferType ==
  ASSUME NEW E, NoEntry \in E
  PROVE  /\ InitBuffer \in Buffers(E) /\ WellShaped(InitBuffer)
         /\ Count(InitBuffer) = 0
         /\ \A i \in Slots : InitBuffer.entry[i] = NoEntry
<1>1. 0 \in Slots
  BY MaxOpsAssumption DEF Slots
<1>2. InitBuffer \in Buffers(E) /\ WellShaped(InitBuffer)
  BY <1>1 DEF InitBuffer, Buffers, WellShaped
<1>3. Count(InitBuffer) = 0
  BY <1>2, ContentsPlaces DEF InitBuffer
<1> QED
  BY <1>2, <1>3 DEF InitBuffer

(* add_entry appends an entry, and drops the oldest of a full buffer.       *)
LEMMA AddedContents ==
  ASSUME NEW E, NEW b \in Buffers(E), WellShaped(b), NEW e \in E,
         NEW c, c = AddEntry(b, e)
  PROVE  /\ c \in Buffers(E) /\ WellShaped(c)
         /\ Filled(c) = Filled(b) \union {b.in_offs}
         /\ Count(c) = IF b.full THEN MAX_OPS ELSE Count(b) + 1
         /\ \A i \in 1 .. Count(c) :
              IF i = Count(c)
              THEN Slot(c, i - 1) = b.in_offs
              ELSE /\ Slot(c, i - 1) # b.in_offs
                   /\ Slot(c, i - 1) \in Filled(b)
                   /\ Slot(c, i - 1) = Slot(b, IF b.full THEN i ELSE i - 1)
<1>1. /\ b.in_offs \in Slots /\ b.out_offs \in Slots /\ b.full \in BOOLEAN
      /\ b.entry \in [Slots -> E] /\ MAX_OPS \in Nat /\ MAX_OPS > 0
  BY MaxOpsAssumption DEF Buffers
<1>2. /\ c \in Buffers(E)
      /\ c.in_offs = Wrapped(b.in_offs + 1)
      /\ c.out_offs = IF b.full THEN c.in_offs ELSE b.out_offs
      /\ c.full = (c.in_offs = c.out_offs)
      /\ c.entry = [b.entry EXCEPT ![b.in_offs] = e]
  <2>1. b.in_offs + 1 \in 0 .. (2 * MAX_OPS - 1)
    BY <1>1 DEF Slots
  <2>2. Advance(b.in_offs) = Wrapped(b.in_offs + 1)
    BY <2>1, ModWraps DEF Advance
  <2> QED
    BY <2>2, AddEntryType DEF AddEntry
<1>3. \/ /\ b.full /\ c.full /\ c.in_offs = c.out_offs
         /\ c.in_offs = IF b.in_offs + 1 < MAX_OPS THEN b.in_offs + 1 ELSE 0
         /\ b.in_offs = b.out_offs
      \/ /\ ~ b.full /\ c.full /\ c.in_offs = 0 /\ c.out_offs = 0
         /\ b.in_offs + 1 = MAX_OPS /\ b.out_offs = 0
      \/ /\ ~ b.full /\ ~ c.full /\ c.in_offs = b.in_offs + 1 /\ c.out_offs = 0
         /\ b.in_offs + 1 < MAX_OPS /\ b.out_offs = 0
  <2>1. c.in_offs = IF b.in_offs + 1 < MAX_OPS THEN b.in_offs + 1 ELSE 0
    BY <1>1, <1>2 DEF Wrapped, Slots
  <2>2. (b.full => b.in_offs = b.out_offs) /\ (~ b.full => b.out_offs = 0)
    BY DEF WellShaped
  <2>3. b.in_offs \in Nat /\ b.in_offs < MAX_OPS
    BY <1>1 DEF Slots
  <2>4. c.full <=> c.in_offs = c.out_offs
    BY <1>2
  <2>5. CASE b.full
    BY <1>2, <2>1, <2>2, <2>4, <2>5
  <2>6. CASE ~ b.full
    BY <1>1, <1>2, <2>1, <2>2, <2>3, <2>4, <2>6
  <2> QED
    BY <2>5, <2>6
<1>4. WellShaped(c)
  <2>1. c.full => c.in_offs = c.out_offs
    BY <1>3
  <2>2. ~ c.full => c.out_offs = 0
    BY <1>3
  <2>3. ASSUME NEW i \in Slots, ~ c.full, i >= c.in_offs
        PROVE  c.entry[i] = NoEntry
    <3>1. ~ b.full /\ i >= b.in_offs /\ i # b.in_offs
      BY <1>1, <1>3, <2>3 DEF Slots
    <3> QED
      BY <1>1, <1>2, <3>1 DEF WellShaped
  <2> QED
    BY <2>1, <2>2, <2>3 DEF WellShaped
<1>5. Filled(c) = Filled(b) \union {b.in_offs}
  <2>1. \A i \in Slots : (c.full \/ i < c.in_offs) <=>
                         (b.full \/ i < b.in_offs \/ i = b.in_offs)
    BY <1>1, <1>3 DEF Slots
  <2> QED
    BY <1>1, <2>1 DEF Filled
<1>6. Count(c) = IF b.full THEN MAX_OPS ELSE Count(b) + 1
  <2>1. Count(c) = IF c.full THEN MAX_OPS ELSE c.in_offs
    BY <1>2, <1>4, ContentsPlaces
  <2>2. Count(b) = IF b.full THEN MAX_OPS ELSE b.in_offs
    BY ContentsPlaces
  <2> QED
    BY <1>1, <1>3, <2>1, <2>2 DEF Slots
<1>7. ASSUME NEW i \in 1 .. Count(c)
      PROVE  IF i = Count(c)
             THEN Slot(c, i - 1) = b.in_offs
             ELSE /\ Slot(c, i - 1) # b.in_offs
                  /\ Slot(c, i - 1) \in Filled(b)
                  /\ Slot(c, i - 1) = Slot(b, IF b.full THEN i ELSE i - 1)
  <2>1. Slot(c, i - 1) = Wrapped(c.out_offs + (i - 1))
        /\ Slot(c, i - 1) \in Filled(c)
    BY <1>2, <1>4, ContentsPlaces
  <2>2. Count(b) = IF b.full THEN MAX_OPS ELSE b.in_offs
    BY ContentsPlaces
  <2>3. CASE i = Count(c)
    <3>1. Slot(c, i - 1) = Wrapped(c.out_offs + (i - 1))
      BY <2>1
    <3>2. i = IF b.full THEN MAX_OPS ELSE b.in_offs + 1
      BY <1>6, <2>2, <2>3
    <3>3. Wrapped(c.out_offs + (i - 1)) = b.in_offs
      BY <1>1, <1>3, <3>2 DEF Wrapped, Slots
    <3> QED
      BY <2>3, <3>1, <3>3
  <2>4. CASE i # Count(c) /\ b.full
    <3>1. i \in 1 .. MAX_OPS - 1 /\ i + 1 \in 1 .. Count(b)
      BY <1>1, <1>6, <2>2, <2>4
    <3>2. Slot(b, (i + 1) - 1) = Wrapped(b.out_offs + ((i + 1) - 1))
      BY <3>1, ContentsPlaces
    <3>3. (i + 1) - 1 = i
      BY <3>1
    <3>4. Slot(b, i) = Wrapped(b.out_offs + i)
      BY <3>2, <3>3
    <3>5. Slot(c, i - 1) = Wrapped(b.out_offs + i)
          /\ Slot(c, i - 1) # b.in_offs
      BY <1>1, <1>2, <2>1, <2>4, <3>1 DEF Wrapped, WellShaped, Slots
    <3> QED
      BY <1>5, <2>1, <2>4, <3>4, <3>5
  <2>5. CASE i # Count(c) /\ ~ b.full
    <3>1. i \in 1 .. Count(b)
      BY <1>1, <1>6, <2>2, <2>5 DEF Slots
    <3>2. Slot(b, i - 1) = Wrapped(b.out_offs + (i - 1))
          /\ Slot(b, i - 1) \in Filled(b)
      BY <3>1, ContentsPlaces
    <3>3. Slot(b, i - 1) # b.in_offs
      BY <1>1, <2>5, <3>2 DEF Filled, Slots
    <3> QED
      BY <1>2, <2>1, <2>5, <3>2, <3>3
  <2> QED
    BY <1>1, <2>3, <2>4, <2>5
<1> QED
  BY <1>2, <1>4, <1>5, <1>6, <1>7

-----------------------------------------------------------------------------
(* Where a write is cut. *)

(* append_index takes the data as a whole or, if there is a newline, a      *)
(* nonempty prefix.                                                         *)
LEMMA AppendIndexBounds ==
  ASSUME NEW S, NEW data \in Seq(S)
  PROVE  /\ AppendIndex(data) \in 0 .. Len(data)
         /\ ~ NewlineFound(data) => AppendIndex(data) = Len(data)
         /\ NewlineFound(data) => AppendIndex(data) > 0
<1>1. CASE ~ NewlineFound(data)
  BY <1>1 DEF AppendIndex
<1>2. CASE NewlineFound(data)
  <2> DEFINE N == {i \in 1 .. Len(data) : data[i] = NL}
             First(i) == data[i] = NL /\ \A k \in 1 .. (i - 1) : data[k] # NL
  <2>1. N # {} /\ N \in SUBSET Nat
    BY <1>2 DEF NewlineFound
  <2>2. PICK x \in N : \A y \in N : x <= y
    BY <2>1, LeastNatural
  <2>3. x \in 1 .. Len(data) /\ First(x)
    BY <2>2
  <2>4. (CHOOSE i \in 1 .. Len(data) : First(i)) \in 1 .. Len(data)
    BY <2>3, Zenon
  <2>5. AppendIndex(data) = CHOOSE i \in 1 .. Len(data) : First(i)
    BY <1>2 DEF AppendIndex
  <2> QED
    BY <1>2, <2>4, <2>5
<1> QED
  BY <1>1, <1>2
=============================================================================
