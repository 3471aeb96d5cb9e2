--------------------------- MODULE PushQueue_proofs ---------------------------
(***************************************************************************)
(* What the operations of the shared input queue do to its contents, for   *)
(* every capacity and batch size.                                          *)
(***************************************************************************)
EXTENDS PushQueue, SequenceTheorems, TLAPS

LEMMA StepIsPositive ==
  StepSamples \in Nat \ {0} /\ StepSamples + OverlapSamples = WindowSamples
BY SourceConfig DEF StepSamples

\* A batch holds the next samples of the recording (the span Push inserts).
LEMMA BatchProperties ==
  ASSUME fed \in Nat, NEW m \in Nat, fed + m <= StreamSamples
  PROVE  /\ Batch(m) \in Seq(Samples)
         /\ Len(Batch(m)) = m
         /\ \A j \in 1 .. m : Batch(m)[j] = fed + j
<1>1. Batch(m) \in [1 .. m -> Samples]
  BY SourceConfig DEF Batch, Samples
<1>2. Batch(m) \in Seq(Samples)
  BY <1>1, SeqDef
<1>3. DOMAIN Batch(m) = 1 .. m
  BY <1>1
<1>4. Len(Batch(m)) = m
  <2>1. Len(Batch(m)) \in Nat /\ 1 .. Len(Batch(m)) = 1 .. m
    BY <1>2, <1>3, LenProperties
  <2>. QED  BY <2>1
<1>. QED  BY <1>2, <1>4 DEF Batch

\* What one queue operation does to the length and the elements of pending.
LEMMA PushPending ==
  ASSUME QueueTypeOK, NEW n \in 1 .. (StreamSamples - fed), Push(n)
  PROVE  /\ Accepted(n) \in 0 .. n
         /\ QueueTypeOK'
         /\ Len(pending') = Len(pending) + Accepted(n)
         /\ \A j \in 1 .. Len(pending) : pending'[j] = pending[j]
         /\ \A j \in 1 .. Accepted(n) : pending'[Len(pending) + j] = fed + j
<1>1. /\ Accepted(n) \in 0 .. n
      /\ Len(pending) + Accepted(n) <= MaxBufferedSamples
  <2>1. Len(pending) \in Nat
    BY LenProperties DEF QueueTypeOK
  <2>. QED  BY <2>1, SourceConfig DEF Accepted, Room, QueueTypeOK
<1>2. /\ Batch(Accepted(n)) \in Seq(Samples)
      /\ Len(Batch(Accepted(n))) = Accepted(n)
      /\ \A j \in 1 .. Accepted(n) : Batch(Accepted(n))[j] = fed + j
  <2>1. Accepted(n) \in Nat /\ fed + Accepted(n) <= StreamSamples /\ fed \in Nat
    BY <1>1, SourceConfig DEF QueueTypeOK
  <2>. QED  BY <2>1, BatchProperties
<1>3. /\ pending' \in Seq(Samples)
      /\ Len(pending') = Len(pending) + Accepted(n)
      /\ \A j \in 1 .. Len(pending) + Accepted(n) :
           pending'[j] = IF j <= Len(pending) THEN pending[j]
                         ELSE Batch(Accepted(n))[j - Len(pending)]
  BY <1>2, ConcatProperties DEF Push, QueueTypeOK
<1>4. Len(pending) \in Nat
  BY LenProperties DEF QueueTypeOK
<1>5. QueueTypeOK'
  <2>1. fed \in Nat /\ fed + Accepted(n) \in 0 .. StreamSamples
    BY <1>1, SourceConfig DEF QueueTypeOK
  <2>. QED  BY <1>1, <1>3, <2>1 DEF QueueTypeOK, Push, Samples
<1>. QED  BY <1>1, <1>2, <1>3, <1>4, <1>5

LEMMA TakePending ==
  ASSUME QueueTypeOK, NEW n \in 0 .. Len(pending), Take(n)
  PROVE  /\ QueueTypeOK'
         /\ Len(pending') = Len(pending) - n
         /\ \A j \in 1 .. Len(pending') : pending'[j] = pending[n + j]
<1>1. Len(pending) \in Nat /\ pending \in Seq(Samples)
  BY LenProperties DEF QueueTypeOK
<1>2. \A i \in n + 1 .. Len(pending) : pending[i] \in Samples
  BY <1>1, ElementOfSeq
<1>3. /\ pending' \in Seq(Samples)
      /\ Len(pending') = IF n + 1 <= Len(pending)
                         THEN Len(pending) - (n + 1) + 1 ELSE 0
      /\ \A i \in 1 .. Len(pending) - (n + 1) + 1 :
           pending'[i] = pending[n + 1 + i - 1]
  BY <1>1, <1>2, SubSeqProperties DEF Take
<1>4. Len(pending') = Len(pending) - n
  BY <1>1, <1>3
<1>5. QueueTypeOK'
  BY <1>1, <1>3, <1>4, SourceConfig DEF QueueTypeOK, Take, Samples
<1>. QED  BY <1>1, <1>3, <1>4, <1>5

\* The queue goes on holding the last accepted samples ...
LEMMA PushKeepsTail ==
  ASSUME QueueTypeOK, QueueIsTail, NEW n \in 1 .. (StreamSamples - fed), Push(n)
  PROVE  QueueIsTail'
<1>1. /\ Accepted(n) \in 0 .. n
      /\ Len(pending') = Len(pending) + Accepted(n)
      /\ \A j \in 1 .. Len(pending) : pending'[j] = pending[j]
      /\ \A j \in 1 .. Accepted(n) : pending'[Len(pending) + j] = fed + j
  BY PushPending
<1>2. fed' = fed + Accepted(n) /\ fed \in Nat /\ Len(pending) \in Nat
  BY LenProperties, SourceConfig DEF Push, QueueTypeOK
<1>3. ASSUME NEW j \in 1 .. Len(pending')
      PROVE  pending'[j] = fed' - Len(pending') + j
  <2>1. CASE j <= Len(pending)
    <3>1. j \in 1 .. Len(pending)
      BY <1>1, <1>2, <2>1
    <3>2. pending'[j] = fed - Len(pending) + j
      BY <1>1, <3>1 DEF QueueIsTail
    <3>. QED  BY <1>1, <1>2, <3>2
  <2>2. CASE j > Len(pending)
    <3>1. j - Len(pending) \in 1 .. Accepted(n)
      BY <1>1, <1>2, <2>2
    <3>2. pending'[Len(pending) + (j - Len(pending))] = fed + (j - Len(pending))
      BY <1>1, <3>1
    <3>. QED  BY <1>1, <1>2, <3>2
  <2>. QED  BY <1>1, <1>2, <2>1, <2>2
<1>. QED  BY <1>1, <1>2, <1>3 DEF QueueIsTail

\* ... also when its head is taken.
LEMMA TakeKeepsTail ==
  ASSUME QueueTypeOK, QueueIsTail, NEW n \in 0 .. Len(pending), Take(n)
  PROVE  QueueIsTail'
<1>1. /\ Len(pending') = Len(pending) - n
      /\ \A j \in 1 .. Len(pending') : pending'[j] = pending[n + j]
  BY TakePending
<1>2. fed' = fed /\ fed \in Nat /\ Len(pending) \in Nat
  BY LenProperties, SourceConfig DEF Take, QueueTypeOK
<1>3. ASSUME NEW j \in 1 .. Len(pending')
      PROVE  pending'[j] = fed' - Len(pending') + j
  <2>1. n + j \in 1 .. Len(pending)
    BY <1>1, <1>2
  <2>2. pending[n + j] = fed - Len(pending) + (n + j)
    BY <2>1 DEF QueueIsTail
  <2>3. pending'[j] = pending[n + j]
    BY <1>1
  <2>. QED  BY <1>1, <1>2, <2>2, <2>3
<1>. QED  BY <1>1, <1>2, <1>3 DEF QueueIsTail

\* A finished and drained input stays so: Push takes nothing more.
LEMMA PushAfterTheEnd ==
  ASSUME QueueTypeOK, NEW n \in 1 .. (StreamSamples - fed), Push(n), FinishedAndDrained
  PROVE  FinishedAndDrained' /\ UNCHANGED <<pending, fed>>
<1>1. Accepted(n) = 0
  BY DEF Accepted, FinishedAndDrained
<1>2. Len(pending) = 0 /\ fed \in Nat
  BY EmptySeq, SourceConfig DEF FinishedAndDrained, QueueTypeOK
<1>3. pending' \in Seq(Samples) /\ Len(pending') = 0
  BY <1>1, <1>2, PushPending DEF QueueTypeOK, Samples
<1>4. pending' = <<>>
  BY <1>3, EmptySeq
<1>. QED  BY <1>1, <1>2, <1>4 DEF Push, FinishedAndDrained
=============================================================================
