-------------------------- MODULE AsrSession_proofs --------------------------
(***************************************************************************)
(* Proofs about the windowed push source and the session over it, for      *)
(* every window, overlap and queue size that SourceConfig allows,          *)
(* recordings of any length and every interleaving of the caller's         *)
(* threads.                                                                *)
(*                                                                         *)
(* First the source on its own (PushAudioSource); then the session: it     *)
(* drives its source as PushAudioSource allows, so everything proved there *)
(* holds inside it, and its final result is complete.                      *)
(***************************************************************************)
EXTENDS AsrSession, PushQueue_proofs

-----------------------------------------------------------------------------
(***************************************************************************)
(* The source.                                                             *)
(***************************************************************************)
Audio == Samples \cup {Silence}

-----------------------------------------------------------------------------

\* Where the fresh part of a window starts: right after the window before.
LEMMA FreshStartProperties ==
  /\ FreshStart(1) = 1
  /\ \A k \in Nat \ {0} : /\ FreshStart(k) \in Nat \ {0}
                          /\ FreshFrom(k) \in 1 .. WindowSamples
                          /\ FreshStart(k + 1) = FreshStart(k)
                                + WindowSamples - FreshFrom(k) + 1
  /\ \A k, l \in Nat \ {0} : k <= l => FreshStart(k) <= FreshStart(l)
<1>1. FreshStart(1) = 1
  BY DEF FreshStart
<1>2. ASSUME NEW k \in Nat \ {0}
      PROVE  FreshStart(k) \in Nat \ {0} /\ FreshFrom(k) \in 1 .. WindowSamples
  <2>1. CASE k = 1
    BY <2>1, SourceConfig DEF FreshStart, FreshFrom
  <2>2. CASE k # 1
    <3>1. k - 2 \in Nat /\ (k - 2) * StepSamples \in Nat
      BY <2>2, StepIsPositive
    <3>. QED  BY <2>2, <3>1, SourceConfig DEF FreshStart, FreshFrom
  <2>. QED  BY <2>1, <2>2
<1>3. ASSUME NEW k \in Nat \ {0}
      PROVE  FreshStart(k + 1) = FreshStart(k) + WindowSamples - FreshFrom(k) + 1
  <2>1. CASE k = 1
    <3>1. FreshStart(k + 1) = WindowSamples + 0 * StepSamples + 1
      BY <2>1 DEF FreshStart
    <3>. QED  BY <2>1, <3>1, StepIsPositive, SourceConfig DEF FreshStart, FreshFrom
  <2>2. CASE k # 1
    <3>1. (k - 1) * StepSamples = (k - 2) * StepSamples + StepSamples
      BY StepIsPositive
    <3>2. FreshStart(k + 1) = WindowSamples + (k - 1) * StepSamples + 1
      BY <2>2 DEF FreshStart
    <3>3. FreshStart(k) = WindowSamples + (k - 2) * StepSamples + 1
      BY <2>2 DEF FreshStart
    <3>4. (k - 2) * StepSamples \in Int
      BY StepIsPositive
    <3>. QED  BY <2>2, <3>1, <3>2, <3>3, <3>4, StepIsPositive, SourceConfig DEF FreshFrom
  <2>. QED  BY <2>1, <2>2
<1>4. ASSUME NEW k \in Nat \ {0}, NEW l \in Nat \ {0}, k <= l
      PROVE  FreshStart(k) <= FreshStart(l)
  <2>1. CASE k = 1
    BY <1>1, <1>2, <2>1
  <2>2. CASE k # 1
    <3>1. (l - 2) * StepSamples = (k - 2) * StepSamples + (l - k) * StepSamples
      BY StepIsPositive
    <3>2. (l - k) * StepSamples \in Nat /\ (k - 2) * StepSamples \in Nat
      <4>1. l - k \in Nat /\ k - 2 \in Nat
        BY <1>4, <2>2
      <4>. QED  BY <4>1, StepIsPositive
    <3>. QED  BY <1>4, <2>2, <3>1, <3>2, SourceConfig DEF FreshStart
  <2>. QED  BY <2>1, <2>2
<1>. QED  BY <1>1, <1>2, <1>3, <1>4

\* A window is the kept overlap, then what was taken off the queue, then
\* silence.
LEMMA ChunkProperties ==
  ASSUME SourceTypeOK, Len(overlap) = IF started THEN OverlapSamples ELSE 0
  PROVE  /\ Required + Len(overlap) = WindowSamples
         /\ Required \in Nat \ {0}
         /\ Taken \in 0 .. Required
         /\ Taken = IF Len(pending) < Required THEN Len(pending) ELSE Required
         /\ Chunk \in [1 .. WindowSamples -> Audio]
         /\ \A i \in 1 .. WindowSamples :
              Chunk[i] = IF i <= Len(overlap) THEN overlap[i]
                         ELSE IF i <= Len(overlap) + Taken
                              THEN pending[i - Len(overlap)] ELSE Silence
<1>. DEFINE head == IF started THEN overlap ELSE <<>>
            body == SubSeq(pending, 1, Taken)
<1>1. Required + Len(overlap) = WindowSamples /\ Required \in Nat \ {0}
  BY StepIsPositive, SourceConfig DEF Required
<1>2. Len(pending) \in Nat /\ pending \in Seq(Audio)
  BY LenProperties, SeqMonotonic DEF SourceTypeOK, QueueTypeOK, Audio
<1>3. Taken \in 0 .. Required /\ Taken \in 0 .. Len(pending)
  BY <1>1, <1>2 DEF Taken
<1>4. /\ head \in Seq(Audio) /\ Len(head) = Len(overlap) /\ Len(overlap) \in Nat
      /\ \A i \in 1 .. Len(overlap) : head[i] = overlap[i]
  <2>1. overlap \in Seq(Audio) /\ Len(overlap) \in Nat
    BY LenProperties DEF SourceTypeOK, Audio
  <2>2. CASE started
    BY <2>1, <2>2
  <2>3. CASE ~started
    <3>1. Len(overlap) = 0 /\ head = <<>>
      BY <2>3
    <3>2. head \in Seq(Audio) /\ Len(head) = 0
      BY <3>1, EmptySeq
    <3>. QED  BY <3>1, <3>2
  <2>. QED  BY <2>2, <2>3
<1>5. /\ body \in Seq(Audio) /\ Len(body) = Taken
      /\ \A i \in 1 .. Taken : body[i] = pending[i]
  <2>1. \A i \in 1 .. Taken : pending[i] \in Audio
    BY <1>2, <1>3, ElementOfSeq
  <2>2. Taken \in Int /\ 1 \in Int
    BY <1>1, <1>3
  <2>3. /\ body \in Seq(Audio)
        /\ Len(body) = IF 1 <= Taken THEN Taken - 1 + 1 ELSE 0
        /\ \A i \in 1 .. Taken - 1 + 1 : body[i] = pending[1 + i - 1]
    BY <2>1, <2>2, SubSeqProperties
  <2>. QED  BY <1>1, <1>3, <2>3
<1>6. /\ head \o body \in Seq(Audio)
      /\ Len(head \o body) = Len(overlap) + Taken
      /\ \A i \in 1 .. Len(overlap) + Taken :
           (head \o body)[i] = IF i <= Len(overlap) THEN head[i]
                               ELSE body[i - Len(overlap)]
  BY <1>4, <1>5, ConcatProperties
<1>7. \A i \in 1 .. Len(overlap) + Taken : (head \o body)[i] \in Audio
  BY <1>6, ElementOfSeq
<1>. HIDE DEF head, body
<1>8. Chunk = PadToWindow(head \o body)
  BY DEF Chunk, head, body
<1>9. \A i \in 1 .. WindowSamples :
        /\ Chunk[i] = IF i <= Len(overlap) THEN overlap[i]
                      ELSE IF i <= Len(overlap) + Taken
                           THEN pending[i - Len(overlap)] ELSE Silence
        /\ Chunk[i] \in Audio
  BY <1>1, <1>3, <1>4, <1>5, <1>6, <1>7, <1>8, SMTT(30) DEF PadToWindow, Audio
<1>10. Chunk \in [1 .. WindowSamples -> Audio]
  BY <1>8, <1>9 DEF PadToWindow
<1>. QED  BY <1>1, <1>3, <1>9, <1>10 DEF Taken


-----------------------------------------------------------------------------

\* The samples that windows have carried so far, silence included.
Carried == FreshStart(Len(outputs) + 1) - 1

\* overlap_ and started_ describe the last window.
OverlapIsLastTail ==
  /\ started <=> Len(outputs) > 0
  /\ Len(overlap) = IF started THEN OverlapSamples ELSE 0
  /\ started => \A i \in 1 .. OverlapSamples :
       overlap[i] = outputs[Len(outputs)][StepSamples + i]

\* Every window carries at least one sample of the recording, and only a
\* finished input is cut short of a whole window.
ShortWindowsEndTheStream ==
  /\ Len(outputs) > 0 => FreshStart(Len(outputs)) <= fed
  /\ Carried > fed => FinishedAndDrained

WindowContents(k) ==
  \A i \in FreshFrom(k) .. WindowSamples :
    LET sample == FreshStart(k) + i - FreshFrom(k)
    IN outputs[k][i] = IF sample <= fed THEN sample ELSE Silence

SourceInv ==
  /\ SourceTypeOK
  /\ OverlapIsLastTail
  /\ ShortWindowsEndTheStream
  /\ \A k \in 1 .. Len(outputs) : WindowContents(k)
  /\ Len(pending) = IF Carried <= fed THEN fed - Carried ELSE 0
  /\ QueueIsTail
  /\ ConsecutiveWindowsOverlap

\* The empty source, which Init and Reset both produce.
LEMMA EmptySourceInv == SourceInit => SourceInv
<1> SUFFICES ASSUME SourceInit PROVE SourceInv
  OBVIOUS
<1> USE DEF SourceInit, QueueInit
<1>1. SourceTypeOK
  <2>1. /\ pending \in Seq(Samples) /\ Len(pending) = 0
        /\ overlap \in Seq(Samples \cup {Silence})
        /\ outputs \in Seq([1 .. WindowSamples -> Samples \cup {Silence}])
    BY EmptySeq
  <2>2. Len(pending) <= MaxBufferedSamples /\ fed \in 0 .. StreamSamples
    BY <2>1, SourceConfig
  <2>3. QueueTypeOK
    BY <2>1, <2>2 DEF QueueTypeOK
  <2>. QED  BY <2>1, <2>3 DEF SourceTypeOK
<1>2. Len(pending) = 0 /\ Len(overlap) = 0 /\ Len(outputs) = 0
  BY EmptySeq
<1>3. Carried = 0
  BY <1>2, FreshStartProperties DEF Carried
<1>. QED  BY <1>1, <1>2, <1>3 DEF SourceInv, OverlapIsLastTail,
       ShortWindowsEndTheStream, QueueIsTail, ConsecutiveWindowsOverlap

LEMMA ResetMakesEmpty == Reset => SourceInit'
BY DEF Reset, ClearQueue, SourceInit, QueueInit

LEMMA CarriedIsNat ==
  ASSUME SourceTypeOK
  PROVE  /\ Len(outputs) \in Nat /\ Carried \in Nat
         /\ FreshStart(Len(outputs) + 1) = Carried + 1
<1>1. Len(outputs) \in Nat /\ Len(outputs) + 1 \in Nat \ {0}
  <2>1. Len(outputs) \in Nat
    BY LenProperties DEF SourceTypeOK
  <2>. QED  BY <2>1
<1>2. FreshStart(Len(outputs) + 1) \in Nat \ {0}
  BY <1>1, FreshStartProperties
<1>. QED  BY <1>1, <1>2 DEF Carried

\* A fresh sample of a window lies before the samples of the next one.
LEMMA WindowBeforeCarried ==
  ASSUME SourceTypeOK, NEW k \in 1 .. Len(outputs),
         NEW i \in FreshFrom(k) .. WindowSamples
  PROVE  /\ FreshStart(k) + i - FreshFrom(k) \in Nat \ {0}
         /\ FreshStart(k) + i - FreshFrom(k) <= Carried
         /\ Carried \in Nat
<1>1. Len(outputs) \in Nat
  BY LenProperties DEF SourceTypeOK
<1>2. FreshStart(k + 1) <= FreshStart(Len(outputs) + 1)
  BY <1>1, FreshStartProperties
<1>3. /\ FreshStart(k) \in Nat \ {0} /\ FreshFrom(k) \in 1 .. WindowSamples
      /\ FreshStart(k + 1) = FreshStart(k) + WindowSamples - FreshFrom(k) + 1
      /\ FreshStart(Len(outputs) + 1) \in Nat \ {0}
  BY <1>1, FreshStartProperties, SMTT(30)
<1>. QED  BY <1>2, <1>3, SourceConfig, SMTT(30) DEF Carried

LEMMA InputStepInv == SourceInv /\ InputStep => SourceInv'
<1> SUFFICES ASSUME SourceInv, InputStep PROVE SourceInv'
  OBVIOUS
<1>0. /\ QueueTypeOK /\ SourceTypeOK /\ UNCHANGED <<overlap, started, outputs>>
      /\ fed \in Nat /\ Len(outputs) \in Nat /\ Len(pending) \in Nat
      /\ Carried \in Nat /\ Carried' = Carried
  <2>1. Len(outputs) \in Nat /\ Len(pending) \in Nat
    BY LenProperties DEF SourceInv, SourceTypeOK, QueueTypeOK
  <2>2. Carried \in Nat
    BY CarriedIsNat DEF SourceInv
  <2>. QED  BY <2>1, <2>2, SourceConfig DEF SourceInv, SourceTypeOK, QueueTypeOK,
         InputStep, windowVars, Carried
<1>1. OverlapIsLastTail' /\ ConsecutiveWindowsOverlap'
  BY <1>0 DEF SourceInv, OverlapIsLastTail, ConsecutiveWindowsOverlap
<1>2. ASSUME NEW n \in 1 .. (StreamSamples - fed), Push(n)
      PROVE  SourceInv'
  <2>1. /\ Accepted(n) \in 0 .. n
        /\ QueueTypeOK'
        /\ Len(pending') = Len(pending) + Accepted(n)
        /\ \A j \in 1 .. Len(pending) : pending'[j] = pending[j]
        /\ \A j \in 1 .. Accepted(n) : pending'[Len(pending) + j] = fed + j
    BY <1>0, <1>2, PushPending
  <2>2. fed' = fed + Accepted(n) /\ finished' = finished
    BY <1>2 DEF Push
  <2>3. Accepted(n) > 0 => Carried <= fed
    BY <1>0, <2>1 DEF SourceInv, ShortWindowsEndTheStream, FinishedAndDrained,
       Accepted
  <2>4. SourceTypeOK'
    BY <1>0, <2>1 DEF SourceTypeOK, Samples
  <2>5. ShortWindowsEndTheStream'
    <3>1. Carried > fed => FinishedAndDrained'
      BY <1>0, <1>2, PushAfterTheEnd DEF SourceInv, ShortWindowsEndTheStream
    <3>2. Carried' > fed' => Carried > fed
      BY <1>0, <2>1, <2>2
    <3>3. (Len(outputs) > 0 => FreshStart(Len(outputs)) <= fed)'
      <4>1. Len(outputs) > 0 => FreshStart(Len(outputs)) \in Nat
        BY <1>0, FreshStartProperties
      <4>. QED  BY <1>0, <2>1, <2>2, <4>1 DEF SourceInv, ShortWindowsEndTheStream
    <3>. QED  BY <3>1, <3>2, <3>3 DEF ShortWindowsEndTheStream
  <2>6. (\A k \in 1 .. Len(outputs) : WindowContents(k))'
    <3> SUFFICES ASSUME NEW k \in 1 .. Len(outputs),
                        NEW i \in FreshFrom(k) .. WindowSamples
        PROVE  LET sample == FreshStart(k) + i - FreshFrom(k)
               IN outputs[k][i] = IF sample <= fed' THEN sample ELSE Silence
      BY <1>0 DEF WindowContents
    <3> DEFINE sample == FreshStart(k) + i - FreshFrom(k)
    <3>1. outputs[k][i] = IF sample <= fed THEN sample ELSE Silence
      BY DEF SourceInv, WindowContents
    <3>2. sample \in Nat /\ sample <= Carried
      BY <1>0, WindowBeforeCarried
    <3> HIDE DEF sample
    <3>3. sample <= fed <=> sample <= fed'
      BY <1>0, <2>1, <2>2, <2>3, <3>2
    <3>. QED  BY <3>1, <3>3 DEF sample
  <2>7. (Len(pending) = IF Carried <= fed THEN fed - Carried ELSE 0)'
    BY <1>0, <2>1, <2>2, <2>3 DEF SourceInv
  <2>8. QueueIsTail'
    BY <1>0, <1>2, PushKeepsTail DEF SourceInv
  <2>. QED  BY <1>1, <2>4, <2>5, <2>6, <2>7, <2>8 DEF SourceInv
<1>3. ASSUME Finish \/ Cancel
      PROVE  SourceInv'
  <2>1. /\ UNCHANGED <<pending, fed>> /\ finished' \in BOOLEAN /\ cancelled' \in BOOLEAN
        /\ finished => finished'
    BY <1>0, <1>3 DEF Finish, Cancel, QueueTypeOK
  <2>2. SourceTypeOK'
    BY <1>0, <2>1 DEF SourceTypeOK, QueueTypeOK, Samples
  <2>3. ShortWindowsEndTheStream' /\ QueueIsTail'
    BY <1>0, <2>1 DEF SourceInv, ShortWindowsEndTheStream, FinishedAndDrained,
       QueueIsTail
  <2>4. (\A k \in 1 .. Len(outputs) : WindowContents(k))'
    BY <1>0, <2>1 DEF SourceInv, WindowContents
  <2>5. (Len(pending) = IF Carried <= fed THEN fed - Carried ELSE 0)'
    BY <1>0, <2>1 DEF SourceInv
  <2>. QED  BY <1>1, <2>2, <2>3, <2>4, <2>5 DEF SourceInv
<1>. QED  BY <1>2, <1>3 DEF InputStep

LEMMA EmitWindowInv == SourceInv /\ EmitWindow => SourceInv'
<1> SUFFICES ASSUME SourceInv, EmitWindow PROVE SourceInv'
  OBVIOUS
<1>. DEFINE L == Len(outputs)
            o == Len(overlap)
<1>0. /\ SourceTypeOK /\ QueueTypeOK
      /\ fed \in Nat /\ L \in Nat /\ Len(pending) \in Nat /\ o \in Nat
      /\ L + 1 \in Nat \ {0} /\ L + 1 + 1 \in Nat \ {0}
      /\ L > 0 => L \in Nat \ {0}
  <2>1. L \in Nat /\ Len(pending) \in Nat /\ o \in Nat
    BY LenProperties DEF SourceInv, SourceTypeOK, QueueTypeOK
  <2>. QED  BY <2>1, SourceConfig, SMTT(30) DEF SourceInv, SourceTypeOK, QueueTypeOK
<1>1. /\ Required + o = WindowSamples
      /\ Required \in Nat \ {0}
      /\ Taken \in 0 .. Required
      /\ Taken = IF Len(pending) < Required THEN Len(pending) ELSE Required
      /\ Chunk \in [1 .. WindowSamples -> Audio]
      /\ \A i \in 1 .. WindowSamples :
           Chunk[i] = IF i <= o THEN overlap[i]
                      ELSE IF i <= o + Taken
                           THEN pending[i - o] ELSE Silence
  BY <1>0, ChunkProperties DEF SourceInv, OverlapIsLastTail
\* The steps below see the new queue through these facts only.
<1>2. /\ QueueTypeOK'
      /\ Len(pending') = Len(pending) - Taken
      /\ \A j \in 1 .. Len(pending') : pending'[j] = pending[Taken + j]
  <2>1. Taken \in 0 .. Len(pending)
    BY <1>0, <1>1
  <2>. QED  BY <1>0, <2>1, TakePending DEF EmitWindow
<1>3. UNCHANGED <<finished, cancelled, fed>> /\ started' = TRUE
  BY DEF EmitWindow, Take
<1>4. /\ outputs' \in Seq([1 .. WindowSamples -> Audio])
      /\ Len(outputs') = L + 1
      /\ \A k \in 1 .. L : outputs'[k] = outputs[k]
      /\ outputs'[L + 1] = Chunk
  BY <1>0, <1>1, AppendProperties DEF EmitWindow, SourceTypeOK, Audio
<1>5. /\ overlap' \in Seq(Audio)
      /\ Len(overlap') = OverlapSamples
      /\ \A i \in 1 .. OverlapSamples : overlap'[i] = Chunk[StepSamples + i]
  <2>1. \A i \in StepSamples + 1 .. WindowSamples : Chunk[i] \in Audio
    BY <1>1, StepIsPositive, SourceConfig
  <2>2. StepSamples + 1 \in Int /\ WindowSamples \in Int
    BY StepIsPositive, SourceConfig
  <2>3. /\ overlap' \in Seq(Audio)
        /\ Len(overlap') = IF StepSamples + 1 <= WindowSamples
                           THEN WindowSamples - (StepSamples + 1) + 1 ELSE 0
        /\ \A i \in 1 .. WindowSamples - (StepSamples + 1) + 1 :
             overlap'[i] = Chunk[StepSamples + 1 + i - 1]
    BY <2>1, <2>2, SubSeqProperties DEF EmitWindow
  <2>. QED  BY <2>3, StepIsPositive, SourceConfig
<1>6. SourceTypeOK'
  BY <1>2, <1>3, <1>4, <1>5 DEF SourceTypeOK, Audio, Samples
<1>7. OverlapIsLastTail'
  BY <1>0, <1>3, <1>4, <1>5 DEF OverlapIsLastTail
<1>8. /\ Carried \in Nat /\ Carried <= fed
      /\ Len(pending) = fed - Carried /\ Len(pending) > 0
      /\ Len(pending) >= Required \/ finished
  <2>1. Carried \in Nat
    BY <1>0, CarriedIsNat
  <2>2. ~FinishedAndDrained /\ (finished \/ Len(pending) >= Required)
    <3>1. ScheduleStatus = "OK"
      BY DEF EmitWindow
    <3>2. ~cancelled /\ ~FinishedAndDrained
      BY <3>1 DEF ScheduleStatus
    <3>3. ~(~finished /\ Len(pending) < Required)
      BY <3>1, <3>2 DEF ScheduleStatus
    <3>. QED  BY <1>0, <1>1, <3>2, <3>3
  <2>3. Len(pending) > 0
    <3>1. CASE pending = <<>>
      <4>1. Len(pending) >= Required
        BY <2>2, <3>1 DEF FinishedAndDrained
      <4>. QED  BY <1>0, <1>1, <4>1
    <3>2. CASE pending # <<>>
      BY <1>0, <3>2, EmptySeq DEF QueueTypeOK
    <3>. QED  BY <3>1, <3>2
  <2>4. Carried <= fed
    BY <1>0, <2>1, <2>2 DEF SourceInv, ShortWindowsEndTheStream
  <2>. QED  BY <2>1, <2>2, <2>3, <2>4 DEF SourceInv
<1>9. /\ FreshStart(L + 1) = Carried + 1
      /\ FreshFrom(L + 1) = o + 1
      /\ Carried' = Carried + Required
  <2>1. FreshStart(L + 1) = Carried + 1
    BY <1>0, FreshStartProperties, SMTT(30) DEF Carried
  <2>2. FreshFrom(L + 1) = o + 1
    BY <1>0 DEF SourceInv, OverlapIsLastTail, FreshFrom
  <2>3. Carried' = FreshStart(L + 1 + 1) - 1
    BY <1>4 DEF Carried
  <2>4. FreshStart(L + 1 + 1) =
          FreshStart(L + 1) + WindowSamples - FreshFrom(L + 1) + 1
    BY <1>0, FreshStartProperties
  <2>. QED  BY <1>0, <1>1, <1>8, <2>1, <2>2, <2>3, <2>4, SourceConfig
<1>10. ShortWindowsEndTheStream'
  <2>1. (Len(outputs) > 0 => FreshStart(Len(outputs)) <= fed)'
    BY <1>0, <1>3, <1>4, <1>8, <1>9
  <2>2. Carried' > fed' => FinishedAndDrained'
    <3> SUFFICES ASSUME Carried' > fed' PROVE FinishedAndDrained'
      OBVIOUS
    <3>1. Len(pending) < Required
      BY <1>0, <1>1, <1>3, <1>8, <1>9
    <3>2. Len(pending') = 0 /\ finished'
      BY <1>0, <1>1, <1>2, <1>3, <1>8, <3>1
    <3>3. pending' \in Seq(Samples)
      BY <1>2 DEF QueueTypeOK, Samples
    <3>4. pending' = <<>>
      BY <3>2, <3>3, EmptySeq
    <3>. QED  BY <3>2, <3>4 DEF FinishedAndDrained
  <2>. QED  BY <2>1, <2>2 DEF ShortWindowsEndTheStream
<1>11. (\A k \in 1 .. Len(outputs) : WindowContents(k))'
  <2> SUFFICES ASSUME NEW k \in 1 .. L + 1,
                      NEW i \in FreshFrom(k) .. WindowSamples
      PROVE  outputs'[k][i] = IF FreshStart(k) + i - FreshFrom(k) <= fed
                              THEN FreshStart(k) + i - FreshFrom(k) ELSE Silence
    BY <1>3, <1>4 DEF WindowContents
  <2>1. CASE k \in 1 .. L
    BY <1>4, <2>1 DEF SourceInv, WindowContents
  <2>2. CASE k = L + 1
    <3>1. /\ outputs'[k][i] = Chunk[i]
          /\ FreshStart(k) + i - FreshFrom(k) = Carried + (i - o)
          /\ i \in o + 1 .. WindowSamples
      <4>1. outputs'[k] = Chunk
        BY <1>4, <2>2
      <4>2. FreshStart(k) = Carried + 1 /\ FreshFrom(k) = o + 1
        BY <1>9, <2>2
      <4>3. i \in o + 1 .. WindowSamples
        BY <4>2
      <4>4. Carried \in Nat /\ o \in Nat /\ WindowSamples \in Nat
        BY <1>0, <1>8, SourceConfig
      <4>. QED  BY <4>1, <4>2, <4>3, <4>4
    <3>2. CASE i <= o + Taken
      <4>1. i - o \in 1 .. Len(pending)
        BY <1>0, <1>1, <3>1, <3>2
      <4>2. pending[i - o] = fed - Len(pending) + (i - o)
        BY <4>1 DEF SourceInv, QueueIsTail
      <4>3. Chunk[i] = pending[i - o]
        BY <1>0, <1>1, <3>1, <3>2, SourceConfig
      <4>4. Carried + (i - o) <= fed /\ pending[i - o] = Carried + (i - o)
        BY <1>0, <1>8, <4>1, <4>2
      <4>. QED  BY <3>1, <4>3, <4>4
    <3>3. CASE i > o + Taken
      <4>1. Taken = Len(pending)
        BY <1>0, <1>1, <3>1, <3>3, SourceConfig
      <4>2. Chunk[i] = Silence
        BY <1>0, <1>1, <3>1, <3>3, SourceConfig
      <4>3. Carried + (i - o) > fed
        BY <1>0, <1>8, <3>1, <3>3, <4>1
      <4>. QED  BY <1>0, <1>8, <3>1, <4>2, <4>3
    <3>. QED  BY <1>0, <1>1, <3>1, <3>2, <3>3
  <2>. QED  BY <1>0, <2>1, <2>2
<1>12. (Len(pending) = IF Carried <= fed THEN fed - Carried ELSE 0)'
  BY <1>0, <1>1, <1>2, <1>3, <1>8, <1>9
<1>13. QueueIsTail'
  <2>1. Taken \in 0 .. Len(pending)
    BY <1>0, <1>1
  <2>. QED  BY <1>0, <2>1, TakeKeepsTail DEF SourceInv, EmitWindow
<1>14. ConsecutiveWindowsOverlap'
  <2> SUFFICES ASSUME NEW k \in 2 .. L + 1, NEW i \in 1 .. OverlapSamples
      PROVE  outputs'[k][i] = outputs'[k - 1][StepSamples + i]
    BY <1>4 DEF ConsecutiveWindowsOverlap
  <2>1. CASE k \in 2 .. L
    <3>1. k - 1 \in 1 .. L /\ k \in 1 .. L
      BY <1>0, <2>1
    <3>2. outputs[k][i] = outputs[k - 1][StepSamples + i]
      BY <2>1 DEF SourceInv, ConsecutiveWindowsOverlap
    <3>3. outputs'[k] = outputs[k] /\ outputs'[k - 1] = outputs[k - 1]
      BY <1>4, <3>1
    <3>. QED  BY <3>2, <3>3
  <2>2. CASE k = L + 1
    <3>1. started /\ o = OverlapSamples /\ L \in 1 .. L
      BY <1>0, <2>2 DEF SourceInv, OverlapIsLastTail
    <3>2. Chunk[i] = overlap[i]
      BY <1>1, <3>1, SourceConfig
    <3>3. overlap[i] = outputs[L][StepSamples + i]
      BY <3>1 DEF SourceInv, OverlapIsLastTail
    <3>. QED  BY <1>0, <1>4, <2>2, <3>1, <3>2, <3>3
  <2>. QED  BY <1>0, <2>1, <2>2
<1>. QED  BY <1>6, <1>7, <1>10, <1>11, <1>12, <1>13, <1>14 DEF SourceInv

LEMMA SourceInvIsInductive == SourceInv /\ [SourceNext]_sourceVars => SourceInv'
<1> SUFFICES ASSUME SourceInv, [SourceNext]_sourceVars PROVE SourceInv'
  OBVIOUS
<1>1. CASE InputStep
  BY <1>1, InputStepInv
<1>2. CASE EmitWindow
  BY <1>2, EmitWindowInv
<1>3. CASE Reset
  <2>1. SourceInit'
    BY <1>3, ResetMakesEmpty
  <2>2. SourceInit' => SourceInv'
    BY EmptySourceInv, PTL
  <2>. QED  BY <2>1, <2>2
<1>4. CASE UNCHANGED sourceVars
  BY <1>4 DEF SourceInv, SourceTypeOK, QueueTypeOK, OverlapIsLastTail,
     ShortWindowsEndTheStream, FinishedAndDrained, WindowContents, Carried,
     QueueIsTail, ConsecutiveWindowsOverlap, sourceVars, queueVars, windowVars,
     Samples
<1>. QED  BY <1>1, <1>2, <1>3, <1>4 DEF SourceNext

\* Every behaviour of the source keeps its queue, its overlap buffer and the
\* windows it emitted consistent.
THEOREM SourceInvHolds == SourceSpec => []SourceInv
BY EmptySourceInv, SourceInvIsInductive, PTL DEF SourceSpec

-----------------------------------------------------------------------------

LEMMA CarriesTheRecording == SourceInv => WindowsCarryTheRecording
BY DEF SourceInv, WindowContents, WindowsCarryTheRecording, Carried

\* Silence at the end of a window means it reached past the recording.
LEMMA PaddedWindowIsLast == SourceInv => PaddingOnlyEndsTheStream
<1> SUFFICES ASSUME SourceInv, NEW k \in 1 .. Len(outputs),
                    outputs[k][WindowSamples] = Silence
    PROVE  k = Len(outputs) /\ FinishedAndDrained
  BY DEF PaddingOnlyEndsTheStream
<1>. DEFINE last == FreshStart(k) + WindowSamples - FreshFrom(k)
<1>1. /\ Len(outputs) \in Nat /\ fed \in Nat /\ k \in Nat \ {0}
      /\ Carried \in Nat /\ FreshStart(Len(outputs) + 1) = Carried + 1
      /\ SourceTypeOK
  BY CarriedIsNat, SourceConfig DEF SourceInv, SourceTypeOK, QueueTypeOK
<1>2. WindowSamples \in FreshFrom(k) .. WindowSamples
  BY <1>1, FreshStartProperties, SourceConfig
<1>3. outputs[k][WindowSamples] = IF last <= fed THEN last ELSE Silence
  BY <1>2 DEF SourceInv, WindowContents
<1>4. last \in Nat \ {0} /\ last <= Carried
  BY <1>1, <1>2, WindowBeforeCarried
<1>5. FreshStart(k + 1) = last + 1
  BY <1>1, <1>4, FreshStartProperties, SourceConfig
<1>. HIDE DEF last
<1>6. last > fed
  BY <1>1, <1>3, <1>4 DEF Silence
<1>7. FinishedAndDrained
  BY <1>1, <1>4, <1>6 DEF SourceInv, ShortWindowsEndTheStream
<1>8. k = Len(outputs)
  <2> SUFFICES ASSUME k < Len(outputs) PROVE FALSE
    BY <1>1
  <2>1. k + 1 \in Nat \ {0} /\ k + 1 <= Len(outputs) /\ Len(outputs) \in Nat \ {0}
    BY <1>1
  <2>2. FreshStart(k + 1) <= FreshStart(Len(outputs))
    BY <2>1, FreshStartProperties
  <2>3. FreshStart(Len(outputs)) <= fed /\ FreshStart(Len(outputs)) \in Nat
    BY <2>1, FreshStartProperties DEF SourceInv, ShortWindowsEndTheStream
  <2>. QED  BY <1>1, <1>4, <1>5, <1>6, <2>2, <2>3
<1>. QED  BY <1>7, <1>8

LEMMA RequiredFitsTheQueue == Required \in Nat /\ Required <= MaxBufferedSamples
BY StepIsPositive, SourceConfig DEF Required

LEMMA FullQueueCanBeProcessed == SourceInv => FullQueueIsProcessable
<1> SUFFICES ASSUME SourceInv, Room = 0 PROVE CanProcess
  BY DEF FullQueueIsProcessable
<1>1. Len(pending) \in Nat
  BY LenProperties DEF SourceInv, SourceTypeOK, QueueTypeOK
<1>2. Len(pending) >= MaxBufferedSamples
  BY <1>1, SourceConfig DEF Room
<1>. QED  BY <1>1, <1>2, RequiredFitsTheQueue, SourceConfig DEF CanProcess

LEMMA CanProcessIsHonest == SourceInv => CanProcessAgreesWithSchedule
<1> SUFFICES ASSUME SourceInv PROVE CanProcessAgreesWithSchedule
  OBVIOUS
<1>1. Len(pending) \in Nat /\ Required \in Nat
  BY LenProperties, RequiredFitsTheQueue DEF SourceInv, SourceTypeOK, QueueTypeOK
<1>2. Required > 0
  BY StepIsPositive, SourceConfig DEF Required
<1>3. pending = <<>> => Len(pending) = 0
  BY EmptySeq
<1>4. CASE cancelled
  BY <1>4 DEF CanProcessAgreesWithSchedule, CanProcess, ScheduleStatus
<1>5. CASE ~cancelled /\ FinishedAndDrained
  BY <1>1, <1>2, <1>3, <1>5 DEF CanProcessAgreesWithSchedule, CanProcess,
     ScheduleStatus, FinishedAndDrained
<1>6. CASE ~cancelled /\ ~finished /\ Len(pending) < Required
  <2>1. ScheduleStatus = "NOT_FOUND"
    BY <1>6 DEF ScheduleStatus, FinishedAndDrained
  <2>. QED  BY <1>1, <1>6, <2>1 DEF CanProcessAgreesWithSchedule, CanProcess
<1>7. CASE /\ ~cancelled /\ ~FinishedAndDrained
           /\ ~(~finished /\ Len(pending) < Required)
  <2>1. ScheduleStatus = "OK"
    BY <1>7 DEF ScheduleStatus
  <2>. QED  BY <1>1, <1>7, <2>1 DEF CanProcessAgreesWithSchedule, CanProcess,
         FinishedAndDrained
<1>. QED  BY <1>4, <1>5, <1>6, <1>7

\* No accepted sample is lost, duplicated or reordered between Push and the
\* windows handed to inference, for any window, overlap, capacity and length
\* of recording and any sequence of Push, Finish, Cancel, Schedule and Reset.
THEOREM SourceCarriesTheRecording == SourceSpec => []WindowsCarryTheRecording
BY SourceInvHolds, CarriesTheRecording, PTL

\* Each window repeats the end of the one before (overlap_ and started_).
THEOREM SourceWindowsOverlap == SourceSpec => []ConsecutiveWindowsOverlap
<1>1. SourceInv => ConsecutiveWindowsOverlap
  BY DEF SourceInv
<1>. QED  BY <1>1, SourceInvHolds, PTL

\* Silence is only ever padded at the very end of a finished recording.
THEOREM SourcePadsOnlyTheEnd == SourceSpec => []PaddingOnlyEndsTheStream
BY SourceInvHolds, PaddedWindowIsLast, PTL

\* A queue with no room always holds a whole window, so a caller that Push
\* turned away can make room by processing.
THEOREM SourceCannotWedge == SourceSpec => []FullQueueIsProcessable
BY SourceInvHolds, FullQueueCanBeProcessed, PTL

\* CanProcess answers what ScheduleInternal would then do.
THEOREM SourceCanProcessIsHonest == SourceSpec => []CanProcessAgreesWithSchedule
BY SourceInvHolds, CanProcessIsHonest, PTL

-----------------------------------------------------------------------------
(***************************************************************************)
(* The session.                                                            *)
(***************************************************************************)
\* The samples of the window whose inference is running.
InFlight == IF pc = "infer" THEN NewSamples ELSE {}

\* Every sample a window carried, as long as no failure was reported, is in
\* inference, in the merger, in the result in hand or with the caller.
NothingForgotten ==
  ~faulted =>
    merged \cup text \cup transcript \cup InFlight = {s \in 1 .. fed : s <= Carried}

\* A push in progress stays within the recording.
PushWithinRecording == pushPc # "idle" => pushCount \in 1 .. (StreamSamples - fed)

\* Where in process_next a result is in hand, and where the input has ended.
ResultInHand ==
  /\ output = "TEXT"
  /\ text # {} => pc \in {"recheckCancelled", "dispatch", "populate", "populateFinal"}
  /\ pc = "populateFinal" => merged = {}
  /\ pc \in {"flush", "populateFinal"} => FinishedAndDrained

\* After the final result only the checks at the head of a call run.
EndedIsOver ==
  ended => /\ finalReturned /\ FinishedAndDrained
           /\ pc \in {"idle", "checkCancelled", "resetSession"}
           /\ ~faulted => transcript = 1 .. fed

\* A reported cancellation is still in force, or a reset is completing.
CancelledStays ==
  status = "CANCELLED" =>
    \/ cancelled /\ pc \in {"idle", "checkCancelled", "resetSession"}
    \/ pc = "resetFlag"

ProcessInv ==
  /\ ProcessTypeOK
  /\ PushWithinRecording
  /\ ResultInHand
  /\ NothingForgotten
  /\ EndedIsOver
  /\ CancelledStays

SessionInv == SourceInv /\ ProcessInv

\* What the proofs below use of the source's invariant.
LEMMA SourceFacts ==
  ASSUME SourceInv
  PROVE  /\ fed \in 0 .. StreamSamples /\ fed \in Nat
         /\ finished \in BOOLEAN /\ cancelled \in BOOLEAN
         /\ Carried \in Nat
         /\ Carried > fed => FinishedAndDrained
         /\ FinishedAndDrained => fed <= Carried
         /\ FreshStart(Len(outputs) + 1) = Carried + 1
<1>1. /\ fed \in 0 .. StreamSamples /\ fed \in Nat
      /\ finished \in BOOLEAN /\ cancelled \in BOOLEAN
  BY SourceConfig DEF SourceInv, SourceTypeOK, QueueTypeOK
<1>2. Carried \in Nat /\ FreshStart(Len(outputs) + 1) = Carried + 1
  BY CarriedIsNat DEF SourceInv
<1>3. Carried > fed => FinishedAndDrained
  BY DEF SourceInv, ShortWindowsEndTheStream
<1>4. FinishedAndDrained => fed <= Carried
  <2>1. pending = <<>> => Len(pending) = 0
    BY EmptySeq
  <2>. QED  BY <1>1, <1>2, <2>1 DEF SourceInv, FinishedAndDrained
<1>. QED  BY <1>1, <1>2, <1>3, <1>4

LEMMA CarriedInNat == SourceInv => Carried \in Nat
BY SourceFacts

\* A new window's samples come after all that earlier windows carried.
LEMMA NewWindowIsFresh ==
  ASSUME SessionInv, ScheduleWindow
  PROVE  /\ Carried' \in Nat /\ Carried <= Carried'
         /\ NewSamples' = {s \in 1 .. fed : Carried < s /\ s <= Carried'}
<1>0. /\ Carried \in Nat /\ Len(outputs) \in Nat /\ fed \in Nat
      /\ FreshStart(Len(outputs) + 1) = Carried + 1
  BY SourceFacts, CarriedIsNat DEF SessionInv, SourceInv
<1>1. Len(outputs') = Len(outputs) + 1
  BY AppendProperties, ChunkProperties DEF ScheduleWindow, EmitWindow,
     SessionInv, SourceInv, SourceTypeOK, OverlapIsLastTail, Audio
<1>2. Len(outputs) + 1 \in Nat \ {0} /\ Len(outputs) + 1 + 1 \in Nat \ {0}
  BY <1>0
<1>3. /\ FreshStart(Len(outputs) + 1 + 1) \in Nat \ {0}
      /\ FreshStart(Len(outputs) + 1) <= FreshStart(Len(outputs) + 1 + 1)
  BY <1>2, FreshStartProperties
<1>4. Carried' = FreshStart(Len(outputs) + 1 + 1) - 1
  BY <1>1 DEF Carried
<1>5. NewSamples' = {s \in 1 .. fed' : /\ FreshStart(Len(outputs')) <= s
                                       /\ s < FreshStart(Len(outputs') + 1)}
  BY DEF NewSamples
<1>6. fed' = fed
  BY DEF ScheduleWindow, EmitWindow, Take
<1>. QED  BY <1>0, <1>1, <1>3, <1>4, <1>5, <1>6

\* The samples of a window end where the windows so far end.
LEMMA NewSamplesAreCarried ==
  ASSUME SessionInv
  PROVE  \A s \in NewSamples : s \in 1 .. fed /\ s <= Carried
<1>1. /\ FreshStart(Len(outputs) + 1) = Carried + 1
      /\ Carried \in Nat /\ fed \in Nat
  BY SourceFacts DEF SessionInv
<1>. QED  BY <1>1 DEF NewSamples

\* Audio that comes in during an inference is not part of its window.
LEMMA PushKeepsNewSamples ==
  ASSUME SessionInv, PushSamples, UNCHANGED windowVars
  PROVE  NewSamples' = NewSamples
<1>1. /\ fed \in Nat /\ Carried \in Nat
      /\ Carried > fed => FinishedAndDrained
      /\ FreshStart(Len(outputs) + 1) = Carried + 1
      /\ QueueTypeOK
  BY SourceFacts DEF SessionInv, SourceInv, SourceTypeOK
<1>2. pushCount \in 1 .. (StreamSamples - fed) /\ Push(pushCount)
  BY DEF PushSamples, SessionInv, ProcessInv, PushWithinRecording
<1>3. Accepted(pushCount) \in 0 .. pushCount
  BY <1>1, <1>2, PushPending
<1>4. FinishedAndDrained => UNCHANGED <<pending, fed>>
  BY <1>1, <1>2, PushAfterTheEnd
<1>5. fed' \in Nat /\ fed <= fed' /\ (Carried <= fed \/ fed' = fed)
  BY <1>1, <1>2, <1>3, <1>4 DEF Push
<1>6. {s \in 1 .. fed : FreshStart(Len(outputs)) <= s /\ s < Carried + 1}
        = {s \in 1 .. fed' : FreshStart(Len(outputs)) <= s /\ s < Carried + 1}
  BY <1>1, <1>5
<1>. QED  BY <1>1, <1>6 DEF NewSamples, windowVars

LEMMA InitSessionInv == Init => SessionInv
<1> SUFFICES ASSUME Init PROVE SessionInv
  OBVIOUS
<1>1. SourceInv
  BY EmptySourceInv DEF Init
<1>2. fed = 0 /\ Carried \in Nat
  BY <1>1, SourceFacts DEF Init, SourceInit, QueueInit
<1>3. ProcessTypeOK
  <2>1. 0 \in 0 .. StreamSamples
    BY SourceConfig
  <2>. QED  BY <2>1 DEF Init, ProcessInit, ProcessTypeOK, Positions, Outputs, Statuses
<1>4. PushWithinRecording /\ ResultInHand /\ EndedIsOver /\ CancelledStays
  BY DEF Init, ProcessInit, PushWithinRecording, ResultInHand, EndedIsOver,
     CancelledStays
<1>5. NothingForgotten
  BY <1>2 DEF Init, ProcessInit, NothingForgotten, InFlight
<1>. QED  BY <1>1, <1>3, <1>4, <1>5 DEF SessionInv, ProcessInv

-----------------------------------------------------------------------------

\* The steps of process_next and reset that leave the source alone.
LEMMA BridgeStepInv ==
  SessionInv /\ (BridgeStep \/ CheckCanProcess(CanProcess) \/ ResetFlag
                   \/ ResetEnter)
    /\ UNCHANGED windowVars => ProcessInv'
<1> SUFFICES ASSUME SessionInv, UNCHANGED windowVars,
        BridgeStep \/ CheckCanProcess(CanProcess) \/ ResetFlag \/ ResetEnter
    PROVE ProcessInv'
  OBVIOUS
<1>0. /\ fed \in Nat /\ Carried \in Nat /\ cancelled \in BOOLEAN
      /\ FinishedAndDrained => fed <= Carried
  BY SourceFacts DEF SessionInv
<1>a. PopulateFinal => status' = "FINAL" \/ status' = "RESOURCE_EXHAUSTED"
  BY DEF PopulateFinal, Return
<1> USE <1>0 DEF SessionInv, windowVars, ProcessInv, ProcessTypeOK, Positions,
     Outputs, Statuses, Failures, PushWithinRecording, ResultInHand, NothingForgotten,
     InFlight, EndedIsOver, CancelledStays, Goto, Return,
     queueVars, pushVars, resultVars, bridgeVars, FinishedAndDrained, Carried
<1>1. CASE ProcessEnter
  BY <1>1 DEF ProcessEnter
<1>2. CASE CheckCancelled
  BY <1>2 DEF CheckCancelled
<1>3. CASE CheckCanProcess(CanProcess)
  BY <1>3 DEF CheckCanProcess
<1>4. CASE CheckDrained
  BY <1>4 DEF CheckDrained
<1>5. CASE NoResult
  <2>1. CASE FinishedAndDrained
    BY <1>5, <2>1 DEF NoResult
  <2>2. CASE ~FinishedAndDrained /\ pc = "NOT_FOUND"
    BY <1>5, <2>2 DEF NoResult
  <2>3. CASE ~FinishedAndDrained /\ pc = "OUT_OF_RANGE"
    BY <1>5, <2>3 DEF NoResult
  <2>. QED  BY <1>5, <2>1, <2>2, <2>3 DEF NoResult
<1>6. CASE RecheckCancelled
  BY <1>6 DEF RecheckCancelled
<1>7. CASE DispatchOutput
  BY <1>7 DEF DispatchOutput
<1>8. CASE Populate
  BY <1>8 DEF Populate
<1>9. CASE Flush
  BY <1>9 DEF Flush
<1>10. CASE FlushFails
  BY <1>10 DEF FlushFails
<1>11. CASE PopulateFinal
  <2>1. CASE status' = "FINAL"
    <3>1. /\ pc = "populateFinal" /\ merged = {} /\ InFlight = {}
          /\ transcript' = transcript \cup text /\ text' = {} /\ pc' = "idle"
          /\ ended' /\ finalReturned' /\ UNCHANGED <<queueVars, pushVars, merged, output>>
          /\ faulted' = faulted /\ fed <= Carried
      BY <1>11, <2>1 DEF PopulateFinal
    <3>2. ~faulted => text \cup transcript = {s \in 1 .. fed : s <= Carried}
      BY <3>1
    <3>3. {s \in 1 .. fed : s <= Carried} = 1 .. fed
      BY <3>1
    <3>4. ~faulted => transcript' = 1 .. fed
      BY <3>1, <3>2, <3>3
    <3>5. ProcessTypeOK' /\ PushWithinRecording' /\ ResultInHand'
      BY <2>1, <3>1
    <3>6. NothingForgotten' /\ EndedIsOver' /\ CancelledStays'
      BY <2>1, <3>1, <3>3, <3>4
    <3>. QED  BY <3>5, <3>6
  <2>2. CASE status' = "RESOURCE_EXHAUSTED"
    <3>1. /\ pc = "populateFinal" /\ text' = {} /\ pc' = "idle" /\ faulted' = TRUE
          /\ UNCHANGED <<queueVars, pushVars, merged, output, bridgeVars>>
      BY <1>11, <2>2 DEF PopulateFinal
    <3>2. ended = FALSE
      BY <3>1
    <3>. QED  BY <2>2, <3>1, <3>2
  <2>. QED  BY <1>11, <1>a, <2>1, <2>2
<1>12. CASE ResetFlag
  BY <1>12 DEF ResetFlag
<1>13. CASE ResetEnter
  BY <1>13 DEF ResetEnter
<1>. QED
  BY <1>1, <1>2, <1>3, <1>4, <1>5, <1>6, <1>7, <1>8, <1>9, <1>10, <1>11, <1>12,
     <1>13 DEF BridgeStep

\* The steps of process_next and reset that use the source.
LEMMA SourceStepInv ==
  SessionInv /\ (ScheduleWindow \/ ScheduleRefused \/ Infer
                   \/ (ResetSession /\ Reset)) => ProcessInv'
<1> SUFFICES ASSUME SessionInv,
        ScheduleWindow \/ ScheduleRefused \/ Infer \/ (ResetSession /\ Reset)
    PROVE ProcessInv'
  OBVIOUS
<1>0. /\ fed \in Nat /\ Carried \in Nat /\ cancelled \in BOOLEAN
      /\ FreshStart(Len(outputs) + 1) = Carried + 1 /\ Len(outputs) \in Nat
  BY SourceFacts, CarriedIsNat DEF SessionInv, SourceInv
<1> USE DEF SessionInv, ProcessInv, ProcessTypeOK, PushWithinRecording,
     ResultInHand, NothingForgotten, InFlight, EndedIsOver, CancelledStays
<1> USE DEF Positions, Outputs, Statuses, Failures, Goto, Return, processVars,
     queueVars, pushVars, resultVars, bridgeVars, FinishedAndDrained
<1>1. CASE ScheduleWindow
  <2>1. /\ UNCHANGED <<fed, finished, cancelled>> /\ pc = "upstream" /\ pc' = "infer"
        /\ UNCHANGED <<pushVars, merged, resultVars, bridgeVars, status, faulted>>
    BY <1>1 DEF ScheduleWindow, EmitWindow, Take
  <2>2. ended = FALSE /\ status # "CANCELLED"
    BY <2>1
  <2>3. Carried \in Nat /\ Carried' \in Nat /\ Carried <= Carried'
        /\ NewSamples' = {s \in 1 .. fed : Carried < s /\ s <= Carried'}
    BY <1>0, <1>1, NewWindowIsFresh
  <2>4. {s \in 1 .. fed : s <= Carried} \cup NewSamples' = {s \in 1 .. fed : s <= Carried'}
    BY <1>0, <2>3
  <2>5. NothingForgotten'
    BY <2>1, <2>2, <2>4
  <2>. QED  BY <2>1, <2>2, <2>5
<1>2. CASE ScheduleRefused
  <2>1. ScheduleStatus \in {"CANCELLED", "NOT_FOUND", "OUT_OF_RANGE"}
    BY <1>2 DEF ScheduleRefused, ScheduleStatus
  <2>2. ScheduleStatus = "CANCELLED" => cancelled
    BY DEF ScheduleStatus
  <2>3. Carried' = Carried
    BY <1>2 DEF ScheduleRefused, windowVars, Carried
  <2>4. CASE ScheduleStatus = "CANCELLED"
    BY <1>2, <2>2, <2>3, <2>4 DEF ScheduleRefused, SourceRefuses
  <2>5. CASE ScheduleStatus = "NOT_FOUND"
    BY <1>2, <2>3, <2>5 DEF ScheduleRefused, SourceRefuses
  <2>6. CASE ScheduleStatus = "OUT_OF_RANGE"
    BY <1>2, <2>3, <2>6 DEF ScheduleRefused, SourceRefuses
  <2>. QED  BY <2>1, <2>4, <2>5, <2>6
<1>3. CASE Infer
  <2>1. Carried' = Carried /\ pc = "infer" /\ UNCHANGED <<queueVars, pushVars, bridgeVars>>
    BY <1>3 DEF Infer, InferText, InferNoOutput, InferFails, windowVars, Carried
  <2>2. NewSamples \subseteq 1 .. fed
    BY DEF NewSamples
  <2>3. text = {} /\ ended = FALSE /\ status # "CANCELLED"
    BY <2>1
  <2>4. CASE InferText(NewSamples)
    <3>1. PICK last \in {0} \cup merged \cup NewSamples :
            /\ text' = {s \in merged \cup NewSamples : s <= last}
            /\ merged' = {s \in merged \cup NewSamples : s > last}
      BY <2>4 DEF InferText
    <3>2. last \in Int /\ merged \cup NewSamples \subseteq 1 .. fed
      BY <2>2, <1>0
    <3>3. text' \cup merged' = merged \cup NewSamples
      BY <1>0, <3>1, <3>2
    <3>4. /\ pc' = "recheckCancelled" /\ output' = "TEXT"
          /\ UNCHANGED <<status, faulted>>
          /\ text' \subseteq 1 .. fed /\ merged' \subseteq 1 .. fed
      BY <2>4, <3>2, <3>3 DEF InferText
    <3>5. NothingForgotten'
      BY <2>1, <2>3, <3>3, <3>4
    <3>. QED  BY <2>1, <2>3, <3>4, <3>5
  <2>5. CASE InferNoOutput(NewSamples)
    BY <1>0, <2>1, <2>2, <2>3, <2>5 DEF InferNoOutput
  <2>6. CASE InferFails
    BY <1>0, <2>1, <2>3, <2>6 DEF InferFails
  <2>. QED  BY <1>3, <2>4, <2>5, <2>6 DEF Infer
<1>4. CASE ResetSession /\ Reset
  <2>1. /\ pc = "resetSession" /\ pc' = "resetFlag" /\ fed' = 0 /\ text = {}
        /\ merged' = {} /\ transcript' = {} /\ faulted' = FALSE /\ ended' = FALSE
        /\ UNCHANGED <<pushVars, status, resultVars, finalReturned>>
    BY <1>4 DEF ResetSession, ClearQueue
  <2>2. Carried' \in Nat
    <3>1. SourceInit'
      BY <1>4, ResetMakesEmpty
    <3>2. SourceInit' => SourceInv'
      BY EmptySourceInv, PTL
    <3>3. SourceInv' => (Carried \in Nat)'
      BY CarriedInNat, PTL
    <3>. QED  BY <3>1, <3>2, <3>3
  <2>3. ProcessTypeOK' /\ ResultInHand' /\ EndedIsOver' /\ CancelledStays'
    BY <2>1
  <2>4. NothingForgotten'
    BY <2>1, <2>2
  <2>5. PushWithinRecording'
    <3>1. fed \in 0 .. StreamSamples
      BY SourceFacts
    <3>. QED  BY <2>1, <3>1, SourceConfig
  <2>. QED  BY <2>3, <2>4, <2>5
<1>. QED  BY <1>1, <1>2, <1>3, <1>4

\* The recording thread, finish_audio and cancel_session.
LEMMA CallerStepInv ==
  SessionInv /\ (PushStep \/ FinishAudio \/ CancelSession) /\ UNCHANGED windowVars
    => ProcessInv'
<1> SUFFICES ASSUME SessionInv, UNCHANGED windowVars,
                    PushStep \/ FinishAudio \/ CancelSession
    PROVE ProcessInv'
  OBVIOUS
<1>0. /\ fed \in Nat /\ fed \in 0 .. StreamSamples /\ Carried \in Nat
      /\ Carried > fed => FinishedAndDrained
      /\ FreshStart(Len(outputs) + 1) = Carried + 1
      /\ Carried' = Carried
      /\ QueueTypeOK /\ StreamSamples \in Nat
  <2>1. Carried' = Carried
    BY DEF windowVars, Carried
  <2>. QED  BY <2>1, SourceFacts, SourceConfig DEF SessionInv, SourceInv, SourceTypeOK
<1> USE DEF SessionInv, ProcessInv, ProcessTypeOK, PushWithinRecording,
     ResultInHand, NothingForgotten, InFlight, EndedIsOver, CancelledStays
<1> USE DEF windowVars, processVars, queueVars, pushVars, resultVars, bridgeVars,
     FinishedAndDrained
<1>1. CASE PushEnter
  BY <1>0, <1>1 DEF PushEnter, NewSamples
<1>2. CASE PushCheckFinished
  BY <1>0, <1>2 DEF PushCheckFinished, NewSamples
<1>3. CASE PushSamples
  <2>1. pushCount \in 1 .. (StreamSamples - fed) /\ Push(pushCount)
        /\ pushPc' = "idle" /\ UNCHANGED <<processVars, pushCount>>
        /\ pushStatus' \in {"WOULD_BLOCK", "OK"}
    BY <1>3 DEF PushSamples
  <2>2. /\ Accepted(pushCount) \in 0 .. pushCount
        /\ Len(pending') = Len(pending) + Accepted(pushCount)
        /\ QueueTypeOK'
    BY <1>0, <2>1, PushPending
  <2>3. UNCHANGED <<finished, cancelled>> /\ fed' = fed + Accepted(pushCount)
    BY <2>1 DEF Push
  <2>4. FinishedAndDrained => UNCHANGED <<pending, fed>>
    BY <1>0, <2>1, PushAfterTheEnd
  <2>5. fed <= fed' /\ fed' \in Nat /\ (Carried <= fed \/ fed' = fed)
    BY <1>0, <2>2, <2>3, <2>4
  <2>6. {s \in 1 .. fed : s <= Carried} = {s \in 1 .. fed' : s <= Carried}
    BY <1>0, <2>5
  <2>7. NewSamples' = NewSamples
    BY <1>3, PushKeepsNewSamples
  <2>8. NothingForgotten'
    BY <1>0, <2>1, <2>6, <2>7
  <2>9. ProcessTypeOK'
    BY <1>0, <2>1, <2>5
  <2>10. PushWithinRecording' /\ ResultInHand' /\ CancelledStays'
    BY <2>1, <2>3, <2>4
  <2>11. EndedIsOver'
    BY <2>1, <2>3, <2>4
  <2>. QED  BY <2>8, <2>9, <2>10, <2>11
<1>4. CASE FinishAudio
  BY <1>0, <1>4 DEF FinishAudio, Finish, NewSamples
<1>5. CASE CancelSession
  BY <1>0, <1>5 DEF CancelSession, Cancel, NewSamples
<1>. QED  BY <1>1, <1>2, <1>3, <1>4, <1>5 DEF PushStep

-----------------------------------------------------------------------------

\* The session touches its source only through the source's own operations.
LEMMA SessionStepIsSourceStep ==
  SessionInv /\ [Next]_vars => [SourceNext]_sourceVars
<1> SUFFICES ASSUME SessionInv, [Next]_vars PROVE [SourceNext]_sourceVars
  OBVIOUS
<1>1. CASE ProcessNext
  <2>1. CASE (BridgeStep \/ CheckCanProcess(CanProcess)) /\ UNCHANGED windowVars
    <3>1. UNCHANGED queueVars
      BY <2>1 DEF BridgeStep, ProcessEnter, CheckCancelled, CheckDrained, NoResult,
         RecheckCancelled, DispatchOutput, Populate, Flush, FlushFails,
         PopulateFinal, CheckCanProcess
    <3>. QED  BY <2>1, <3>1 DEF sourceVars
  <2>2. CASE ScheduleWindow
    BY <2>2 DEF ScheduleWindow, SourceNext
  <2>3. CASE ScheduleRefused
    BY <2>3 DEF ScheduleRefused, SourceRefuses, sourceVars
  <2>4. CASE Infer
    BY <2>4 DEF Infer, InferText, InferNoOutput, InferFails, sourceVars
  <2>. QED  BY <1>1, <2>1, <2>2, <2>3, <2>4 DEF ProcessNext
<1>2. CASE ResetEnter /\ UNCHANGED windowVars
  BY <1>2 DEF ResetEnter, sourceVars
<1>3. CASE ResetStep
  BY <1>3 DEF ResetStep, ResetFlag, SourceNext, sourceVars
<1>4. CASE PushStep /\ UNCHANGED windowVars
  <2>1. CASE PushEnter \/ PushCheckFinished
    BY <1>4, <2>1 DEF PushEnter, PushCheckFinished, sourceVars
  <2>2. CASE PushSamples
    <3>1. pushCount \in 1 .. (StreamSamples - fed) /\ Push(pushCount)
      BY <2>2 DEF PushSamples, SessionInv, ProcessInv, PushWithinRecording
    <3>. QED  BY <1>4, <3>1 DEF InputStep, SourceNext
  <2>. QED  BY <1>4, <2>1, <2>2 DEF PushStep
<1>5. CASE FinishAudio /\ UNCHANGED windowVars
  BY <1>5 DEF FinishAudio, InputStep, SourceNext
<1>6. CASE CancelSession /\ UNCHANGED windowVars
  BY <1>6 DEF CancelSession, InputStep, SourceNext
<1>7. CASE UNCHANGED vars
  BY <1>7 DEF vars
<1>. QED  BY <1>1, <1>2, <1>3, <1>4, <1>5, <1>6, <1>7 DEF Next

LEMMA SessionInvIsInductive == SessionInv /\ [Next]_vars => SessionInv'
<1> SUFFICES ASSUME SessionInv, [Next]_vars PROVE SessionInv'
  OBVIOUS
<1>1. SourceInv'
  BY SessionStepIsSourceStep, SourceInvIsInductive DEF SessionInv
<1>2. ProcessInv'
  <2>1. CASE ProcessNext \/ ResetStep
    BY <2>1, BridgeStepInv, SourceStepInv DEF ProcessNext, ResetStep
  <2>2. CASE ResetEnter /\ UNCHANGED windowVars
    BY <2>2, BridgeStepInv
  <2>3. CASE (PushStep \/ FinishAudio \/ CancelSession) /\ UNCHANGED windowVars
    BY <2>3, CallerStepInv
  <2>4. CASE UNCHANGED vars
    <3> USE <2>4 DEF SessionInv, ProcessInv, vars, sourceVars, queueVars, windowVars,
            processVars, pushVars, resultVars, bridgeVars
    <3>1. ProcessTypeOK' /\ PushWithinRecording' /\ ResultInHand'
      BY DEF ProcessTypeOK, PushWithinRecording, ResultInHand, FinishedAndDrained
    <3>2. EndedIsOver' /\ CancelledStays'
      BY DEF EndedIsOver, CancelledStays, FinishedAndDrained
    <3>3. NothingForgotten'
      BY DEF NothingForgotten, InFlight, NewSamples, Carried
    <3>. QED  BY <3>1, <3>2, <3>3
  <2>. QED  BY <2>1, <2>2, <2>3, <2>4 DEF Next
<1>. QED  BY <1>1, <1>2 DEF SessionInv

LEMMA SessionInvHolds == Spec => []SessionInv
BY InitSessionInv, SessionInvIsInductive, PTL DEF Spec

\* Inside the session the source behaves as PushAudioSource on its own: the
\* locks the bridge does not take around it do no harm.
THEOREM SessionImplementsSource == Spec => ImplementsSource
<1>1. Init => SourceInit
  BY DEF Init
<1>. QED  BY <1>1, SessionInvHolds, SessionStepIsSourceStep, PTL
         DEF Spec, ImplementsSource, SourceSpec

\* The state of the session stays within its types.
THEOREM SessionIsTypeCorrect == Spec => []SessionTypeOK
<1>1. SessionInv => SessionTypeOK
  BY DEF SessionInv, SourceInv, ProcessInv, SessionTypeOK
<1>. QED  BY <1>1, SessionInvHolds, PTL

\* A final result that followed no failure means that the text of every
\* accepted sample reached the caller: process_next may look at the source
\* through separate locks and still never declares the end too early.
THEOREM FinalResultIsComplete == Spec => []FinalIsComplete
<1>1. SessionInv => FinalIsComplete
  BY DEF SessionInv, ProcessInv, EndedIsOver, FinalIsComplete
<1>. QED  BY <1>1, SessionInvHolds, PTL

\* Nothing is delivered and no window runs after the final result, until a
\* reset (final_result_returned).
THEOREM NothingFollowsTheFinal == Spec => NothingAfterFinal
<1> DEFINE A == ended /\ ended' =>
       /\ transcript' = transcript /\ outputs' = outputs
       /\ pc # "idle" /\ pc' = "idle" =>
            status' \in {"END_OF_STREAM", "CANCELLED"}
<1>1. SessionInv /\ [Next]_vars => [A]_vars
  <2> SUFFICES ASSUME SessionInv, Next, ended, ended' PROVE A
    OBVIOUS
  <2>1. finalReturned /\ pc \in {"idle", "checkCancelled", "resetSession"}
    BY DEF SessionInv, ProcessInv, EndedIsOver
  <2>2. CASE ProcessNext
    <3>1. ProcessEnter \/ CheckCancelled
      BY <2>1, <2>2 DEF ProcessNext, BridgeStep, CheckCanProcess, CheckDrained,
         NoResult, RecheckCancelled, DispatchOutput, Populate, Flush, FlushFails,
         PopulateFinal, ScheduleWindow, ScheduleRefused, SourceRefuses, Infer,
         InferText, InferNoOutput, InferFails
    <3>2. UNCHANGED windowVars
      BY <2>1, <2>2 DEF ProcessNext, ScheduleWindow, ScheduleRefused, Infer
    <3>3. CASE ProcessEnter
      BY <3>2, <3>3 DEF ProcessEnter, Goto, bridgeVars, windowVars
    <3>4. CASE CheckCancelled
      BY <2>1, <3>2, <3>4 DEF CheckCancelled, Goto, Return, bridgeVars, windowVars
    <3>. QED  BY <3>1, <3>3, <3>4
  <2>3. CASE ResetEnter /\ UNCHANGED windowVars
    BY <2>3 DEF ResetEnter, Goto, bridgeVars, windowVars
  <2>4. CASE ResetStep
    BY <2>1, <2>4 DEF ResetStep, ResetSession, ResetFlag
  <2>5. CASE (PushStep \/ FinishAudio \/ CancelSession) /\ UNCHANGED windowVars
    BY <2>5 DEF PushStep, PushEnter, PushCheckFinished, PushSamples, FinishAudio,
       CancelSession, processVars, bridgeVars, windowVars
  <2>. QED  BY <2>2, <2>3, <2>4, <2>5 DEF Next
<1>. QED  BY <1>1, SessionInvHolds, PTL DEF Spec, NothingAfterFinal

\* A cancellation that was reported is reported by every later call until a
\* reset (cancelled_ of the source).
THEOREM CancellationIsSticky == Spec => CancellationSticks
<1> DEFINE A == status = "CANCELLED" => status' \in {"CANCELLED", "NONE"}
<1>1. SessionInv /\ [Next]_vars => [A]_vars
  <2> SUFFICES ASSUME SessionInv, Next, status = "CANCELLED" PROVE A
    OBVIOUS
  <2>1. \/ cancelled /\ pc \in {"idle", "checkCancelled", "resetSession"}
        \/ pc = "resetFlag"
    BY DEF SessionInv, ProcessInv, CancelledStays
  <2>2. CASE ProcessNext
    <3>1. ProcessEnter \/ CheckCancelled
      BY <2>1, <2>2 DEF ProcessNext, BridgeStep, CheckCanProcess, CheckDrained,
         NoResult, RecheckCancelled, DispatchOutput, Populate, Flush, FlushFails,
         PopulateFinal, ScheduleWindow, ScheduleRefused, SourceRefuses, Infer,
         InferText, InferNoOutput, InferFails
    <3>. QED  BY <2>1, <3>1 DEF ProcessEnter, CheckCancelled, Goto, Return
  <2>3. CASE ResetEnter /\ UNCHANGED windowVars
    BY <2>3 DEF ResetEnter, Goto
  <2>4. CASE ResetStep
    BY <2>4 DEF ResetStep, ResetSession, ResetFlag, Return
  <2>5. CASE (PushStep \/ FinishAudio \/ CancelSession) /\ UNCHANGED windowVars
    BY <2>5 DEF PushStep, PushEnter, PushCheckFinished, PushSamples, FinishAudio,
       CancelSession, processVars
  <2>. QED  BY <2>2, <2>3, <2>4, <2>5 DEF Next
<1>. QED  BY <1>1, SessionInvHolds, PTL DEF Spec, CancellationSticks

\* What holds of the source holds inside every session: the windows carry
\* exactly the accepted samples ...
THEOREM SessionCarriesTheRecording == Spec => []WindowsCarryTheRecording
BY SessionImplementsSource, SourceCarriesTheRecording DEF ImplementsSource

\* ... only the end of a finished recording is padded ...
THEOREM SessionPadsOnlyTheEnd == Spec => []PaddingOnlyEndsTheStream
BY SessionImplementsSource, SourcePadsOnlyTheEnd DEF ImplementsSource

\* ... and a full queue never wedges the caller.
THEOREM SessionCannotWedge == Spec => []FullQueueIsProcessable
BY SessionImplementsSource, SourceCannotWedge DEF ImplementsSource

-----------------------------------------------------------------------------

\* No text is delivered twice: the text in the merger, in the result in hand
\* and with the caller are apart, and apart from what inference works on.
TextIsOnce ==
  /\ text \cap transcript = {} /\ merged \cap transcript = {} /\ merged \cap text = {}
  /\ (merged \cup text \cup transcript) \cap InFlight = {}
  /\ \A s \in merged \cup text \cup transcript : s <= Carried

LEMMA InitTextIsOnce == Init => TextIsOnce
BY DEF Init, ProcessInit, TextIsOnce, InFlight

LEMMA StepTextIsOnce == SessionInv /\ TextIsOnce /\ [Next]_vars => TextIsOnce'
<1> SUFFICES ASSUME SessionInv, TextIsOnce, [Next]_vars PROVE TextIsOnce'
  OBVIOUS
<1>1. ASSUME UNCHANGED <<windowVars, fed>> PROVE Carried' = Carried /\ NewSamples' = NewSamples
  BY <1>1 DEF windowVars, Carried, NewSamples
<1>2. /\ output = "TEXT"
      /\ text # {} => pc \in {"recheckCancelled", "dispatch", "populate", "populateFinal"}
      /\ pc = "populateFinal" => merged = {}
  BY DEF SessionInv, ProcessInv, ResultInHand
<1>3. CASE (BridgeStep \/ CheckCanProcess(CanProcess) \/ ResetFlag \/ ResetEnter)
             /\ UNCHANGED windowVars
  <2>1. UNCHANGED <<windowVars, fed>>
    BY <1>3 DEF BridgeStep, ProcessEnter, CheckCancelled, CheckDrained, NoResult,
       RecheckCancelled, DispatchOutput, Populate, Flush, FlushFails, PopulateFinal,
       CheckCanProcess, ResetFlag, ResetEnter, queueVars
  <2>2. pc' # "infer"
    BY <1>3, <1>2 DEF BridgeStep, ProcessEnter, CheckCancelled, CheckDrained, NoResult,
       RecheckCancelled, DispatchOutput, Populate, Flush, FlushFails, PopulateFinal,
       CheckCanProcess, ResetFlag, ResetEnter, Goto, Return
  <2>3. CASE Populate \/ PopulateFinal
    <3>1. text' = {} /\ merged' = merged /\ transcript' \in {transcript, transcript \cup text}
      BY <2>3 DEF Populate, PopulateFinal, bridgeVars
    <3>. QED  BY <3>1, <2>1, <2>2, <1>1 DEF TextIsOnce, InFlight
  <2>4. CASE Flush \/ FlushFails \/ RecheckCancelled
    <3>1. /\ transcript' = transcript
          /\ \/ text' = merged /\ merged' = {}
             \/ text' \in {text, {}} /\ merged' \in {merged, {}}
      BY <2>4, <1>2 DEF Flush, FlushFails, RecheckCancelled, resultVars, bridgeVars
    <3>. QED  BY <3>1, <2>1, <2>2, <1>1 DEF TextIsOnce, InFlight
  <2>5. CASE UNCHANGED <<merged, text, transcript>>
    BY <2>5, <2>1, <2>2, <1>1 DEF TextIsOnce, InFlight
  <2>. QED
    BY <1>3, <2>3, <2>4, <2>5 DEF BridgeStep, ProcessEnter, CheckCancelled, CheckDrained,
       NoResult, DispatchOutput, CheckCanProcess, ResetFlag, ResetEnter, resultVars,
       bridgeVars
<1>4. CASE ScheduleWindow
  <2>1. /\ UNCHANGED <<merged, text, transcript>> /\ pc' = "infer"
    BY <1>4 DEF ScheduleWindow, Goto, resultVars, bridgeVars
  <2>2. merged \cup text \cup transcript \subseteq 1 .. fed /\ fed \in Nat /\ Carried \in Nat
    BY SourceFacts DEF SessionInv, ProcessInv, ProcessTypeOK
  <2>3. fed' = fed
    BY <1>4 DEF ScheduleWindow, EmitWindow, Take
  <2>4. NewSamples' \subseteq 1 .. fed'
    BY DEF NewSamples
  <2>5. /\ Carried' \in Nat /\ Carried <= Carried'
        /\ \A s \in NewSamples' : Carried < s
    BY <1>4, NewWindowIsFresh
  <2>6. InFlight' = NewSamples'
    BY <2>1 DEF InFlight
  <2>7. \A s \in merged \cup text \cup transcript : s <= Carried' /\ s \notin NewSamples'
    BY <2>2, <2>3, <2>4, <2>5 DEF TextIsOnce
  <2>. QED  BY <2>1, <2>6, <2>7 DEF TextIsOnce
<1>5. CASE ScheduleRefused
  <2>1. UNCHANGED <<windowVars, fed, merged, text, transcript>> /\ pc' # "infer"
    BY <1>5 DEF ScheduleRefused, SourceRefuses, ScheduleStatus, Goto, Return, queueVars,
       resultVars, bridgeVars
  <2>. QED  BY <2>1, <1>1 DEF TextIsOnce, InFlight
<1>6. CASE Infer
  <2>1. /\ pc = "infer" /\ pc' # "infer" /\ UNCHANGED <<windowVars, fed, transcript>>
        /\ text = {}
    BY <1>6, <1>2 DEF Infer, InferText, InferNoOutput, InferFails, Goto, Return, queueVars,
       bridgeVars
  <2>2. /\ merged' \cup text' \subseteq merged \cup NewSamples
        /\ merged' \cap text' = {}
    <3>1. CASE InferText(NewSamples)
      <4>1. PICK last \in {0} \cup merged \cup NewSamples :
              /\ text' = {s \in merged \cup NewSamples : s <= last}
              /\ merged' = {s \in merged \cup NewSamples : s > last}
        BY <3>1 DEF InferText
      <4>2. merged \cup NewSamples \subseteq Int
        <5>1. fed \in Nat /\ merged \subseteq 1 .. fed
          BY SourceFacts DEF SessionInv, ProcessInv, ProcessTypeOK
        <5>2. NewSamples \subseteq 1 .. fed
          BY DEF NewSamples
        <5>. QED  BY <5>1, <5>2
      <4>. QED  BY <4>1, <4>2
    <3>2. CASE InferNoOutput(NewSamples) \/ InferFails
      BY <3>2, <2>1 DEF InferNoOutput, InferFails, resultVars
    <3>. QED  BY <1>6, <3>1, <3>2 DEF Infer
  <2>3. \A s \in merged \cup transcript : s <= Carried /\ s \notin NewSamples
    BY <2>1 DEF TextIsOnce, InFlight
  <2>4. \A s \in NewSamples : s <= Carried
    BY NewSamplesAreCarried
  <2>5. (merged \cup NewSamples) \cap transcript = {}
    BY <2>3 DEF TextIsOnce
  <2>. QED  BY <2>1, <2>2, <2>3, <2>4, <2>5, <1>1 DEF TextIsOnce, InFlight
<1>7. CASE ResetSession /\ Reset
  <2>1. pc' = "resetFlag" /\ text' = {} /\ merged' = {} /\ transcript' = {}
    BY <1>7, <1>2 DEF ResetSession, resultVars
  <2>. QED  BY <2>1 DEF TextIsOnce, InFlight
<1>8. CASE (PushStep \/ FinishAudio \/ CancelSession) /\ UNCHANGED windowVars
  <2>1. UNCHANGED <<merged, text, transcript, pc>>
    BY <1>8 DEF PushStep, PushEnter, PushCheckFinished, PushSamples, FinishAudio,
       CancelSession, processVars, resultVars, bridgeVars
  <2>2. Carried' = Carried
    BY <1>8 DEF windowVars, Carried
  <2>3. NewSamples' = NewSamples
    <3>1. CASE PushSamples
      BY <1>8, <3>1, PushKeepsNewSamples
    <3>2. CASE ~PushSamples
      BY <1>8, <3>2, <1>1 DEF PushStep, PushEnter, PushCheckFinished, FinishAudio,
         CancelSession, Finish, Cancel, queueVars
    <3>. QED  BY <3>1, <3>2
  <2>. QED  BY <2>1, <2>2, <2>3 DEF TextIsOnce, InFlight
<1>9. CASE UNCHANGED vars
  <2>1. UNCHANGED <<windowVars, fed, merged, text, transcript, pc>>
    BY <1>9 DEF vars, sourceVars, queueVars, processVars, resultVars, bridgeVars
  <2>. QED  BY <2>1, <1>1 DEF TextIsOnce, InFlight
<1>. QED
  BY <1>3, <1>4, <1>5, <1>6, <1>7, <1>8, <1>9 DEF Next, ProcessNext, ResetStep

\* A step of the session is a step of the promise, or invisible to the caller.
LEMMA SessionStepIsStreamStep ==
  SessionInv /\ TextIsOnce /\ [Next]_vars => [Stream!Next]_(Stream!vars)
<1> SUFFICES ASSUME SessionInv, TextIsOnce, [Next]_vars
    PROVE Stream!Next \/ UNCHANGED Stream!vars
  OBVIOUS
<1>0. /\ transcript \subseteq 1 .. fed /\ text \subseteq 1 .. fed
      /\ text \subseteq (1 .. fed) \ transcript /\ faulted \in BOOLEAN
  BY DEF SessionInv, ProcessInv, ProcessTypeOK, TextIsOnce
<1>1. ASSUME NEW s, Return(s) \/ Goto(s),
             UNCHANGED <<queueVars, bridgeVars>>
      PROVE  Stream!Next \/ UNCHANGED Stream!vars
  <2>1. faulted' = faulted \/ faulted' = TRUE
    BY <1>0, <1>1 DEF Return, Goto
  <2>. QED
    BY <1>1, <2>1 DEF Stream!Next, Stream!ReportFailure, Stream!vars, queueVars, bridgeVars
<1>2. CASE Populate
  <2>1. ended = FALSE
    BY <1>2 DEF Populate, SessionInv, ProcessInv, EndedIsOver, ProcessTypeOK
  <2>2. CASE Return("OK") /\ transcript' = transcript \cup text
    <3>1. Stream!Deliver(text)
      BY <1>0, <1>2, <2>1, <2>2 DEF Populate, Return, Failures, Stream!Deliver, queueVars,
         SessionInv, ProcessInv, ProcessTypeOK
    <3>. QED  BY <1>0, <3>1 DEF Stream!Next
  <2>3. CASE Return("RESOURCE_EXHAUSTED") /\ UNCHANGED transcript
    BY <1>1, <1>2, <2>3 DEF Populate, bridgeVars
  <2>. QED  BY <1>2, <2>2, <2>3 DEF Populate
<1>3. CASE PopulateFinal
  <2>1. CASE Return("RESOURCE_EXHAUSTED") /\ UNCHANGED bridgeVars
    BY <1>1, <1>3, <2>1 DEF PopulateFinal
  <2>2. CASE /\ Return("FINAL")
             /\ transcript' = transcript \cup text
             /\ finalReturned' = TRUE /\ ended' = TRUE
    <3>1. /\ ended = FALSE /\ finished /\ FinishedAndDrained /\ merged = {} /\ InFlight = {}
      BY <1>3 DEF PopulateFinal, SessionInv, ProcessInv, EndedIsOver, ProcessTypeOK,
         ResultInHand, FinishedAndDrained, InFlight
    <3>2. faulted' = faulted /\ UNCHANGED queueVars
      BY <1>3, <2>2 DEF PopulateFinal, Return, Failures, SessionInv, ProcessInv,
         ProcessTypeOK
    <3>3. faulted \/ transcript' = 1 .. fed
      <4>1. fed <= Carried /\ fed \in Nat /\ Carried \in Nat
        BY <3>1, SourceFacts DEF SessionInv
      <4>2. {s \in 1 .. fed : s <= Carried} = 1 .. fed
        BY <4>1
      <4>. QED  BY <2>2, <3>1, <4>2 DEF SessionInv, ProcessInv, NothingForgotten
    <3>4. Stream!End(text)
      BY <1>0, <2>2, <3>1, <3>2, <3>3 DEF Stream!End, queueVars
    <3>. QED  BY <1>0, <3>4 DEF Stream!Next
  <2>. QED  BY <1>3, <2>1, <2>2 DEF PopulateFinal
<1>4. CASE ProcessNext /\ ~Populate /\ ~PopulateFinal
  <2>1. CASE (BridgeStep \/ CheckCanProcess(CanProcess)) /\ UNCHANGED windowVars
    <3>1. UNCHANGED <<queueVars, bridgeVars>>
      BY <1>4, <2>1 DEF BridgeStep, ProcessEnter, CheckCancelled, CheckDrained, NoResult,
         RecheckCancelled, DispatchOutput, Flush, FlushFails, CheckCanProcess
    <3>2. \E s : Return(s) \/ Goto(s)
      BY <1>4, <2>1 DEF BridgeStep, ProcessEnter, CheckCancelled, CheckDrained, NoResult,
         RecheckCancelled, DispatchOutput, CheckEnd, Flush, FlushFails, CheckCanProcess
    <3>. QED  BY <1>1, <3>1, <3>2
  <2>2. CASE ScheduleWindow
    <3>1. UNCHANGED <<fed, finished, cancelled, transcript, faulted, ended>>
      BY <2>2 DEF ScheduleWindow, EmitWindow, Take, Goto, bridgeVars
    <3>. QED  BY <3>1 DEF Stream!vars
  <2>3. CASE ScheduleRefused
    BY <1>1, <2>3 DEF ScheduleRefused, SourceRefuses
  <2>4. CASE Infer
    BY <1>1, <2>4 DEF Infer, InferText, InferNoOutput, InferFails
  <2>. QED  BY <1>4, <2>1, <2>2, <2>3, <2>4 DEF ProcessNext
<1>5. CASE ResetEnter /\ UNCHANGED windowVars
  BY <1>1, <1>5 DEF ResetEnter
<1>6. CASE ResetStep
  <2>1. CASE ResetSession
    BY <2>1 DEF ResetSession, ClearQueue, Stream!Next, Stream!Restart
  <2>2. CASE ResetFlag
    <3>1. faulted' = faulted
      BY <1>0, <2>2 DEF ResetFlag, Return, Failures
    <3>. QED  BY <2>2, <3>1 DEF ResetFlag, queueVars, Stream!vars
  <2>. QED  BY <1>6, <2>1, <2>2 DEF ResetStep
<1>7. CASE PushStep
  <2>1. CASE PushEnter \/ PushCheckFinished
    BY <2>1 DEF PushEnter, PushCheckFinished, queueVars, processVars, bridgeVars,
       Stream!vars
  <2>2. CASE PushSamples
    <3>1. /\ pushCount \in 1 .. (StreamSamples - fed) /\ fed \in Nat /\ StreamSamples \in Nat
          /\ UNCHANGED <<finished, cancelled, transcript, faulted, ended>>
          /\ fed' = fed + Accepted(pushCount) /\ QueueTypeOK
      BY <2>2, SourceFacts, SourceConfig DEF PushSamples, Push, processVars, bridgeVars,
         SessionInv, SourceInv, SourceTypeOK, ProcessInv, PushWithinRecording
    <3>2. Accepted(pushCount) \in 0 .. pushCount
      BY <3>1, <2>2, PushPending DEF PushSamples
    <3>3. CASE Accepted(pushCount) = 0
      BY <3>1, <3>3 DEF Stream!vars
    <3>4. CASE Accepted(pushCount) # 0
      <4>1. ~finished /\ ~cancelled
        BY <3>4 DEF Accepted
      <4>2. ended = FALSE
        BY <4>1 DEF SessionInv, ProcessInv, EndedIsOver, FinishedAndDrained,
           ProcessTypeOK
      <4>3. Accepted(pushCount) \in 1 .. (StreamSamples - fed)
        BY <3>1, <3>2, <3>4
      <4>4. Stream!Feed(Accepted(pushCount))
        BY <3>1, <4>1, <4>2 DEF Stream!Feed
      <4>. QED  BY <4>3, <4>4 DEF Stream!Next
    <3>. QED  BY <3>3, <3>4
  <2>. QED  BY <1>7, <2>1, <2>2 DEF PushStep
<1>8. CASE FinishAudio
  BY <1>8 DEF FinishAudio, Finish, processVars, bridgeVars, Stream!Next, Stream!Close
<1>9. CASE CancelSession
  BY <1>9 DEF CancelSession, Cancel, processVars, bridgeVars, Stream!Next,
     Stream!RequestCancel
<1>10. CASE UNCHANGED vars
  BY <1>10 DEF vars, sourceVars, queueVars, processVars, bridgeVars, Stream!vars
<1>. QED
  BY <1>2, <1>3, <1>4, <1>5, <1>6, <1>7, <1>8, <1>9, <1>10 DEF Next

\* The session implements the promise to its caller: whatever the threads of
\* the caller do, and whichever of the separate locks they fall between, the
\* text of each sample arrives at most once, audio is accepted only while the
\* stream is open, and the final result completes the recording or follows a
\* reported failure (litert_lm_asr_bridge.h).
THEOREM SessionImplementsStream == Spec => ImplementsStream
<1>1. Init => Stream!Init
  BY DEF Init, SourceInit, QueueInit, ProcessInit, Stream!Init
<1>2. Spec => []TextIsOnce
  <2>1. Init => TextIsOnce
    BY InitTextIsOnce
  <2>. QED  BY <2>1, StepTextIsOnce, SessionInvHolds, PTL DEF Spec
<1>. QED
  BY <1>1, <1>2, SessionStepIsStreamStep, SessionInvHolds, PTL
  DEF Spec, ImplementsStream, Stream!Spec
=============================================================================
