-------------------------- MODULE OmniSession_proofs --------------------------
(***************************************************************************)
(* Proofs about the Omni input source and the session over it, for every   *)
(* step, queue size and length of recording, and every interleaving of the *)
(* caller's threads.                                                       *)
(***************************************************************************)
EXTENDS OmniSession, PushQueue_proofs

(***************************************************************************)
(* The source by itself.                                                   *)
(***************************************************************************)

\* What EndOfInputIsLast and ChunksCarryTheRecording say, made inductive.
ChunkInv ==
  /\ SourceTypeOK
  /\ ChunksCarryTheRecording
  /\ eofSent => /\ FinishedAndDrained
                /\ Len(handed) > 0
                /\ handed[Len(handed)] = EndOfInput

LEMMA EmptyChunkInv == SourceInit => ChunkInv
<1> SUFFICES ASSUME SourceInit PROVE ChunkInv
  OBVIOUS
<1>1. /\ pending \in Seq(Samples) /\ Len(pending) = 0 /\ Len(handed) = 0
      /\ handed \in Seq(Samples \cup {EndOfInput})
  BY EmptySeq DEF SourceInit, QueueInit
<1>2. Len(pending) <= MaxBufferedSamples /\ fed \in 0 .. StreamSamples /\ fed = 0
  BY <1>1, SourceConfig DEF SourceInit, QueueInit
<1>3. SourceTypeOK
  BY <1>1, <1>2 DEF SourceInit, QueueInit, SourceTypeOK, QueueTypeOK
<1>4. ChunksCarryTheRecording
  BY <1>1, <1>2 DEF SourceInit, ChunksCarryTheRecording, HandedSamples, QueueIsTail
<1>. QED  BY <1>3, <1>4 DEF ChunkInv, SourceInit

LEMMA ResetMakesEmpty == Reset => SourceInit'
BY DEF Reset, ClearQueue, SourceInit, QueueInit

LEMMA ChunkFacts ==
  ASSUME ChunkInv
  PROVE  /\ QueueTypeOK /\ eofSent \in BOOLEAN
         /\ fed \in Nat /\ Len(pending) \in Nat /\ Len(handed) \in Nat
         /\ HandedSamples \in Nat
         /\ pending = <<>> <=> Len(pending) = 0
<1>1. fed \in Nat /\ Len(pending) \in Nat /\ Len(handed) \in Nat
  BY LenProperties, SourceConfig DEF ChunkInv, SourceTypeOK, QueueTypeOK
<1>2. pending = <<>> <=> Len(pending) = 0
  BY <1>1, EmptySeq DEF ChunkInv, SourceTypeOK, QueueTypeOK
<1>. QED  BY <1>1, <1>2 DEF ChunkInv, SourceTypeOK, HandedSamples

LEMMA ChunkInvIsInductive == ChunkInv /\ [SourceNext]_sourceVars => ChunkInv'
<1> SUFFICES ASSUME ChunkInv, [SourceNext]_sourceVars PROVE ChunkInv'
  OBVIOUS
<1>0. /\ QueueTypeOK /\ eofSent \in BOOLEAN
      /\ fed \in Nat /\ Len(pending) \in Nat /\ Len(handed) \in Nat
      /\ HandedSamples \in Nat
      /\ pending = <<>> <=> Len(pending) = 0
  BY ChunkFacts
<1>1. ASSUME NEW n \in 1 .. (StreamSamples - fed), Push(n), UNCHANGED chunkVars
      PROVE  ChunkInv'
  <2>1. /\ Accepted(n) \in 0 .. n
        /\ QueueTypeOK'
        /\ Len(pending') = Len(pending) + Accepted(n)
        /\ \A j \in 1 .. Len(pending) : pending'[j] = pending[j]
        /\ \A j \in 1 .. Accepted(n) : pending'[Len(pending) + j] = fed + j
    BY <1>0, <1>1, PushPending
  <2>2. fed' = fed + Accepted(n) /\ UNCHANGED <<finished, eofSent, handed>>
    BY <1>1 DEF Push, chunkVars
  <2>3. SourceTypeOK'
    BY <2>1, <2>2 DEF ChunkInv, SourceTypeOK, Samples
  <2>4. QueueIsTail'
    BY <1>0, <1>1, PushKeepsTail DEF ChunkInv, ChunksCarryTheRecording
  <2>5. ChunksCarryTheRecording'
    BY <1>0, <2>1, <2>2, <2>4 DEF ChunkInv, ChunksCarryTheRecording, HandedSamples
  <2>6. FinishedAndDrained => FinishedAndDrained'
    BY <1>0, <1>1, PushAfterTheEnd
  <2>. QED  BY <2>2, <2>3, <2>5, <2>6 DEF ChunkInv
<1>2. ASSUME Finish \/ Cancel, UNCHANGED chunkVars
      PROVE  ChunkInv'
  <2>1. /\ UNCHANGED <<pending, fed, eofSent, handed>>
        /\ finished' \in BOOLEAN /\ cancelled' \in BOOLEAN
        /\ finished => finished'
    BY <1>0, <1>2 DEF Finish, Cancel, QueueTypeOK, chunkVars
  <2>2. SourceTypeOK'
    BY <1>0, <2>1 DEF ChunkInv, SourceTypeOK, QueueTypeOK, Samples
  <2>3. ChunksCarryTheRecording'
    BY <2>1 DEF ChunkInv, ChunksCarryTheRecording, HandedSamples, QueueIsTail
  <2>. QED  BY <2>1, <2>2, <2>3 DEF ChunkInv, FinishedAndDrained
<1>3. CASE EmitChunk
  <2>1. /\ pending # <<>> /\ Take(ChunkSize) /\ eofSent' = eofSent
        /\ handed' = handed \o SubSeq(pending, 1, ChunkSize)
    BY <1>3 DEF EmitChunk
  <2>2. ChunkSize \in 1 .. Len(pending)
    BY <1>0, <2>1, StepIsPositive DEF ChunkSize, MaxChunk
  <2>3. /\ QueueTypeOK'
        /\ Len(pending') = Len(pending) - ChunkSize
        /\ \A j \in 1 .. Len(pending') : pending'[j] = pending[ChunkSize + j]
    BY <1>0, <2>1, <2>2, TakePending
  <2>4. UNCHANGED <<finished, cancelled, fed>> /\ ~eofSent
    BY <2>1 DEF Take, ChunkInv, FinishedAndDrained
  <2>5. /\ SubSeq(pending, 1, ChunkSize) \in Seq(Samples)
        /\ Len(SubSeq(pending, 1, ChunkSize)) = ChunkSize
        /\ \A i \in 1 .. ChunkSize : SubSeq(pending, 1, ChunkSize)[i] = pending[i]
    <3>1. \A i \in 1 .. ChunkSize : pending[i] \in Samples
      BY <1>0, <2>2, ElementOfSeq DEF QueueTypeOK
    <3>2. 1 \in Int /\ ChunkSize \in Int /\ 1 <= ChunkSize
      BY <1>0, <2>2
    <3>3. /\ SubSeq(pending, 1, ChunkSize) \in Seq(Samples)
          /\ Len(SubSeq(pending, 1, ChunkSize)) =
               IF 1 <= ChunkSize THEN ChunkSize - 1 + 1 ELSE 0
          /\ \A i \in 1 .. ChunkSize - 1 + 1 :
               SubSeq(pending, 1, ChunkSize)[i] = pending[1 + i - 1]
      BY <3>1, <3>2, SubSeqProperties
    <3>. QED  BY <3>2, <3>3
  <2>6. /\ handed' \in Seq(Samples \cup {EndOfInput})
        /\ Len(handed') = Len(handed) + ChunkSize
        /\ \A i \in 1 .. Len(handed) + ChunkSize :
             handed'[i] = IF i <= Len(handed) THEN handed[i]
                          ELSE SubSeq(pending, 1, ChunkSize)[i - Len(handed)]
    <3>1. SubSeq(pending, 1, ChunkSize) \in Seq(Samples \cup {EndOfInput})
      BY <2>5, SeqMonotonic
    <3>2. handed \in Seq(Samples \cup {EndOfInput})
      BY DEF ChunkInv, SourceTypeOK
    <3>. QED  BY <2>1, <2>5, <3>1, <3>2, ConcatProperties
  <2>7. SourceTypeOK'
    BY <2>1, <2>3, <2>6 DEF ChunkInv, SourceTypeOK, Samples
  <2>8. HandedSamples = Len(handed) /\ HandedSamples' = Len(handed')
    BY <1>0, <2>1, <2>4, <2>6 DEF HandedSamples
  <2>9. \A i \in 1 .. Len(handed') : handed'[i] = i
    <3> SUFFICES ASSUME NEW i \in 1 .. Len(handed) + ChunkSize PROVE handed'[i] = i
      BY <2>6
    <3>1. CASE i <= Len(handed)
      BY <1>0, <2>6, <2>8, <3>1 DEF ChunkInv, ChunksCarryTheRecording
    <3>2. CASE i > Len(handed)
      <4>1. i - Len(handed) \in 1 .. ChunkSize /\ i - Len(handed) \in 1 .. Len(pending)
        BY <1>0, <2>2, <3>2
      <4>2. handed'[i] = pending[i - Len(handed)]
        BY <1>0, <2>5, <2>6, <3>2, <4>1
      <4>3. pending[i - Len(handed)] = fed - Len(pending) + (i - Len(handed))
        BY <4>1 DEF ChunkInv, ChunksCarryTheRecording, QueueIsTail
      <4>4. Len(handed) + Len(pending) = fed
        BY <2>8 DEF ChunkInv, ChunksCarryTheRecording
      <4>. QED  BY <1>0, <4>2, <4>3, <4>4
    <3>. QED  BY <1>0, <2>2, <3>1, <3>2
  <2>10. QueueIsTail'
    <3>1. ChunkSize \in 0 .. Len(pending)
      BY <1>0, <2>2
    <3>. QED  BY <1>0, <2>1, <3>1, TakeKeepsTail DEF ChunkInv, ChunksCarryTheRecording
  <2>11. HandedSamples' + Len(pending') = fed'
    <3>1. Len(handed) + Len(pending) = fed
      BY <2>8 DEF ChunkInv, ChunksCarryTheRecording
    <3>2. ChunkSize \in Nat
      BY <1>0, <2>2
    <3>3. HandedSamples' = Len(handed) + ChunkSize
      BY <2>6, <2>8
    <3>4. Len(pending') = Len(pending) - ChunkSize /\ fed' = fed
      BY <2>3, <2>4
    <3>. QED  BY <1>0, <3>1, <3>2, <3>3, <3>4
  <2>. QED  BY <2>1, <2>4, <2>7, <2>8, <2>9, <2>10, <2>11
         DEF ChunkInv, ChunksCarryTheRecording
<1>4. CASE EmitEndOfInput
  <2>1. /\ pending = <<>> /\ UNCHANGED <<pending, finished, cancelled, fed>>
        /\ handed' = Append(handed, EndOfInput) /\ eofSent' = TRUE
    BY <1>4 DEF EmitEndOfInput, queueVars
  <2>2. finished /\ ~eofSent
    <3>1. ScheduleStatus = "OK"
      BY <1>4 DEF EmitEndOfInput
    <3>2. ~cancelled
      BY <3>1 DEF ScheduleStatus
    <3>3. finished
      BY <2>1, <3>1, <3>2 DEF ScheduleStatus
    <3>4. ~eofSent
      BY <2>1, <3>1, <3>2, <3>3 DEF ScheduleStatus
    <3>. QED  BY <3>3, <3>4
  <2>3. /\ handed' \in Seq(Samples \cup {EndOfInput})
        /\ Len(handed') = Len(handed) + 1
        /\ \A i \in 1 .. Len(handed) : handed'[i] = handed[i]
        /\ handed'[Len(handed) + 1] = EndOfInput
    BY <2>1, AppendProperties DEF ChunkInv, SourceTypeOK
  <2>4. SourceTypeOK'
    BY <1>0, <2>1, <2>3 DEF SourceTypeOK, QueueTypeOK, Samples
  <2>5. HandedSamples = Len(handed) /\ HandedSamples' = Len(handed)
    BY <1>0, <2>1, <2>2, <2>3 DEF HandedSamples
  <2>6. ChunksCarryTheRecording'
    BY <1>0, <2>1, <2>3, <2>5 DEF ChunkInv, ChunksCarryTheRecording, QueueIsTail
  <2>. QED  BY <1>0, <2>1, <2>2, <2>3, <2>4, <2>6 DEF ChunkInv, FinishedAndDrained
<1>5. CASE Reset
  <2>1. SourceInit'
    BY <1>5, ResetMakesEmpty
  <2>2. SourceInit' => ChunkInv'
    BY EmptyChunkInv, PTL
  <2>. QED  BY <2>1, <2>2
<1>6. CASE UNCHANGED sourceVars
  BY <1>6 DEF ChunkInv, SourceTypeOK, QueueTypeOK, ChunksCarryTheRecording,
     HandedSamples, QueueIsTail, FinishedAndDrained, sourceVars, queueVars,
     chunkVars, Samples
<1>. QED  BY <1>1, <1>2, <1>3, <1>4, <1>5, <1>6 DEF SourceNext, InputStep

LEMMA ChunkInvHolds == SourceSpec => []ChunkInv
BY EmptyChunkInv, ChunkInvIsInductive, PTL DEF SourceSpec

-----------------------------------------------------------------------------

\* Upstream is handed every accepted sample once and in order, for every
\* chunk size and every sequence of Push, Finish, Cancel, Schedule and Reset.
THEOREM SourceCarriesTheRecording == SourceSpec => []ChunksCarryTheRecording
<1>1. ChunkInv => ChunksCarryTheRecording
  BY DEF ChunkInv
<1>. QED  BY <1>1, ChunkInvHolds, PTL

\* The end of input is announced once and last.
THEOREM SourceEndsOnce == SourceSpec => []EndOfInputIsLast
<1>1. ChunkInv => EndOfInputIsLast
  <2> SUFFICES ASSUME ChunkInv, NEW i \in 1 .. Len(handed) - 1
      PROVE  handed[i] # EndOfInput
    BY DEF ChunkInv, EndOfInputIsLast
  <2>1. i \in 1 .. HandedSamples
    BY ChunkFacts DEF HandedSamples
  <2>2. handed[i] = i
    BY <2>1 DEF ChunkInv, ChunksCarryTheRecording
  <2>. QED  BY <2>2 DEF EndOfInput
<1>. QED  BY <1>1, ChunkInvHolds, PTL

\* NeedScheduleInternal answers what ScheduleInternal would then do.
THEOREM SourceNeedIsHonest == SourceSpec => []NeedScheduleAgreesWithSchedule
<1>1. NeedScheduleAgreesWithSchedule
  BY DEF NeedScheduleAgreesWithSchedule, NeedSchedule, ScheduleStatus
<1>. QED  BY <1>1, PTL

-----------------------------------------------------------------------------
(***************************************************************************)
(* The session.                                                            *)
(***************************************************************************)

\* A push in progress stays within the recording.
PushWithinRecording == pushPc # "idle" => pushCount \in 1 .. (StreamSamples - fed)

\* Upstream has run everything there will be: the marker was handed over, and
\* every sample before it was inferred.
AllInferred == eofSent /\ inferred = HandedSamples

\* Where in process_next a result is in hand, and where everything was run.  The
\* input is never found drained by CheckDrained, and "not found" means that it was
\* open when the call began, as it still is.
ResultInHand ==
  /\ text # {} => \/ pc = "populateFinal"
                  \/ output = "TEXT" /\ pc \in {"recheckCancelled", "dispatch", "populate"}
  /\ pc = "populate" => output = "TEXT"
  /\ pc = "populateFinal" => merged = {}
  /\ pc # "checkDrained"
  /\ pc = "NOT_FOUND" => ~finished
  /\ pc \in {"OUT_OF_RANGE", "checkEnd", "flush", "populateFinal"} => AllInferred
  /\ pc \in {"recheckCancelled", "dispatch"} /\ output = "END" => AllInferred

\* An output that is no text was left behind by this call, which will report it.
DropsOutput == output = "UNSUPPORTED" /\ pc \in {"recheckCancelled", "dispatch"}

\* Every inferred sample, as long as no failure was reported, is in the merger, in
\* the result in hand or with the caller.
NothingForgotten ==
  ~faulted /\ ~DropsOutput => merged \cup text \cup transcript = 1 .. inferred

\* No text is in two places, nor there before its inference.
TextIsOnce ==
  /\ merged \cup text \cup transcript \subseteq 1 .. inferred
  /\ text \cap transcript = {} /\ merged \cap transcript = {} /\ merged \cap text = {}

\* After the final result only the checks at the head of a call run.
EndedIsOver ==
  ended => /\ finalReturned /\ AllInferred
           /\ pc \in {"idle", "checkCancelled", "resetSession"}
           /\ ~faulted => transcript = 1 .. fed

ProcessInv ==
  /\ ProcessTypeOK
  /\ inferred \in 0 .. HandedSamples
  /\ PushWithinRecording
  /\ ResultInHand
  /\ NothingForgotten
  /\ TextIsOnce
  /\ EndedIsOver

SessionInv == ChunkInv /\ ProcessInv /\ UpstreamBufferIsBounded

\* What the proofs below use of the source's invariant.
LEMMA SourceFacts ==
  ASSUME ChunkInv
  PROVE  /\ fed \in 0 .. StreamSamples /\ fed \in Nat /\ QueueTypeOK
         /\ finished \in BOOLEAN /\ cancelled \in BOOLEAN /\ eofSent \in BOOLEAN
         /\ HandedSamples \in Nat /\ HandedSamples <= fed
         /\ eofSent => FinishedAndDrained /\ HandedSamples = fed
<1>1. /\ QueueTypeOK /\ eofSent \in BOOLEAN /\ fed \in Nat
      /\ Len(pending) \in Nat /\ HandedSamples \in Nat
      /\ pending = <<>> <=> Len(pending) = 0
  BY ChunkFacts
<1>2. HandedSamples + Len(pending) = fed
  BY DEF ChunkInv, ChunksCarryTheRecording
<1>. QED  BY <1>1, <1>2 DEF ChunkInv, QueueTypeOK, FinishedAndDrained

LEMMA AllInferredFacts ==
  ASSUME SessionInv, AllInferred
  PROVE  FinishedAndDrained /\ finished /\ inferred = fed
BY SourceFacts DEF SessionInv, AllInferred, FinishedAndDrained

\* The next window takes what is buffered, and no more than it needs.
LEMMA WindowFacts ==
  ASSUME ChunkInv, inferred \in 0 .. HandedSamples
  PROVE  /\ Buffered \in Nat /\ inferred \in Nat
         /\ WindowNeeds \in 1 .. WindowSamples
         /\ WindowTakes \in 0 .. Buffered
         /\ inferred + WindowTakes \in 0 .. HandedSamples
         /\ NewSamples \subseteq 1 .. fed
         /\ (1 .. inferred) \cup NewSamples = 1 .. (inferred + WindowTakes)
         /\ (1 .. inferred) \cap NewSamples = {}
<1>1. HandedSamples \in Nat /\ fed \in Nat /\ HandedSamples <= fed
  BY SourceFacts
<1>2. Buffered \in Nat /\ inferred \in Nat /\ inferred + Buffered = HandedSamples
  BY <1>1 DEF Buffered
<1>3. WindowNeeds \in 1 .. WindowSamples
  BY SourceConfig DEF WindowNeeds, StepSamples
<1>4. WindowTakes \in 0 .. Buffered
  BY <1>2, <1>3 DEF WindowTakes
<1>. QED  BY <1>1, <1>2, <1>3, <1>4 DEF NewSamples

LEMMA InitSessionInv == Init => SessionInv
<1> SUFFICES ASSUME Init PROVE SessionInv
  OBVIOUS
<1>1. ChunkInv
  BY EmptyChunkInv DEF Init
<1>2. HandedSamples = 0 /\ fed = 0
  BY EmptySeq DEF Init, SourceInit, QueueInit, HandedSamples
<1>3. ProcessTypeOK
  <2>1. 0 \in 0 .. StreamSamples
    BY SourceConfig
  <2>. QED  BY <2>1 DEF Init, ProcessInit, ProcessTypeOK, Positions, Outputs, Statuses
<1>4. inferred \in 0 .. HandedSamples /\ UpstreamBufferIsBounded
  BY <1>2, StepIsPositive, SourceConfig DEF Init, UpstreamBufferIsBounded, Buffered
<1>5. PushWithinRecording /\ ResultInHand /\ EndedIsOver /\ TextIsOnce /\ NothingForgotten
  BY DEF Init, ProcessInit, PushWithinRecording, ResultInHand, EndedIsOver,
     TextIsOnce, NothingForgotten
<1>. QED  BY <1>1, <1>3, <1>4, <1>5 DEF SessionInv, ProcessInv

\* The steps of process_next and reset that touch neither source nor upstream.
LEMMA BridgeStepInv ==
  ASSUME SessionInv, UNCHANGED <<chunkVars, inferred>>,
         \/ BridgeStep \/ CheckEnd \/ CheckCanProcess(TRUE) \/ ResetFlag \/ ResetEnter
  PROVE  ProcessInv'
<1>0. /\ UNCHANGED queueVars /\ UNCHANGED pushVars
      /\ HandedSamples' = HandedSamples /\ AllInferred' = AllInferred
      /\ FinishedAndDrained => finished
      /\ cancelled \in BOOLEAN /\ fed \in Nat
      /\ AllInferred => FinishedAndDrained /\ inferred = fed
  <2>1. UNCHANGED queueVars /\ UNCHANGED pushVars
    BY DEF BridgeStep, ProcessEnter, CheckCancelled, CheckDrained, NoResult,
       RecheckCancelled, DispatchOutput, Populate, Flush, FlushFails, PopulateFinal,
       CheckEnd, CheckCanProcess, ResetFlag, ResetEnter
  <2>2. AllInferred => FinishedAndDrained /\ inferred = fed
    BY AllInferredFacts
  <2>3. HandedSamples' = HandedSamples
    BY DEF HandedSamples, chunkVars
  <2>. QED
    BY <2>1, <2>2, <2>3, SourceFacts DEF SessionInv, AllInferred, chunkVars,
       FinishedAndDrained
<1> USE <1>0 DEF SessionInv, ProcessInv, ProcessTypeOK, Positions, Outputs, Statuses,
     Failures, PushWithinRecording, ResultInHand, NothingForgotten, TextIsOnce,
     DropsOutput, EndedIsOver, Goto, Return, queueVars, pushVars, resultVars, bridgeVars
<1>1. CASE ProcessEnter
  BY <1>1 DEF ProcessEnter
<1>2. CASE CheckCancelled
  BY <1>2 DEF CheckCancelled
<1>3. CASE CheckCanProcess(TRUE)
  BY <1>3 DEF CheckCanProcess
<1>4. CASE CheckDrained
  BY <1>4 DEF CheckDrained
<1>5. CASE NoResult
  <2>1. CASE FinishedAndDrained
    BY <1>5, <2>1 DEF NoResult
  <2>2. CASE ~FinishedAndDrained /\ pc = "NOT_FOUND"
    BY <1>5, <2>2 DEF NoResult
  <2>3. CASE ~FinishedAndDrained /\ pc = "OUT_OF_RANGE"
    BY <1>5, <2>3 DEF NoResult
  <2>. QED  BY <1>5, <2>1, <2>2, <2>3 DEF NoResult
<1>6. CASE RecheckCancelled
  <2>1. CASE cancelled
    BY <1>6, <2>1 DEF RecheckCancelled
  <2>2. CASE ~cancelled
    <3>1. /\ pc = "recheckCancelled" /\ pc' = "dispatch"
          /\ UNCHANGED <<status, faulted, merged, text, output, transcript, inferred>>
          /\ UNCHANGED <<finalReturned, ended>>
      BY <1>6, <2>2 DEF RecheckCancelled
    <3>2. NothingForgotten' /\ TextIsOnce'
      BY <3>1
    <3>3. ResultInHand' /\ EndedIsOver' /\ PushWithinRecording'
      BY <3>1
    <3>. QED  BY <3>1, <3>2, <3>3
  <2>. QED  BY <2>1, <2>2
<1>7. CASE DispatchOutput
  <2>1. CASE output = "TEXT"
    BY <1>7, <2>1 DEF DispatchOutput
  <2>2. CASE output = "END"
    BY <1>7, <2>2 DEF DispatchOutput
  <2>3. CASE output = "UNSUPPORTED"
    BY <1>7, <2>3 DEF DispatchOutput
  <2>. QED  BY <2>1, <2>2, <2>3
<1>8. CASE Populate
  <2>1. CASE Return("OK") /\ transcript' = transcript \cup text
    BY <1>8, <2>1 DEF Populate
  <2>2. CASE Return("RESOURCE_EXHAUSTED") /\ UNCHANGED transcript
    BY <1>8, <2>2 DEF Populate
  <2>. QED  BY <1>8, <2>1, <2>2 DEF Populate
<1>9. CASE Flush
  BY <1>9 DEF Flush
<1>10. CASE FlushFails
  BY <1>10 DEF FlushFails
<1>11. CASE PopulateFinal
  <2>1. CASE /\ Return("FINAL") /\ transcript' = transcript \cup text
             /\ finalReturned' = TRUE /\ ended' = TRUE
    BY <1>11, <2>1 DEF PopulateFinal
  <2>2. CASE Return("RESOURCE_EXHAUSTED") /\ UNCHANGED bridgeVars
    BY <1>11, <2>2 DEF PopulateFinal
  <2>. QED  BY <1>11, <2>1, <2>2 DEF PopulateFinal
<1>12. CASE ResetFlag
  BY <1>12 DEF ResetFlag
<1>13. CASE ResetEnter
  BY <1>13 DEF ResetEnter
<1>14. CASE CheckEnd
  BY <1>14 DEF CheckEnd
<1>. QED
  BY <1>1, <1>2, <1>3, <1>4, <1>5, <1>6, <1>7, <1>8, <1>9, <1>10, <1>11, <1>12,
     <1>13, <1>14 DEF BridgeStep

LEMMA ChunkCounts == ChunkInv => HandedSamples \in Nat /\ Len(pending) \in Nat
BY ChunkFacts

\* One pull hands over no more than a step of audio.
LEMMA PullFacts ==
  ASSUME ChunkInv, ChunkInv', EmitChunk \/ EmitEndOfInput
  PROVE  /\ HandedSamples' \in HandedSamples .. (HandedSamples + StepSamples)
         /\ ~eofSent /\ UNCHANGED <<fed, finished, cancelled>>
<1>1. /\ HandedSamples \in Nat /\ Len(pending) \in Nat /\ fed \in Nat /\ QueueTypeOK
      /\ HandedSamples + Len(pending) = fed
      /\ pending = <<>> <=> Len(pending) = 0
  BY ChunkFacts DEF ChunkInv, ChunksCarryTheRecording
<1>2. HandedSamples' \in Nat /\ Len(pending') \in Nat
  <2>1. ChunkInv' => (HandedSamples \in Nat /\ Len(pending) \in Nat)'
    BY ChunkCounts, PTL
  <2>. QED  BY <2>1
<1>3. HandedSamples' + Len(pending') = fed'
  BY DEF ChunkInv, ChunksCarryTheRecording
<1>4. CASE EmitChunk
  <2>1. pending # <<>> /\ Take(ChunkSize) /\ UNCHANGED <<fed, finished, cancelled>>
    BY <1>4 DEF EmitChunk, Take
  <2>2. ChunkSize \in 1 .. StepSamples /\ ChunkSize \in 0 .. Len(pending)
    BY <1>1, <2>1, StepIsPositive DEF ChunkSize, MaxChunk
  <2>3. Len(pending') = Len(pending) - ChunkSize
    BY <1>1, <2>1, <2>2, TakePending
  <2>4. ~eofSent
    BY <2>1 DEF ChunkInv, FinishedAndDrained
  <2>. QED  BY <1>1, <1>2, <1>3, <2>1, <2>2, <2>3, <2>4, StepIsPositive
<1>5. CASE EmitEndOfInput
  <2>1. UNCHANGED <<pending, fed, finished, cancelled>> /\ pending = <<>>
        /\ ScheduleStatus = "OK"
    BY <1>5 DEF EmitEndOfInput, queueVars
  <2>2. ~eofSent
    BY <2>1 DEF ScheduleStatus, ChunkInv, FinishedAndDrained
  <2>3. HandedSamples' = HandedSamples /\ StepSamples \in Nat
    <3>1. HandedSamples' + Len(pending) = HandedSamples + Len(pending)
      BY <1>1, <1>3, <2>1
    <3>2. HandedSamples' \in Nat /\ HandedSamples \in Nat /\ Len(pending) \in Nat
      BY <1>1, <1>2
    <3>. QED  BY <3>1, <3>2, StepIsPositive
  <2>4. HandedSamples \in HandedSamples .. (HandedSamples + StepSamples)
    BY <1>1, <2>3
  <2>. QED  BY <2>1, <2>2, <2>3, <2>4
<1>. QED  BY <1>4, <1>5

\* process_next pulls input: at most a step more than what it lacked.
LEMMA PullInputInv ==
  ASSUME SessionInv, ChunkInv', PullInput
  PROVE  ProcessInv' /\ UpstreamBufferIsBounded'
<1>1. /\ HandedSamples' \in HandedSamples .. (HandedSamples + StepSamples)
      /\ ~eofSent /\ UNCHANGED <<fed, finished, cancelled>>
      /\ pc = "upstream" /\ ~WindowReady /\ UNCHANGED <<processVars, pushVars, inferred>>
  BY PullFacts DEF PullInput, SessionInv
<1>2. /\ Buffered \in Nat /\ inferred \in Nat /\ HandedSamples \in Nat
      /\ inferred \in 0 .. HandedSamples
      /\ WindowNeeds \in 1 .. WindowSamples /\ StepSamples \in Nat
  BY WindowFacts, SourceFacts, StepIsPositive DEF SessionInv, ProcessInv
<1>3. Buffered < WindowNeeds
  BY <1>1, <1>2 DEF WindowReady
<1>4. Buffered' <= Buffered + StepSamples /\ Buffered' \in Int
  <2>1. Buffered = HandedSamples - inferred /\ Buffered' = HandedSamples' - inferred
    BY <1>1 DEF Buffered
  <2>2. HandedSamples' \in Int /\ HandedSamples' <= HandedSamples + StepSamples
    BY <1>1, <1>2
  <2>3. inferred \in Int /\ HandedSamples \in Int /\ StepSamples \in Int
    BY <1>2
  <2>4. HandedSamples' - inferred <= (HandedSamples - inferred) + StepSamples
    <3>1. \A a, b, c, d \in Int : a <= b + c => a - d <= (b - d) + c
      OBVIOUS
    <3>. QED  BY <2>2, <2>3, <3>1
  <2>5. HandedSamples' - inferred \in Int
    BY <2>2, <2>3
  <2>. QED  BY <2>1, <2>4, <2>5
<1>5. UpstreamBufferIsBounded'
  BY <1>2, <1>3, <1>4, SourceConfig DEF UpstreamBufferIsBounded
<1>6. inferred' \in 0 .. HandedSamples'
  BY <1>1, <1>2
<1>7. ProcessTypeOK' /\ PushWithinRecording'
  BY <1>1 DEF SessionInv, ProcessInv, ProcessTypeOK, PushWithinRecording, processVars,
     pushVars, resultVars, bridgeVars
<1>8. ResultInHand' /\ NothingForgotten' /\ TextIsOnce' /\ EndedIsOver'
  BY <1>1 DEF SessionInv, ProcessInv, ResultInHand, NothingForgotten, TextIsOnce,
     EndedIsOver, DropsOutput, processVars, resultVars, bridgeVars
<1>. QED  BY <1>5, <1>6, <1>7, <1>8 DEF ProcessInv

\* The other steps of process_next inside the upstream call.
LEMMA UpstreamStepInv ==
  ASSUME SessionInv, PullRefused \/ RunWindow \/ EndOutput
  PROVE  ProcessInv'
<1>1. /\ pc = "upstream" /\ UNCHANGED <<sourceVars, pushVars, inferred, merged, text>>
      /\ UNCHANGED bridgeVars
  BY DEF PullRefused, SourceRefuses, RunWindow, EndOutput, sourceVars, resultVars
<1>2. /\ HandedSamples' = HandedSamples /\ AllInferred' = AllInferred
      /\ UNCHANGED <<fed, finished>> /\ cancelled' = cancelled
      /\ inferred \in 0 .. HandedSamples /\ ended = FALSE /\ text = {}
  BY <1>1 DEF HandedSamples, AllInferred, sourceVars, queueVars, chunkVars, SessionInv,
     ProcessInv, EndedIsOver, ResultInHand, ProcessTypeOK
<1>3. eofSent /\ ~WindowReady => AllInferred
  BY WindowFacts, SourceFacts DEF SessionInv, ProcessInv, WindowReady, AllInferred, Buffered
<1> USE <1>1, <1>2 DEF SessionInv, ProcessInv, ProcessTypeOK, Positions, Outputs, Statuses,
     Failures, PushWithinRecording, ResultInHand, NothingForgotten, TextIsOnce,
     DropsOutput, EndedIsOver, Goto, Return, pushVars, resultVars, bridgeVars
<1>4. CASE RunWindow
  BY <1>4 DEF RunWindow
<1>5. CASE EndOutput
  BY <1>3, <1>5 DEF EndOutput
<1>6. CASE PullRefused
  <2>1. ~WindowReady /\ SourceRefuses(ScheduleStatus)
        /\ ScheduleStatus \in {"CANCELLED", "NOT_FOUND", "OUT_OF_RANGE"}
    BY <1>6 DEF PullRefused, ScheduleStatus
  <2>2. CASE ScheduleStatus = "CANCELLED"
    BY <2>1, <2>2 DEF SourceRefuses
  <2>3. CASE ScheduleStatus = "NOT_FOUND"
    <3>1. ~finished
      BY <2>3 DEF ScheduleStatus
    <3>. QED  BY <2>1, <2>3, <3>1 DEF SourceRefuses
  <2>4. CASE ScheduleStatus = "OUT_OF_RANGE"
    <3>1. eofSent
      BY <2>4 DEF ScheduleStatus
    <3>. QED  BY <1>3, <2>1, <2>4, <3>1 DEF SourceRefuses
  <2>. QED  BY <2>1, <2>2, <2>3, <2>4
<1>. QED  BY <1>4, <1>5, <1>6

\* A window is inferred: its samples were not in any window before.
LEMMA InferInv ==
  ASSUME SessionInv, Infer
  PROVE  ProcessInv' /\ UpstreamBufferIsBounded'
<1>1. /\ pc = "infer" /\ UNCHANGED <<queueVars, pushVars, bridgeVars, chunkVars>>
      /\ inferred' = inferred + WindowTakes /\ HandedSamples' = HandedSamples
  BY DEF Infer, InferText, InferUnsupported, InferFails, chunkVars, HandedSamples
<1>2. /\ Buffered \in Nat /\ inferred \in Nat /\ HandedSamples \in Nat /\ fed \in Nat
      /\ WindowTakes \in 0 .. Buffered
      /\ inferred + WindowTakes \in 0 .. HandedSamples
      /\ NewSamples \subseteq 1 .. fed
      /\ (1 .. inferred) \cup NewSamples = 1 .. (inferred + WindowTakes)
      /\ (1 .. inferred) \cap NewSamples = {}
  BY WindowFacts, SourceFacts DEF SessionInv, ProcessInv
<1>3. text = {} /\ ended = FALSE
  BY <1>1 DEF SessionInv, ProcessInv, ResultInHand, EndedIsOver, ProcessTypeOK
<1>4. UpstreamBufferIsBounded'
  <2>1. Buffered' = Buffered - WindowTakes
    BY <1>1, <1>2 DEF Buffered
  <2>2. WindowSamples \in Nat /\ StepSamples \in Nat
    BY SourceConfig, StepIsPositive
  <2>. QED  BY <1>2, <2>1, <2>2 DEF SessionInv, UpstreamBufferIsBounded
<1>5. inferred' \in 0 .. HandedSamples' /\ 1 .. inferred \subseteq 1 .. inferred'
  BY <1>1, <1>2
<1>6. /\ merged \cup transcript \subseteq 1 .. inferred /\ merged \cap transcript = {}
      /\ merged \cup NewSamples \subseteq 1 .. inferred'
      /\ NewSamples \cap transcript = {} /\ merged \cap NewSamples = {}
      /\ ~faulted => merged \cup transcript = 1 .. inferred
  BY <1>1, <1>2, <1>3, <1>5 DEF SessionInv, ProcessInv, TextIsOnce, NothingForgotten,
     DropsOutput
<1>7. PushWithinRecording' /\ (ended = FALSE => EndedIsOver')
  BY <1>1 DEF SessionInv, ProcessInv, PushWithinRecording, EndedIsOver, queueVars, pushVars,
     bridgeVars
<1>8. CASE InferText(NewSamples)
  <2>1. PICK last \in {0} \cup merged \cup NewSamples :
          /\ text' = {s \in merged \cup NewSamples : s <= last}
          /\ merged' = {s \in merged \cup NewSamples : s > last}
    BY <1>8 DEF InferText
  <2>2. text' \cup merged' = merged \cup NewSamples /\ text' \cap merged' = {}
    <3>1. merged \cup NewSamples \subseteq Int
      <4>1. inferred \in Int /\ 1 .. fed \subseteq Int /\ 1 .. inferred \subseteq Int
        BY <1>2
      <4>. QED  BY <1>2, <1>6, <4>1
    <3>. QED  BY <2>1, <3>1
  <2>3. /\ pc' = "recheckCancelled" /\ output' = "TEXT"
        /\ UNCHANGED <<status, faulted, queueVars, pushVars, transcript, finalReturned, ended>>
    BY <1>8 DEF InferText, Goto, bridgeVars
  <2>4. TextIsOnce'
    BY <1>5, <1>6, <2>2, <2>3 DEF TextIsOnce
  <2>5. NothingForgotten'
    BY <1>1, <1>2, <1>6, <2>2, <2>3 DEF NothingForgotten, DropsOutput
  <2>6. ProcessTypeOK'
    <3>1. merged' \subseteq 1 .. fed' /\ text' \subseteq 1 .. fed'
      BY <1>2, <2>2, <2>3 DEF SessionInv, ProcessInv, ProcessTypeOK, queueVars
    <3>. QED
      BY <2>3, <3>1 DEF SessionInv, ProcessInv, ProcessTypeOK, Positions, Outputs, queueVars,
         pushVars
  <2>7. ResultInHand'
    BY <1>3, <2>3 DEF ResultInHand
  <2>. QED  BY <1>3, <1>4, <1>5, <1>7, <2>4, <2>5, <2>6, <2>7 DEF ProcessInv
<1>9. CASE InferUnsupported
  <2>1. /\ pc' = "recheckCancelled" /\ output' = "UNSUPPORTED"
        /\ UNCHANGED <<status, faulted, queueVars, pushVars, merged, text, transcript>>
        /\ UNCHANGED <<finalReturned, ended>>
    BY <1>9 DEF InferUnsupported, Goto, bridgeVars
  <2>2. TextIsOnce'
    BY <1>3, <1>5, <1>6, <2>1 DEF TextIsOnce
  <2>3. NothingForgotten' /\ ResultInHand'
    BY <1>3, <2>1 DEF NothingForgotten, DropsOutput, ResultInHand
  <2>4. ProcessTypeOK'
    BY <2>1 DEF SessionInv, ProcessInv, ProcessTypeOK, Positions, Outputs, queueVars, pushVars
  <2>. QED  BY <1>3, <1>4, <1>5, <1>7, <2>2, <2>3, <2>4 DEF ProcessInv
<1>10. CASE InferFails
  <2>1. /\ pc' = "idle" /\ status' = "INTERNAL" /\ faulted' = TRUE
        /\ UNCHANGED <<queueVars, pushVars, merged, text, output, transcript>>
        /\ UNCHANGED <<finalReturned, ended>>
    BY <1>10 DEF InferFails, Return, Failures, resultVars, bridgeVars
  <2>2. TextIsOnce'
    BY <1>3, <1>5, <1>6, <2>1 DEF TextIsOnce
  <2>3. NothingForgotten' /\ ResultInHand'
    BY <1>3, <2>1 DEF NothingForgotten, ResultInHand
  <2>4. ProcessTypeOK'
    BY <2>1 DEF SessionInv, ProcessInv, ProcessTypeOK, Positions, Statuses, Failures,
       queueVars, pushVars
  <2>. QED  BY <1>3, <1>4, <1>5, <1>7, <2>2, <2>3, <2>4 DEF ProcessInv
<1>. QED  BY <1>8, <1>9, <1>10 DEF Infer

LEMMA ResetInv ==
  ASSUME SessionInv, ChunkInv', ResetSession, Reset, inferred' = 0
  PROVE  ProcessInv' /\ UpstreamBufferIsBounded'
<1>1. /\ fed' = 0 /\ ~eofSent' /\ handed' = <<>> /\ pc = "resetSession" /\ pc' = "resetFlag"
      /\ merged' = {} /\ transcript' = {} /\ faulted' = FALSE /\ ended' = FALSE
      /\ UNCHANGED <<pushVars, status, resultVars, finalReturned>> /\ text = {}
  BY DEF ResetSession, Reset, ClearQueue, SessionInv, ProcessInv, ResultInHand
<1>2. HandedSamples' = 0
  BY <1>1, EmptySeq DEF HandedSamples
<1>3. UpstreamBufferIsBounded'
  BY <1>2, StepIsPositive, SourceConfig DEF UpstreamBufferIsBounded, Buffered
<1>4. fed \in 0 .. StreamSamples /\ StreamSamples \in Nat
  BY SourceFacts, SourceConfig DEF SessionInv
<1>5. PushWithinRecording'
  <2>1. 1 .. (StreamSamples - fed) \subseteq 1 .. (StreamSamples - 0)
    BY <1>4
  <2>. QED
    BY <1>1, <2>1 DEF SessionInv, ProcessInv, PushWithinRecording, pushVars
<1>6. ProcessTypeOK'
  BY <1>1 DEF SessionInv, ProcessInv, ProcessTypeOK, Positions, pushVars, resultVars
<1>7. ResultInHand' /\ TextIsOnce' /\ EndedIsOver'
  BY <1>1 DEF ResultInHand, TextIsOnce, EndedIsOver, resultVars
<1>8. NothingForgotten' /\ inferred' \in 0 .. HandedSamples'
  BY <1>1, <1>2 DEF NothingForgotten, resultVars
<1>. QED  BY <1>3, <1>5, <1>6, <1>7, <1>8 DEF ProcessInv

\* The recording thread, finish_audio and cancel_session.
LEMMA CallerStepInv ==
  ASSUME SessionInv, UNCHANGED <<chunkVars, inferred>>,
         PushStep \/ FinishBetweenCalls \/ CancelSession
  PROVE  ProcessInv'
<1>0. /\ fed \in Nat /\ fed \in 0 .. StreamSamples /\ StreamSamples \in Nat /\ QueueTypeOK
      /\ HandedSamples' = HandedSamples /\ AllInferred' = AllInferred
      /\ AllInferred => FinishedAndDrained
      /\ UNCHANGED processVars
  BY SourceFacts, AllInferredFacts, SourceConfig DEF HandedSamples, AllInferred, chunkVars,
     SessionInv, PushStep, PushEnter, PushCheckFinished, PushSamples, FinishBetweenCalls,
     FinishAudio, CancelSession
<1> USE <1>0 DEF SessionInv, ProcessInv, ProcessTypeOK, PushWithinRecording, ResultInHand,
     NothingForgotten, TextIsOnce, DropsOutput, EndedIsOver, processVars, queueVars,
     pushVars, resultVars, bridgeVars
<1>1. CASE PushEnter
  BY <1>1 DEF PushEnter
<1>2. CASE PushCheckFinished
  BY <1>2 DEF PushCheckFinished
<1>3. CASE PushSamples
  <2>1. /\ pushCount \in 1 .. (StreamSamples - fed) /\ Push(pushCount)
        /\ pushPc' = "idle" /\ pushCount' = pushCount
        /\ pushStatus' \in {"WOULD_BLOCK", "OK"}
    BY <1>3 DEF PushSamples
  <2>2. Accepted(pushCount) \in 0 .. pushCount
    BY <2>1, PushPending
  <2>3. UNCHANGED <<finished, cancelled>> /\ fed' = fed + Accepted(pushCount)
    BY <2>1 DEF Push
  <2>4. AllInferred => UNCHANGED <<pending, fed>>
    BY <2>1, PushAfterTheEnd
  <2>5. fed <= fed' /\ fed' \in Nat /\ 1 .. fed \subseteq 1 .. fed'
    BY <2>2, <2>3
  <2>6. ProcessTypeOK'
    BY <2>1, <2>5
  <2>7. ResultInHand' /\ NothingForgotten' /\ TextIsOnce' /\ PushWithinRecording'
    BY <2>1, <2>3
  <2>8. EndedIsOver'
    BY <2>1, <2>4
  <2>. QED  BY <2>6, <2>7, <2>8
<1>4. CASE FinishBetweenCalls
  BY <1>4 DEF FinishBetweenCalls, FinishAudio, Finish
<1>5. CASE CancelSession
  BY <1>5 DEF CancelSession, Cancel
<1>. QED  BY <1>1, <1>2, <1>3, <1>4, <1>5 DEF PushStep

-----------------------------------------------------------------------------

\* The session touches its source only through the source's own operations.
LEMMA SessionStepIsSourceStep ==
  SessionInv /\ [Next]_vars => [SourceNext]_sourceVars
<1> SUFFICES ASSUME SessionInv, [Next]_vars PROVE [SourceNext]_sourceVars
  OBVIOUS
<1>1. CASE ProcessNext
  <2>1. CASE (BridgeStep \/ CheckEnd \/ CheckCanProcess(TRUE)) /\ UNCHANGED <<chunkVars, inferred>>
    BY <2>1 DEF BridgeStep, ProcessEnter, CheckCancelled, CheckDrained, NoResult,
       RecheckCancelled, DispatchOutput, Populate, Flush, FlushFails,
       PopulateFinal, CheckEnd, CheckCanProcess, sourceVars
  <2>2. CASE PullInput
    BY <2>2 DEF PullInput, SourceNext
  <2>3. CASE PullRefused \/ RunWindow \/ EndOutput
    BY <2>3 DEF PullRefused, SourceRefuses, RunWindow, EndOutput, sourceVars
  <2>4. CASE Infer
    BY <2>4 DEF Infer, InferText, InferUnsupported, InferFails, sourceVars
  <2>. QED  BY <1>1, <2>1, <2>2, <2>3, <2>4 DEF ProcessNext
<1>2. CASE ResetStep
  BY <1>2 DEF ResetStep, ResetFlag, SourceNext, sourceVars
<1>3. CASE (ResetEnter \/ PushEnter \/ PushCheckFinished) /\ UNCHANGED <<chunkVars, inferred>>
  BY <1>3 DEF ResetEnter, PushEnter, PushCheckFinished, sourceVars
<1>4. CASE PushSamples /\ UNCHANGED <<chunkVars, inferred>>
  <2>1. pushCount \in 1 .. (StreamSamples - fed) /\ Push(pushCount)
    BY <1>4 DEF PushSamples, SessionInv, ProcessInv, PushWithinRecording
  <2>. QED  BY <1>4, <2>1 DEF InputStep, SourceNext
<1>5. CASE (FinishBetweenCalls \/ CancelSession) /\ UNCHANGED <<chunkVars, inferred>>
  BY <1>5 DEF FinishBetweenCalls, FinishAudio, CancelSession, InputStep, SourceNext
<1>6. CASE UNCHANGED vars
  BY <1>6 DEF vars
<1>. QED  BY <1>1, <1>2, <1>3, <1>4, <1>5, <1>6 DEF Next, PushStep

LEMMA SessionInvIsInductive == SessionInv /\ [Next]_vars => SessionInv'
<1> SUFFICES ASSUME SessionInv, [Next]_vars PROVE SessionInv'
  OBVIOUS
<1>1. ChunkInv'
  BY SessionStepIsSourceStep, ChunkInvIsInductive DEF SessionInv
<1>2. ASSUME UNCHANGED <<chunkVars, inferred>> PROVE UpstreamBufferIsBounded'
  BY <1>2 DEF SessionInv, UpstreamBufferIsBounded, Buffered, HandedSamples, chunkVars
<1>3. CASE (BridgeStep \/ CheckEnd \/ CheckCanProcess(TRUE) \/ ResetFlag \/ ResetEnter)
             /\ UNCHANGED <<chunkVars, inferred>>
  BY <1>1, <1>2, <1>3, BridgeStepInv DEF SessionInv
<1>4. CASE PullInput
  BY <1>1, <1>4, PullInputInv DEF SessionInv
<1>5. CASE PullRefused \/ RunWindow \/ EndOutput
  <2>1. UNCHANGED <<chunkVars, inferred>>
    BY <1>5 DEF PullRefused, RunWindow, EndOutput, sourceVars
  <2>. QED  BY <1>1, <1>2, <1>5, <2>1, UpstreamStepInv DEF SessionInv
<1>6. CASE Infer
  BY <1>1, <1>6, InferInv DEF SessionInv
<1>7. CASE ResetSession /\ Reset /\ inferred' = 0
  BY <1>1, <1>7, ResetInv DEF SessionInv
<1>8. CASE (PushStep \/ FinishBetweenCalls \/ CancelSession) /\ UNCHANGED <<chunkVars, inferred>>
  BY <1>1, <1>2, <1>8, CallerStepInv DEF SessionInv
<1>9. CASE UNCHANGED vars
  <2> USE <1>9 DEF SessionInv, ProcessInv, vars, sourceVars, queueVars, chunkVars,
          processVars, pushVars, resultVars, bridgeVars
  <2>1. ProcessTypeOK' /\ PushWithinRecording' /\ TextIsOnce'
    BY DEF ProcessTypeOK, PushWithinRecording, TextIsOnce
  <2>2. HandedSamples' = HandedSamples /\ AllInferred' = AllInferred
    BY DEF HandedSamples, AllInferred
  <2>3. ResultInHand' /\ EndedIsOver' /\ NothingForgotten'
    BY <2>2 DEF ResultInHand, EndedIsOver, NothingForgotten, DropsOutput
  <2>. QED  BY <1>1, <1>2, <2>1, <2>2, <2>3
<1>. QED
  BY <1>3, <1>4, <1>5, <1>6, <1>7, <1>8, <1>9 DEF Next, ProcessNext, ResetStep

LEMMA SessionInvHolds == Spec => []SessionInv
BY InitSessionInv, SessionInvIsInductive, PTL DEF Spec

\* A step of the session is a step of the promise, or invisible to the caller.
LEMMA SessionStepIsStreamStep == SessionInv /\ [Next]_vars => [Stream!Next]_(Stream!vars)
<1> SUFFICES ASSUME SessionInv, [Next]_vars
    PROVE Stream!Next \/ UNCHANGED Stream!vars
  OBVIOUS
<1>0. /\ transcript \subseteq 1 .. fed /\ text \subseteq 1 .. fed
      /\ text \subseteq (1 .. fed) \ transcript /\ faulted \in BOOLEAN
  BY DEF SessionInv, ProcessInv, ProcessTypeOK, TextIsOnce
<1>1. ASSUME NEW s, Return(s) \/ Goto(s), UNCHANGED <<queueVars, bridgeVars>>
      PROVE  Stream!Next \/ UNCHANGED Stream!vars
  <2>1. faulted' = faulted \/ faulted' = TRUE
    BY <1>0, <1>1 DEF Return, Goto
  <2>. QED
    BY <1>1, <2>1 DEF Stream!Next, Stream!ReportFailure, Stream!vars, queueVars, bridgeVars
<1>2. CASE Populate
  <2>1. ended = FALSE
    BY <1>2 DEF Populate, SessionInv, ProcessInv, EndedIsOver, ProcessTypeOK
  <2>2. CASE Return("OK") /\ transcript' = transcript \cup text
    <3>1. Stream!Deliver(text)
      BY <1>0, <1>2, <2>1, <2>2 DEF Populate, Return, Failures, Stream!Deliver, queueVars,
         SessionInv, ProcessInv, ProcessTypeOK
    <3>. QED  BY <1>0, <3>1 DEF Stream!Next
  <2>3. CASE Return("RESOURCE_EXHAUSTED") /\ UNCHANGED transcript
    BY <1>1, <1>2, <2>3 DEF Populate, bridgeVars
  <2>. QED  BY <1>2, <2>2, <2>3 DEF Populate
<1>3. CASE PopulateFinal
  <2>1. CASE Return("RESOURCE_EXHAUSTED") /\ UNCHANGED bridgeVars
    BY <1>1, <1>3, <2>1 DEF PopulateFinal
  <2>2. CASE /\ Return("FINAL")
             /\ transcript' = transcript \cup text
             /\ finalReturned' = TRUE /\ ended' = TRUE
    <3>1. /\ ended = FALSE /\ merged = {} /\ AllInferred /\ pc = "populateFinal"
      BY <1>3 DEF PopulateFinal, SessionInv, ProcessInv, EndedIsOver, ProcessTypeOK,
         ResultInHand
    <3>2. faulted' = faulted /\ UNCHANGED queueVars
      BY <1>3, <2>2 DEF PopulateFinal, Return, Failures, SessionInv, ProcessInv,
         ProcessTypeOK
    <3>3. finished /\ inferred = fed
      BY <3>1, AllInferredFacts
    <3>4. faulted \/ transcript' = 1 .. fed
      BY <2>2, <3>1, <3>3 DEF SessionInv, ProcessInv, NothingForgotten, DropsOutput
    <3>5. Stream!End(text)
      BY <1>0, <2>2, <3>1, <3>2, <3>3, <3>4 DEF Stream!End, queueVars
    <3>. QED  BY <1>0, <3>5 DEF Stream!Next
  <2>. QED  BY <1>3, <2>1, <2>2 DEF PopulateFinal
<1>4. CASE ProcessNext /\ ~Populate /\ ~PopulateFinal
  <2>1. CASE BridgeStep \/ CheckEnd \/ CheckCanProcess(TRUE)
    <3>1. UNCHANGED <<queueVars, bridgeVars>>
      BY <1>4, <2>1 DEF BridgeStep, ProcessEnter, CheckCancelled, CheckDrained, NoResult,
         RecheckCancelled, DispatchOutput, CheckEnd, Flush, FlushFails, CheckCanProcess
    <3>2. \E s : Return(s) \/ Goto(s)
      BY <1>4, <2>1 DEF BridgeStep, ProcessEnter, CheckCancelled, CheckDrained, NoResult,
         RecheckCancelled, DispatchOutput, CheckEnd, Flush, FlushFails, CheckCanProcess
    <3>. QED  BY <1>1, <3>1, <3>2
  <2>2. CASE PullInput
    <3>1. UNCHANGED <<fed, finished, cancelled, transcript, faulted, ended>>
      BY <2>2 DEF PullInput, EmitChunk, EmitEndOfInput, Take, queueVars, processVars,
         bridgeVars
    <3>. QED  BY <3>1 DEF Stream!vars
  <2>3. CASE PullRefused \/ RunWindow \/ EndOutput
    <3>1. UNCHANGED <<queueVars, bridgeVars>>
      BY <2>3 DEF PullRefused, SourceRefuses, RunWindow, EndOutput, sourceVars
    <3>2. \E s : Return(s) \/ Goto(s)
      BY <2>3 DEF PullRefused, SourceRefuses, RunWindow, EndOutput
    <3>. QED  BY <1>1, <3>1, <3>2
  <2>4. CASE Infer
    BY <1>1, <2>4 DEF Infer, InferText, InferUnsupported, InferFails
  <2>. QED  BY <1>4, <2>1, <2>2, <2>3, <2>4 DEF ProcessNext
<1>5. CASE ResetEnter
  BY <1>1, <1>5 DEF ResetEnter
<1>6. CASE ResetStep
  <2>1. CASE ResetSession
    BY <2>1 DEF ResetSession, ClearQueue, Stream!Next, Stream!Restart
  <2>2. CASE ResetFlag
    <3>1. faulted' = faulted
      BY <1>0, <2>2 DEF ResetFlag, Return, Failures
    <3>. QED  BY <2>2, <3>1 DEF ResetFlag, queueVars, Stream!vars
  <2>. QED  BY <1>6, <2>1, <2>2 DEF ResetStep
<1>7. CASE PushStep
  <2>1. CASE PushEnter \/ PushCheckFinished
    BY <2>1 DEF PushEnter, PushCheckFinished, queueVars, processVars, bridgeVars,
       Stream!vars
  <2>2. CASE PushSamples
    <3>1. /\ pushCount \in 1 .. (StreamSamples - fed) /\ fed \in Nat /\ StreamSamples \in Nat
          /\ UNCHANGED <<finished, cancelled, transcript, faulted, ended>>
          /\ fed' = fed + Accepted(pushCount) /\ QueueTypeOK
      BY <2>2, SourceFacts, SourceConfig DEF PushSamples, Push, processVars, bridgeVars,
         SessionInv, ProcessInv, PushWithinRecording
    <3>2. Accepted(pushCount) \in 0 .. pushCount
      BY <3>1, <2>2, PushPending DEF PushSamples
    <3>3. CASE Accepted(pushCount) = 0
      BY <3>1, <3>3 DEF Stream!vars
    <3>4. CASE Accepted(pushCount) # 0
      <4>1. ~finished /\ ~cancelled
        BY <3>4 DEF Accepted
      <4>2. ended = FALSE
        BY <4>1, AllInferredFacts DEF SessionInv, ProcessInv, EndedIsOver, ProcessTypeOK
      <4>3. Accepted(pushCount) \in 1 .. (StreamSamples - fed)
        BY <3>1, <3>2, <3>4
      <4>4. Stream!Feed(Accepted(pushCount))
        BY <3>1, <4>1, <4>2 DEF Stream!Feed
      <4>. QED  BY <4>3, <4>4 DEF Stream!Next
    <3>. QED  BY <3>3, <3>4
  <2>. QED  BY <1>7, <2>1, <2>2 DEF PushStep
<1>8. CASE FinishBetweenCalls
  BY <1>8 DEF FinishBetweenCalls, FinishAudio, Finish, processVars, bridgeVars, Stream!Next,
     Stream!Close
<1>9. CASE CancelSession
  BY <1>9 DEF CancelSession, Cancel, processVars, bridgeVars, Stream!Next,
     Stream!RequestCancel
<1>10. CASE UNCHANGED vars
  BY <1>10 DEF vars, sourceVars, queueVars, processVars, bridgeVars, Stream!vars
<1>. QED
  BY <1>2, <1>3, <1>4, <1>5, <1>6, <1>7, <1>8, <1>9, <1>10 DEF Next

-----------------------------------------------------------------------------

\* Inside the session the source behaves as OmniInputSource on its own.
LEMMA SessionImplementsSource == Spec => SourceSpec
<1>1. Init => SourceInit
  BY DEF Init
<1>. QED  BY <1>1, SessionInvHolds, SessionStepIsSourceStep, PTL DEF Spec, SourceSpec

\* The state of the session stays within its types.
THEOREM SessionIsTypeCorrect == Spec => []SessionTypeOK
<1>1. SessionInv => SessionTypeOK
  BY SourceFacts DEF SessionInv, ChunkInv, ProcessInv, SessionTypeOK
<1>. QED  BY <1>1, SessionInvHolds, PTL

\* Upstream never holds a window and a step of audio outside the bounded queue,
\* however pushes, the end of the input and cancellation fall between its pulls
\* (the chunk bound of ScheduleInternal, WindowStepSamples).
THEOREM SessionBufferIsBounded == Spec => []UpstreamBufferIsBounded
<1>1. SessionInv => UpstreamBufferIsBounded
  BY DEF SessionInv
<1>. QED  BY <1>1, SessionInvHolds, PTL

\* A final result that followed no failure means that the text of every
\* accepted sample reached the caller, the last short window included.
THEOREM SessionEndsComplete == Spec => []FinalIsComplete
<1>1. SessionInv => FinalIsComplete
  BY AllInferredFacts DEF SessionInv, ProcessInv, EndedIsOver, FinalIsComplete
<1>. QED  BY <1>1, SessionInvHolds, PTL

\* The session over the Omni engine keeps the same promise to its caller as the
\* windowed one: the text of each sample arrives at most once, audio is accepted
\* only while the stream is open, and the final result completes the recording or
\* follows a reported failure (litert_lm_asr_bridge.h).
THEOREM SessionImplementsStream == Spec => ImplementsStream
<1>1. Init => Stream!Init
  BY DEF Init, SourceInit, QueueInit, ProcessInit, Stream!Init
<1>. QED
  BY <1>1, SessionStepIsStreamStep, SessionInvHolds, PTL
  DEF Spec, ImplementsStream, Stream!Spec

\* What holds of the source holds inside every session: the chunks carry exactly
\* the accepted samples ...
THEOREM SessionCarriesTheRecording == Spec => []ChunksCarryTheRecording
BY SessionImplementsSource, SourceCarriesTheRecording

\* ... and the end of input is announced once, after the last of them.
THEOREM SessionEndsItsInputOnce == Spec => []EndOfInputIsLast
BY SessionImplementsSource, SourceEndsOnce
=============================================================================
