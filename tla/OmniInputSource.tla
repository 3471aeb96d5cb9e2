--------------------------- MODULE OmniInputSource ---------------------------
(***************************************************************************)
(* The push source for the Omni sessions of LiteRT-LM v0.19 and later      *)
(* (litert_lm_asr_omni_input_source.cc).  It cuts no windows: it hands the *)
(* queued audio to the upstream session in chunks of at most one window    *)
(* step, then a single end-of-input marker.  ScheduleInternal and          *)
(* ResetInternal are kept apart by the session's process_mutex, so each is *)
(* one action.                                                             *)
(***************************************************************************)
EXTENDS PushQueue

VARIABLES
  eofSent,  \* end_of_input_sent_
  handed    \* what the upstream session was handed since the last reset

chunkVars == <<eofSent, handed>>
sourceVars == <<queueVars, chunkVars>>

EndOfInput == 0

\* Mutant: everything queued goes out in one chunk.
MaxChunkWholeQueue == MaxBufferedSamples

MaxChunk == IF StepSamples < 1 THEN 1 ELSE StepSamples

ChunkSize == IF MaxChunk < Len(pending) THEN MaxChunk ELSE Len(pending)

NeedSchedule == cancelled \/ pending # <<>> \/ (finished /\ ~eofSent)

\* Mutant: a drained input ends without the end-of-input marker.
ScheduleStatusNoMarker ==
  CASE cancelled -> "CANCELLED"
    [] ~cancelled /\ pending = <<>> /\ ~finished -> "NOT_FOUND"
    [] ~cancelled /\ pending = <<>> /\ finished -> "OUT_OF_RANGE"
    [] OTHER -> "OK"

ScheduleStatus ==
  CASE cancelled -> "CANCELLED"
    [] ~cancelled /\ pending = <<>> /\ ~finished -> "NOT_FOUND"
    [] ~cancelled /\ pending = <<>> /\ finished /\ eofSent -> "OUT_OF_RANGE"
    [] OTHER -> "OK"

SourceInit == QueueInit /\ eofSent = FALSE /\ handed = <<>>

\* ScheduleInternal with audio queued ...
EmitChunk ==
  /\ ScheduleStatus = "OK" /\ pending # <<>>
  /\ handed' = handed \o SubSeq(pending, 1, ChunkSize)
  /\ Take(ChunkSize)
  /\ UNCHANGED eofSent

\* ... and with the finished input drained.
EmitEndOfInput ==
  /\ ScheduleStatus = "OK" /\ pending = <<>>
  /\ handed' = Append(handed, EndOfInput)
  /\ eofSent' = TRUE
  /\ UNCHANGED queueVars

\* ResetInternal.
Reset == ClearQueue /\ eofSent' = FALSE /\ handed' = <<>>

InputStep ==
  /\ \/ \E n \in 1 .. (StreamSamples - fed) : Push(n)
     \/ Finish
     \/ Cancel
  /\ UNCHANGED chunkVars

SourceNext == InputStep \/ EmitChunk \/ EmitEndOfInput \/ Reset

SourceSpec == SourceInit /\ [][SourceNext]_sourceVars

-----------------------------------------------------------------------------
(***************************************************************************)
(* Properties.                                                             *)
(***************************************************************************)

\* Audio handed to upstream: all of handed but the marker.
HandedSamples == Len(handed) - (IF eofSent THEN 1 ELSE 0)

\* Types of the source's state.
SourceTypeOK ==
  /\ QueueTypeOK
  /\ eofSent \in BOOLEAN
  /\ handed \in Seq(Samples \cup {EndOfInput})

\* The upstream session receives every accepted sample once and in order,
\* whatever the chunking: what was handed over, followed by what is queued,
\* is the accepted part of the recording (Push, ScheduleInternal and
\* ResetInternal).
ChunksCarryTheRecording ==
  /\ HandedSamples + Len(pending) = fed
  /\ \A i \in 1 .. HandedSamples : handed[i] = i
  /\ QueueIsTail

\* The end of input is announced once, after the last sample: never while
\* audio is queued, and no audio follows it until a reset, although Finish,
\* Push and the two checks in ScheduleInternal are separate calls
\* (end_of_input_sent_).
EndOfInputIsLast ==
  /\ eofSent => FinishedAndDrained /\ handed[Len(handed)] = EndOfInput
  /\ \A i \in 1 .. Len(handed) - 1 : handed[i] # EndOfInput

\* NeedScheduleInternal promises what ScheduleInternal then does: upstream
\* neither spins on a source that has nothing to give nor stops at one that
\* still owes the end of input.
NeedScheduleAgreesWithSchedule ==
  NeedSchedule <=> ScheduleStatus \in {"OK", "CANCELLED"}

=============================================================================
