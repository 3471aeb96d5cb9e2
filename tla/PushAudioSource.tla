--------------------------- MODULE PushAudioSource ---------------------------
(***************************************************************************)
(* The push source of the windowed ASR pipeline of the LiteRT-LM releases  *)
(* before v0.19 (litert_lm_asr_audio_source.cc): it cuts the queued audio  *)
(* into inference windows, each starting with the last samples of the one  *)
(* before, and pads the last one with silence.                             *)
(*                                                                         *)
(* ScheduleInternal and Reset also publish to, or clear, the stage's       *)
(* output queue outside input_mutex_; the session's process_mutex keeps    *)
(* the two apart and nobody else reads that queue, so each is one action.  *)
(***************************************************************************)
EXTENDS PushQueue

VARIABLES
  overlap,  \* overlap_
  started,  \* started_
  outputs   \* the windows pushed to the pipeline since the last reset

windowVars == <<overlap, started, outputs>>
sourceVars == <<queueVars, windowVars>>

Silence == 0

Required == IF started THEN StepSamples ELSE WindowSamples

\* Mutant: an exactly full window does not count.
CanProcessStrict ==
  \/ cancelled
  \/ Len(pending) > Required
  \/ finished /\ pending # <<>>

CanProcess ==
  \/ cancelled
  \/ Len(pending) >= Required
  \/ finished /\ pending # <<>>

PadToWindow(s) ==
  [i \in 1 .. WindowSamples |-> IF i <= Len(s) THEN s[i] ELSE Silence]

Taken == IF Len(pending) < Required THEN Len(pending) ELSE Required

Chunk == PadToWindow((IF started THEN overlap ELSE <<>>)
                       \o SubSeq(pending, 1, Taken))

ScheduleStatus ==
  CASE cancelled -> "CANCELLED"
    [] ~cancelled /\ FinishedAndDrained -> "OUT_OF_RANGE"
    [] ~cancelled /\ ~finished /\ Len(pending) < Required -> "NOT_FOUND"
    [] OTHER -> "OK"

SourceInit ==
  QueueInit /\ overlap = <<>> /\ started = FALSE /\ outputs = <<>>

\* ScheduleInternal on the path that hands a window to the pipeline.
EmitWindow ==
  /\ ScheduleStatus = "OK"
  /\ outputs' = Append(outputs, Chunk)
  /\ Take(Taken)
  /\ overlap' = SubSeq(Chunk, StepSamples + 1, WindowSamples)
  /\ started' = TRUE

\* Mutant: the first window of the next stream is cut as a later one.
ResetKeepsStarted ==
  ClearQueue /\ outputs' = <<>> /\ UNCHANGED <<overlap, started>>

Reset ==
  ClearQueue /\ overlap' = <<>> /\ started' = FALSE /\ outputs' = <<>>

InputStep ==
  /\ \/ \E n \in 1 .. (StreamSamples - fed) : Push(n)
     \/ Finish
     \/ Cancel
  /\ UNCHANGED windowVars

SourceNext == InputStep \/ EmitWindow \/ Reset

SourceSpec == SourceInit /\ [][SourceNext]_sourceVars

-----------------------------------------------------------------------------
(***************************************************************************)
(* Properties.                                                             *)
(***************************************************************************)

\* The part of window k that no earlier window held ...
FreshFrom(k) == IF k = 1 THEN 1 ELSE OverlapSamples + 1

\* ... and the position in the recording of its first sample.
FreshStart(k) == IF k = 1 THEN 1 ELSE WindowSamples + (k - 2) * StepSamples + 1

\* Types of the source's state.
SourceTypeOK ==
  /\ QueueTypeOK
  /\ overlap \in Seq(Samples \cup {Silence})
  /\ outputs \in Seq([1 .. WindowSamples -> Samples \cup {Silence}])
  /\ started \in BOOLEAN

\* No accepted sample is lost, duplicated or reordered on its way to
\* inference: window k carries the samples from FreshStart(k) on after its
\* overlap (or silence past the end of a finished recording), and the queue
\* holds exactly the accepted samples that no window carries yet
\* (Push, ScheduleInternal and Reset of PushAudioSource).
WindowsCarryTheRecording ==
  /\ \A k \in 1 .. Len(outputs) : \A i \in FreshFrom(k) .. WindowSamples :
       LET sample == FreshStart(k) + i - FreshFrom(k)
       IN outputs[k][i] = IF sample <= fed THEN sample ELSE Silence
  /\ LET carried == FreshStart(Len(outputs) + 1) - 1
     IN Len(pending) = IF carried <= fed THEN fed - carried ELSE 0
  /\ QueueIsTail

\* Consecutive windows overlap: each window starts with the last samples of
\* the one before, whatever pushes, pauses or resets came in between
\* (overlap_ and started_ in ScheduleInternal and Reset).
ConsecutiveWindowsOverlap ==
  \A k \in 2 .. Len(outputs) : \A i \in 1 .. OverlapSamples :
    outputs[k][i] = outputs[k - 1][StepSamples + i]

\* Only the last window of a finished recording is padded: once a window
\* holds silence the input is finished and nothing waits behind it, so
\* padding never lands in the middle of the audio.
PaddingOnlyEndsTheStream ==
  \A k \in 1 .. Len(outputs) :
    outputs[k][WindowSamples] = Silence =>
      k = Len(outputs) /\ FinishedAndDrained

\* Backpressure cannot wedge the caller: whenever Push would refuse a sample
\* for lack of room, a window can be processed (the configuration check on
\* max_buffered_audio_milliseconds against CanProcess).
FullQueueIsProcessable == Room = 0 => CanProcess

\* CanProcess promises what ScheduleInternal then does: a true answer is
\* never followed by "not ready", a false one never hides a ready window.
CanProcessAgreesWithSchedule ==
  CanProcess <=> ScheduleStatus \in {"OK", "CANCELLED"}

=============================================================================
