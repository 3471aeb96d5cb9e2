------------------------------ MODULE PushQueue ------------------------------
(***************************************************************************)
(* The bounded input queue that both generations of PushAudioSource keep   *)
(* (litert_lm_asr_audio_source.cc and litert_lm_asr_omni_input_source.cc): *)
(* Push, Finish and Cancel are the same code in both.  Every method holds  *)
(* input_mutex_ for its whole body, so each is one action.                 *)
(*                                                                         *)
(* A sample is the number of its position in the recording the caller      *)
(* streams.  The caller retries the suffix that was not accepted, as the   *)
(* header asks, so the next sample offered is always the one after the     *)
(* last accepted; a reset starts a new recording at sample 1.              *)
(***************************************************************************)
EXTENDS Integers, Sequences

CONSTANTS WindowSamples,       \* samples of one inference window
          OverlapSamples,      \* samples a window repeats of the one before
          MaxBufferedSamples,  \* capacity of the input queue
          StreamSamples        \* length of the recording the caller streams

\* What ValidateConfig leaves possible, in samples.
ASSUME SourceConfig ==
  /\ WindowSamples \in Nat \ {0}
  /\ OverlapSamples \in 0 .. (WindowSamples - 1)
  /\ MaxBufferedSamples \in Nat
  /\ WindowSamples <= MaxBufferedSamples
  /\ StreamSamples \in Nat

VARIABLES
  pending,    \* pending_samples_
  finished,   \* finished_
  cancelled,  \* cancelled_
  fed         \* how many samples Push accepted since the last reset

queueVars == <<pending, finished, cancelled, fed>>

Samples == 1 .. StreamSamples
StepSamples == WindowSamples - OverlapSamples

FinishedAndDrained == finished /\ pending = <<>>

\* How many samples of a batch of n the queue takes.
Room == IF MaxBufferedSamples > Len(pending)
        THEN MaxBufferedSamples - Len(pending) ELSE 0

\* Mutants: no capacity check; no check that the input is still open.
AcceptedUnbounded(n) == IF finished \/ cancelled THEN 0 ELSE n
AcceptedAfterFinish(n) == IF cancelled THEN 0 ELSE IF n < Room THEN n ELSE Room

Accepted(n) ==
  IF finished \/ cancelled THEN 0 ELSE IF n < Room THEN n ELSE Room

\* The next n samples of the caller's recording.
Batch(n) == [i \in 1 .. n |-> fed + i]

QueueInit ==
  pending = <<>> /\ finished = FALSE /\ cancelled = FALSE /\ fed = 0

Push(n) ==
  /\ pending' = pending \o Batch(Accepted(n))
  /\ fed' = fed + Accepted(n)
  /\ UNCHANGED <<finished, cancelled>>

\* Finish succeeds only on an open input: it fails after Cancel or Finish.
Finish ==
  /\ ~cancelled /\ ~finished
  /\ finished' = TRUE
  /\ UNCHANGED <<pending, cancelled, fed>>

Cancel ==
  /\ cancelled' = TRUE
  /\ UNCHANGED <<pending, finished, fed>>

\* Mutant: the queued audio of the old stream survives the reset.
ClearQueueKeepsPending ==
  UNCHANGED pending /\ finished' = FALSE /\ cancelled' = FALSE /\ fed' = 0

ClearQueue ==
  pending' = <<>> /\ finished' = FALSE /\ cancelled' = FALSE /\ fed' = 0

\* The first n pending samples leave the queue.
Take(n) ==
  /\ pending' = SubSeq(pending, n + 1, Len(pending))
  /\ UNCHANGED <<finished, cancelled, fed>>

\* Types, and the capacity of the queue.
QueueTypeOK ==
  /\ pending \in Seq(Samples)
  /\ Len(pending) <= MaxBufferedSamples
  /\ finished \in BOOLEAN /\ cancelled \in BOOLEAN
  /\ fed \in 0 .. StreamSamples

\* The queue holds the last accepted samples, in order.
QueueIsTail ==
  /\ Len(pending) <= fed
  /\ \A j \in 1 .. Len(pending) : pending[j] = fed - Len(pending) + j

=============================================================================
