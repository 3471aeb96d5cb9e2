------------------------------ MODULE AsrSession ------------------------------
(***************************************************************************)
(* A streaming session of the bridge built for the LiteRT-LM releases      *)
(* before v0.19: process_next over the windowed PushAudioSource, with a    *)
(* recording thread that pushes and finishes, a thread that polls          *)
(* process_next, and cancel and reset calls from any thread.               *)
(*                                                                         *)
(* The upstream session (inference and text merger) is external: it is     *)
(* modelled by the results process_next distinguishes.                     *)
(***************************************************************************)
EXTENDS PushAudioSource, AsrProcess

vars == <<sourceVars, processVars, pushVars>>

\* The samples of the newest window that no earlier window held.
NewSamples ==
  {s \in 1 .. fed : /\ FreshStart(Len(outputs)) <= s
                    /\ s < FreshStart(Len(outputs) + 1)}

Init == SourceInit /\ ProcessInit

\* ProcessNextChunk pulls one window out of the source ...
ScheduleWindow ==
  /\ pc = "upstream"
  /\ EmitWindow
  /\ Goto("infer")
  /\ UNCHANGED <<pushVars, merged, resultVars, bridgeVars>>

\* ... or gets none.
ScheduleRefused ==
  /\ ScheduleStatus # "OK"
  /\ SourceRefuses(ScheduleStatus)
  /\ UNCHANGED windowVars

Infer ==
  /\ InferText(NewSamples) \/ InferNoOutput(NewSamples) \/ InferFails
  /\ UNCHANGED windowVars

ProcessNext ==
  \/ (BridgeStep \/ CheckCanProcess(CanProcess)) /\ UNCHANGED windowVars
  \/ ScheduleWindow \/ ScheduleRefused
  \/ Infer

ResetStep ==
  \/ ResetSession /\ Reset
  \/ ResetFlag /\ UNCHANGED windowVars

Next ==
  \/ ProcessNext
  \/ ResetEnter /\ UNCHANGED windowVars
  \/ ResetStep
  \/ PushStep /\ UNCHANGED windowVars
  \/ FinishAudio /\ UNCHANGED windowVars
  \/ CancelSession /\ UNCHANGED windowVars

\* The caller polls process_next until the stream ends, and a call that was
\* made returns: upstream inference terminates.  Nothing obliges the caller
\* to push, finish, cancel or reset.
Fairness == WF_vars(ProcessNext) /\ WF_vars(ResetStep)

Spec == Init /\ [][Next]_vars /\ Fairness

-----------------------------------------------------------------------------
(***************************************************************************)
(* Properties.                                                             *)
(***************************************************************************)

\* Types of the whole session.
SessionTypeOK == SourceTypeOK /\ ProcessTypeOK

\* A stream has one final result and nothing after it: until a reset, no
\* later call runs another window, hands out text or returns OK.
NothingAfterFinal ==
  [][ended /\ ended' =>
       /\ transcript' = transcript /\ outputs' = outputs
       /\ pc # "idle" /\ pc' = "idle" =>
            status' \in {"END_OF_STREAM", "CANCELLED"}]_vars

\* Cancellation sticks: once a call has reported CANCELLED, every later call
\* reports it too until a reset completes.
CancellationSticks ==
  [][status = "CANCELLED" => status' \in {"CANCELLED", "NONE"}]_vars

\* The source inside the session behaves as PushAudioSource on its own.
ImplementsSource == SourceSpec

\* A finished recording is transcribed to its end if the caller keeps
\* polling, unless it is cancelled or reset or a failure is reported.
FinishedStreamEnds ==
  finished ~> ended \/ faulted \/ cancelled \/ ~finished

\* A caller that got WOULD_BLOCK because the queue is full gets room again by
\* polling process_next.
BackpressureClears == (Room = 0) ~> (Room > 0 \/ cancelled)

(***************************************************************************)
(* What the header says of the calls that follow.                          *)
(***************************************************************************)

\* litert_lm_asr_bridge.h: after the call that returned is_final=1, later
\* calls return END_OF_STREAM.
FinalThenEndOfStream ==
  [][ended /\ ended' /\ pc # "idle" /\ pc' = "idle"
       => status' \in {"FINAL", "END_OF_STREAM"}]_vars

=============================================================================
