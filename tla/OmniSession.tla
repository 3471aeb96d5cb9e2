------------------------------ MODULE OmniSession ------------------------------
(***************************************************************************)
(* A streaming session of the bridge built for LiteRT-LM v0.19 and later   *)
(* (LITERT_LM_ASR_OMNI_ENGINE): process_next over OmniInputSource and an   *)
(* upstream OmniSession that cuts the windows itself.                      *)
(*                                                                         *)
(* The upstream session is external.  As the source's comments say, one    *)
(* ProcessNext drains the source until a window is buffered and runs it;   *)
(* after the end of input it pads and runs the rest, then reports the end. *)
(* A "not found" of ProcessNext is the source's.                           *)
(***************************************************************************)
EXTENDS OmniInputSource, AsrProcess

VARIABLE inferred  \* how many of the samples handed over upstream has run

vars == <<sourceVars, processVars, pushVars, inferred>>

Buffered == HandedSamples - inferred

\* Fresh samples the next window needs.
WindowNeeds == IF inferred = 0 THEN WindowSamples ELSE StepSamples

WindowReady == Buffered >= WindowNeeds \/ (eofSent /\ Buffered > 0)

\* The fresh samples of the window upstream runs next.
WindowTakes == IF Buffered < WindowNeeds THEN Buffered ELSE WindowNeeds

NewSamples == (inferred + 1) .. (inferred + WindowTakes)

Init == SourceInit /\ ProcessInit /\ inferred = 0

\* ProcessNext pulls chunks and the end of input until a window is ready.
PullInput ==
  /\ pc = "upstream"
  /\ ~WindowReady
  /\ EmitChunk \/ EmitEndOfInput
  /\ UNCHANGED <<processVars, pushVars, inferred>>

PullRefused ==
  /\ ~WindowReady
  /\ ScheduleStatus # "OK"
  /\ SourceRefuses(ScheduleStatus)
  /\ UNCHANGED <<chunkVars, inferred>>

RunWindow ==
  /\ pc = "upstream"
  /\ WindowReady
  /\ Goto("infer")
  /\ UNCHANGED <<sourceVars, pushVars, merged, resultVars, bridgeVars, inferred>>

\* Everything was run after the end of input: EndOfOutput.
EndOutput ==
  /\ pc = "upstream"
  /\ ~WindowReady /\ eofSent
  /\ output' = "END"
  /\ Goto("recheckCancelled")
  /\ UNCHANGED <<sourceVars, pushVars, merged, text, bridgeVars, inferred>>

\* The model answers with an output that is no text.
InferUnsupported ==
  /\ pc = "infer"
  /\ output' = "UNSUPPORTED"
  /\ Goto("recheckCancelled")
  /\ UNCHANGED <<queueVars, pushVars, merged, text, bridgeVars>>

Infer ==
  /\ InferText(NewSamples) \/ InferUnsupported \/ InferFails
  /\ inferred' = inferred + WindowTakes
  /\ UNCHANGED chunkVars

\* OmniInputSource::CanProcess is constantly true.
ProcessNext ==
  \/ /\ BridgeStep \/ CheckEnd \/ CheckCanProcess(TRUE)
     /\ UNCHANGED <<chunkVars, inferred>>
  \/ PullInput \/ PullRefused \/ RunWindow \/ EndOutput
  \/ Infer

ResetStep ==
  \/ ResetSession /\ Reset /\ inferred' = 0
  \/ ResetFlag /\ UNCHANGED <<chunkVars, inferred>>

\* The header allows push and cancel to overlap process_next, not finish: it
\* comes between two calls of process_next.
FinishBetweenCalls == pc = "idle" /\ FinishAudio

Next ==
  \/ ProcessNext
  \/ ResetStep
  \/ /\ ResetEnter \/ PushStep \/ FinishBetweenCalls \/ CancelSession
     /\ UNCHANGED <<chunkVars, inferred>>

\* As in AsrSession: the caller polls, and calls return.
Fairness == WF_vars(ProcessNext) /\ WF_vars(ResetStep)

Spec == Init /\ [][Next]_vars /\ Fairness

-----------------------------------------------------------------------------
(***************************************************************************)
(* Properties.                                                             *)
(***************************************************************************)

\* Types of the whole session.
SessionTypeOK == SourceTypeOK /\ ProcessTypeOK /\ inferred \in 0 .. fed

\* Less than a window and a step of the recording is ever held outside the bounded
\* queue: a call pulls while no window is ready, and each pull hands it at most a
\* step (the chunk bound in WindowStepSamples).
UpstreamBufferIsBounded == Buffered < WindowSamples + StepSamples

\* A finished recording is transcribed to its end if the caller keeps
\* polling, unless it is cancelled or reset or a failure is reported.
FinishedStreamEnds ==
  finished ~> ended \/ faulted \/ cancelled \/ ~finished

=============================================================================
