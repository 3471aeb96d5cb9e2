------------------------------ MODULE AsrProcess ------------------------------
(***************************************************************************)
(* The C bridge around an upstream ASR session (litert_lm_asr_bridge.cc):  *)
(* process_next, reset, push_audio_f32, finish_audio and cancel, as far as *)
(* they are the same for both upstream generations.  AsrSession and        *)
(* OmniSession compose these steps with their input source and upstream    *)
(* session.                                                                *)
(*                                                                         *)
(* process_next and reset hold process_mutex for their whole body; push,   *)
(* finish and cancel never take it: they meet the others only at the       *)
(* source's input_mutex_.  One action here is the code between two         *)
(* acquisitions of that inner lock.  pc is the position of the call that   *)
(* holds process_mutex ("idle" when it is free).                           *)
(*                                                                         *)
(* A text is the set of samples it transcribes.                            *)
(***************************************************************************)
EXTENDS PushQueue

VARIABLES
  pc,             \* position of the holder of process_mutex
  finalReturned,  \* final_result_returned
  merged,         \* heard by upstream, text not confirmed yet
  output,         \* kind of the upstream result in hand (AsrOutputKind)
  text,           \* confirmed text of that result
  status,         \* what process_next returned last ("FINAL": is_final = 1)
  transcript,     \* confirmed text the caller received in this stream
  faulted,        \* process_next reported a failure for this stream
  ended,          \* the caller received the final result of this stream
  pushPc,         \* position of the recording thread inside push_audio_f32
  pushCount,      \* sample_count of that call
  pushStatus      \* what push_audio_f32 returned last

resultVars == <<output, text>>
bridgeVars == <<finalReturned, transcript, ended>>
processVars == <<pc, status, faulted, merged, resultVars, bridgeVars>>
pushVars == <<pushPc, pushCount, pushStatus>>

Outputs == {"TEXT", "END", "UNSUPPORTED"}
Failures == {"CANCELLED", "OUT_OF_RANGE", "INTERNAL", "RESOURCE_EXHAUSTED",
             "FAILED_PRECONDITION"}
Statuses ==
  {"NONE", "OK", "FINAL", "NEEDS_MORE_AUDIO", "END_OF_STREAM"} \cup Failures
Positions ==
  {"idle", "checkCancelled", "checkCanProcess", "checkDrained", "upstream",
   "infer", "NOT_FOUND", "OUT_OF_RANGE", "recheckCancelled", "dispatch",
   "populate", "checkEnd", "flush", "populateFinal", "resetSession",
   "resetFlag"}

ProcessInit ==
  /\ pc = "idle" /\ finalReturned = FALSE
  /\ merged = {} /\ output = "TEXT" /\ text = {} /\ transcript = {}
  /\ status = "NONE" /\ faulted = FALSE /\ ended = FALSE
  /\ pushPc = "idle" /\ pushCount = 0 /\ pushStatus = "NONE"

(***************************************************************************)
(* litert_lm_asr_session_process_next.                                     *)
(***************************************************************************)

\* Leave the call: release process_mutex and hand s to the caller.
Return(s) ==
  /\ pc' = "idle"
  /\ status' = s
  /\ faulted' = (faulted \/ s \in Failures)

Goto(position) ==
  /\ pc' = position
  /\ UNCHANGED <<status, faulted>>

ProcessEnter ==
  /\ pc = "idle"
  /\ Goto("checkCancelled")
  /\ UNCHANGED <<queueVars, pushVars, merged, resultVars, bridgeVars>>

CheckCancelled ==
  /\ pc = "checkCancelled"
  /\ CASE cancelled -> Return("CANCELLED")
       [] ~cancelled /\ finalReturned -> Return("END_OF_STREAM")
       [] OTHER -> Goto("checkCanProcess")
  /\ UNCHANGED <<queueVars, pushVars, merged, resultVars, bridgeVars>>

CheckCanProcess(canProcess) ==
  /\ pc = "checkCanProcess"
  /\ IF canProcess THEN Goto("upstream") ELSE Goto("checkDrained")
  /\ UNCHANGED <<queueVars, pushVars, merged, resultVars, bridgeVars>>

\* Mutants: the queue is not looked at; the drained input is not noticed.
CheckFinishedOnly ==
  /\ pc = "checkDrained"
  /\ IF finished THEN Goto("flush") ELSE Return("NEEDS_MORE_AUDIO")
  /\ UNCHANGED <<queueVars, pushVars, merged, resultVars, bridgeVars>>
NeverDrained ==
  /\ pc = "checkDrained"
  /\ Return("NEEDS_MORE_AUDIO")
  /\ UNCHANGED <<queueVars, pushVars, merged, resultVars, bridgeVars>>

CheckDrained ==
  /\ pc = "checkDrained"
  /\ IF FinishedAndDrained THEN Goto("flush") ELSE Return("NEEDS_MORE_AUDIO")
  /\ UNCHANGED <<queueVars, pushVars, merged, resultVars, bridgeVars>>

\* The upstream call passes on the refusal s of the input source.
SourceRefuses(s) ==
  /\ pc = "upstream"
  /\ IF s = "CANCELLED" THEN Return(s) ELSE Goto(s)
  /\ UNCHANGED <<queueVars, pushVars, merged, resultVars, bridgeVars>>

\* Inference on a window with the new samples yields a result: some prefix
\* of the unconfirmed text is confirmed by it, the rest may still be revised.
InferText(new) ==
  /\ pc = "infer"
  /\ \E last \in {0} \cup merged \cup new :
       /\ text' = {s \in merged \cup new : s <= last}
       /\ merged' = {s \in merged \cup new : s > last}
  /\ output' = "TEXT"
  /\ Goto("recheckCancelled")
  /\ UNCHANGED <<queueVars, pushVars, bridgeVars>>

\* The window is merged but the pipeline has no result to return yet.
InferNoOutput(new) ==
  /\ pc = "infer"
  /\ merged' = merged \cup new
  /\ \E s \in {"NOT_FOUND", "OUT_OF_RANGE"} : Goto(s)
  /\ UNCHANGED <<queueVars, pushVars, resultVars, bridgeVars>>

\* Inference fails or throws: the text of the window is lost.
InferFails ==
  /\ pc = "infer"
  /\ Return("INTERNAL")
  /\ UNCHANGED <<queueVars, pushVars, merged, resultVars, bridgeVars>>

\* Mutant: a refused pull always asks for more audio.
NoResultNeverEnds ==
  /\ pc \in {"NOT_FOUND", "OUT_OF_RANGE"}
  /\ Return("NEEDS_MORE_AUDIO")
  /\ UNCHANGED <<queueVars, pushVars, merged, resultVars, bridgeVars>>

\* No result: the input may have been finished and drained meanwhile.
NoResult ==
  /\ pc \in {"NOT_FOUND", "OUT_OF_RANGE"}
  /\ CASE FinishedAndDrained -> Goto("flush")
       [] ~FinishedAndDrained /\ pc = "NOT_FOUND" -> Return("NEEDS_MORE_AUDIO")
       [] OTHER -> Return(pc)
  /\ UNCHANGED <<queueVars, pushVars, merged, resultVars, bridgeVars>>

RecheckCancelled ==
  /\ pc = "recheckCancelled"
  /\ IF cancelled THEN Return("CANCELLED") /\ text' = {}
                  ELSE Goto("dispatch") /\ UNCHANGED text
  /\ UNCHANGED <<queueVars, pushVars, merged, output, bridgeVars>>

\* Only a text result is handed out; an end of output leads to the flush.
DispatchOutput ==
  /\ pc = "dispatch"
  /\ CASE output = "TEXT" -> Goto("populate")
       [] output = "END" -> Goto("checkEnd")
       [] OTHER -> Return("INTERNAL")
  /\ UNCHANGED <<queueVars, pushVars, merged, resultVars, bridgeVars>>

\* Upstream ended: that is an error unless the input is drained.
CheckEnd ==
  /\ pc = "checkEnd"
  /\ IF FinishedAndDrained THEN Goto("flush") ELSE Return("FAILED_PRECONDITION")
  /\ UNCHANGED <<queueVars, pushVars, merged, resultVars, bridgeVars>>

\* PopulateResult copies the text for the caller, or cannot allocate it.
Populate ==
  /\ pc = "populate"
  /\ text' = {}
  /\ \/ Return("OK") /\ transcript' = transcript \cup text
     \/ Return("RESOURCE_EXHAUSTED") /\ UNCHANGED transcript
  /\ UNCHANGED <<queueVars, pushVars, merged, output, finalReturned, ended>>

\* flush_final: everything still unconfirmed becomes final text ...
Flush ==
  /\ pc = "flush"
  /\ text' = merged /\ merged' = {}
  /\ Goto("populateFinal")
  /\ UNCHANGED <<queueVars, pushVars, output, bridgeVars>>

\* ... unless the upstream flush fails, with or without its text.
FlushFails ==
  /\ pc = "flush"
  /\ merged' \in {merged, {}}
  /\ Return("INTERNAL")
  /\ UNCHANGED <<queueVars, pushVars, resultVars, bridgeVars>>

\* Mutant: final_result_returned is never set.
PopulateFinalForgets ==
  /\ pc = "populateFinal"
  /\ text' = {}
  /\ Return("FINAL") /\ transcript' = transcript \cup text /\ ended' = TRUE
  /\ UNCHANGED <<queueVars, pushVars, merged, output, finalReturned>>

PopulateFinal ==
  /\ pc = "populateFinal"
  /\ text' = {}
  /\ \/ /\ Return("FINAL")
        /\ transcript' = transcript \cup text
        /\ finalReturned' = TRUE /\ ended' = TRUE
     \/ Return("RESOURCE_EXHAUSTED") /\ UNCHANGED bridgeVars
  /\ UNCHANGED <<queueVars, pushVars, merged, output>>

\* The steps that touch neither the source nor the upstream session.
BridgeStep ==
  \/ ProcessEnter \/ CheckCancelled \/ CheckDrained
  \/ NoResult \/ RecheckCancelled \/ DispatchOutput \/ Populate
  \/ Flush \/ FlushFails \/ PopulateFinal

(***************************************************************************)
(* litert_lm_asr_session_reset: the upstream session resets its stages,    *)
(* the source among them, then the bridge clears its own flag.  The        *)
(* caller's bookkeeping starts over with the stream.                       *)
(***************************************************************************)
ResetEnter ==
  /\ pc = "idle"
  /\ Goto("resetSession")
  /\ UNCHANGED <<queueVars, pushVars, merged, resultVars, bridgeVars>>

\* Mutant: the text merger is not reset.
ResetSessionKeepsText ==
  /\ pc = "resetSession"
  /\ ClearQueue
  /\ transcript' = {} /\ faulted' = FALSE /\ ended' = FALSE
  /\ pc' = "resetFlag"
  /\ UNCHANGED <<pushVars, status, merged, resultVars, finalReturned>>

ResetSession ==
  /\ pc = "resetSession"
  /\ ClearQueue
  /\ merged' = {} /\ transcript' = {} /\ faulted' = FALSE /\ ended' = FALSE
  /\ pc' = "resetFlag"
  /\ UNCHANGED <<pushVars, status, resultVars, finalReturned>>

ResetFlag ==
  /\ pc = "resetFlag"
  /\ finalReturned' = FALSE
  /\ Return("NONE")
  /\ UNCHANGED <<queueVars, pushVars, merged, resultVars, transcript, ended>>

(***************************************************************************)
(* litert_lm_asr_session_push_audio_f32, finish_audio and cancel.  A push  *)
(* that a reset overtakes lands in the new stream.                         *)
(***************************************************************************)
PushEnter ==
  /\ pushPc = "idle"
  /\ \E n \in 1 .. (StreamSamples - fed) :
       IF cancelled
       THEN pushStatus' = "CANCELLED" /\ UNCHANGED <<pushPc, pushCount>>
       ELSE pushPc' = "checkFinished" /\ pushCount' = n /\ UNCHANGED pushStatus
  /\ UNCHANGED <<queueVars, processVars>>

PushCheckFinished ==
  /\ pushPc = "checkFinished"
  /\ IF finished
     THEN pushPc' = "idle" /\ pushStatus' = "FAILED_PRECONDITION"
     ELSE pushPc' = "push" /\ UNCHANGED pushStatus
  /\ UNCHANGED <<queueVars, processVars, pushCount>>

PushSamples ==
  /\ pushPc = "push"
  /\ Push(pushCount)
  /\ pushPc' = "idle"
  /\ pushStatus' = IF Accepted(pushCount) < pushCount THEN "WOULD_BLOCK" ELSE "OK"
  /\ UNCHANGED <<processVars, pushCount>>

\* finish_audio and cancel come from any thread, also during a push.
FinishAudio == Finish /\ UNCHANGED <<processVars, pushVars>>

CancelSession == ~cancelled /\ Cancel /\ UNCHANGED <<processVars, pushVars>>

PushStep == PushEnter \/ PushCheckFinished \/ PushSamples

-----------------------------------------------------------------------------
(***************************************************************************)
(* Properties shared by both sessions.                                     *)
(***************************************************************************)

\* Types of the bridge's state.
ProcessTypeOK ==
  /\ pc \in Positions /\ output \in Outputs /\ status \in Statuses
  /\ merged \subseteq 1 .. fed /\ text \subseteq 1 .. fed
  /\ transcript \subseteq 1 .. fed
  /\ finalReturned \in BOOLEAN /\ faulted \in BOOLEAN /\ ended \in BOOLEAN
  /\ pushPc \in {"idle", "checkFinished", "push"}
  /\ pushCount \in 0 .. StreamSamples
  /\ pushStatus \in {"NONE", "OK", "WOULD_BLOCK", "CANCELLED",
                     "FAILED_PRECONDITION"}

\* The final result never hides lost speech: when it has been delivered and
\* no call of this stream reported a failure, the input was finished, no
\* accepted sample is left in the queue and the text of every one of them
\* reached the caller, however push, finish, cancel and reset interleaved
\* with the separate checks of process_next.
FinalIsComplete ==
  ended /\ ~faulted => FinishedAndDrained /\ transcript = 1 .. fed

\* The session keeps the promise of AsrStream.
Stream == INSTANCE AsrStream WITH closed <- finished, delivered <- transcript

ImplementsStream == Stream!Spec

=============================================================================
