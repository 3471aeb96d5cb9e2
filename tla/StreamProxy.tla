------------------------------ MODULE StreamProxy ------------------------------
(***************************************************************************)
(* Streamed turns of one conversation: litert_lm_bridge.c (the proxy that  *)
(* copies every chunk for the consumer) and stream_finish_reason_v019.patch*)
(* (how a decode's stop reason reaches the final chunk).                   *)
(*                                                                         *)
(* Three parties interleave: the sender, which may send a message while    *)
(* earlier turns still run; the runtime, which decodes the turns in order  *)
(* and makes their callbacks one after the other (external); the consumer, *)
(* which drains the callbacks that were posted to it and reads the proxy   *)
(* at a turn's final one.                                                  *)
(***************************************************************************)
EXTENDS Integers, Sequences, FiniteSets

CONSTANTS Proxies,          \* stream_proxy_create contexts
          MaxNumTokens,     \* the context window
          MaxOutputTokens,  \* the budget of a turn
          MaxTurns          \* bound: turns sent

ASSUME StreamConfig ==
  /\ MaxNumTokens \in Nat \ {0} /\ MaxOutputTokens \in Nat \ {0}
  /\ MaxTurns \in Nat
  /\ "none" \notin Proxies

VARIABLES
  sending,     \* the proxy of a message on its way into SendMessageAsync
  proxyOf,     \* proxyOf[t]: the proxy turn t was sent with
  lastReason,  \* Conversation::last_decode_stop_reason_
  turn,        \* turns the runtime has begun
  pc,          \* position of the runtime in the turn
  kvStep,      \* executor.GetCurrentStep: tokens in the context
  steps,       \* num_decoded_steps of the turn
  chunk,       \* the chunk a callback is being made for
  reason,      \* stream_proxy_context::finish_reason
  failure,     \* stream_proxy_context::allocation_failure
  inbox,       \* callbacks posted to the consumer
  verdict,     \* verdict[t]: what the consumer read at the end of turn t
  ended,       \* history: how turn t ended
  raced,       \* history: turns during which another message was sent
  lost         \* history: turns that lost a copy

senderVars == <<sending, proxyOf>>
decodeVars == <<turn, kvStep, steps>>
proxyVars == <<reason, failure>>
consumerVars == <<inbox, verdict>>
historyVars == <<ended, raced, lost>>
vars == <<senderVars, lastReason, decodeVars, pc, chunk, proxyVars,
          consumerVars, historyVars>>

Sent == DOMAIN proxyOf
Running == pc # "idle"
NoProxy == "none"
Unread == [reason |-> "unread", failure |-> FALSE]

\* A text chunk, and the final one, which carries an error or nothing.
TextChunk == [final |-> FALSE, error |-> FALSE, reason |-> "unknown"]
FinalChunk(r) == [final |-> TRUE, error |-> FALSE, reason |-> r]
ErrorChunk(r) == [final |-> TRUE, error |-> TRUE, reason |-> r]

Init ==
  /\ sending = NoProxy /\ proxyOf = <<>>
  /\ lastReason = "unknown"
  /\ turn = 0 /\ pc = "idle" /\ kvStep = 0 /\ steps = 0 /\ chunk = TextChunk
  /\ reason = [p \in Proxies |-> "unknown"]
  /\ failure = [p \in Proxies |-> FALSE]
  /\ inbox = <<>> /\ verdict = <<>>
  /\ ended = <<>> /\ raced = {} /\ lost = {}

-----------------------------------------------------------------------------
(***************************************************************************)
(* Sending.  A proxy is used again only after the consumer has read it     *)
(* ("use one proxy per turn or read only after the final callback").       *)
(***************************************************************************)
ProxyFree(p) == \A t \in Sent : proxyOf[t] = p => verdict[t] # Unread

\* The turns whose final callback is still to come.
Unfinished == {t \in Sent : t > turn \/ (t = turn /\ Running)}

\* SendMessageAsync forgets the last reason before it looks at the message.
ResetReason(p) ==
  /\ sending = NoProxy /\ Len(proxyOf) < MaxTurns
  /\ ProxyFree(p)
  /\ sending' = p
  /\ lastReason' = "unknown"
  /\ raced' = raced \cup Unfinished
  /\ UNCHANGED <<proxyOf, decodeVars, pc, chunk, proxyVars, consumerVars,
                 ended, lost>>

\* The message is no JSON object: an error, and no turn.
RejectMessage ==
  /\ sending # NoProxy
  /\ sending' = NoProxy
  /\ UNCHANGED <<proxyOf, lastReason, decodeVars, pc, chunk, proxyVars,
                 consumerVars, historyVars>>

EnqueueTurn ==
  /\ sending # NoProxy
  /\ proxyOf' = Append(proxyOf, sending)
  /\ sending' = NoProxy
  /\ verdict' = Append(verdict, Unread)
  /\ ended' = Append(ended, "running")
  /\ UNCHANGED <<lastReason, decodeVars, pc, chunk, proxyVars, inbox, raced, lost>>

-----------------------------------------------------------------------------
(***************************************************************************)
(* The runtime.                                                            *)
(***************************************************************************)

\* Mutant: the budget is looked at before the stop token.
ShouldStopBudgetFirst(stopToken, decoded, step) ==
  CASE decoded >= MaxOutputTokens -> "length"
    [] decoded < MaxOutputTokens /\ stopToken -> "stop"
    [] decoded < MaxOutputTokens /\ ~stopToken /\ step >= MaxNumTokens ->
         "context_exhausted"
    [] OTHER -> "unknown"

\* ShouldStop without a benchmark: "unknown" goes on.
ShouldStop(stopToken, decoded, step) ==
  CASE stopToken -> "stop"
    [] ~stopToken /\ step >= MaxNumTokens -> "context_exhausted"
    [] ~stopToken /\ step < MaxNumTokens /\ decoded >= MaxOutputTokens -> "length"
    [] OTHER -> "unknown"

\* How the turn ended, as seen from outside the runtime.
NoteEnd(t, how) == ended' = [ended EXCEPT ![t] = how]

\* Prefill: the message takes a token, or all that is left of the context.
Prefill ==
  /\ pc = "idle" /\ turn < Len(proxyOf)
  /\ turn' = turn + 1 /\ steps' = 0
  /\ \/ /\ kvStep + 1 < MaxNumTokens
        /\ kvStep' = kvStep + 1 /\ pc' = "decode"
        /\ UNCHANGED <<ended, chunk>>
     \/ /\ kvStep' = MaxNumTokens
        /\ pc' = "end" /\ chunk' = FinalChunk("unknown")
        /\ NoteEnd(turn + 1, "full_prompt")
  /\ UNCHANGED <<senderVars, lastReason, proxyVars, consumerVars, raced, lost>>

\* One decoded token: its text is forwarded, then the loop may stop.
DecodeStep ==
  /\ pc = "decode"
  /\ kvStep' = kvStep + 1 /\ steps' = steps + 1
  /\ chunk' = TextChunk /\ pc' = "copy"
  /\ \E stopToken \in BOOLEAN :
       NoteEnd(turn, IF stopToken THEN "stop_token" ELSE "running")
  /\ UNCHANGED <<turn, senderVars, lastReason, proxyVars, consumerVars, raced, lost>>

\* The loop ends, or goes on.
CheckStop ==
  /\ pc = "check"
  /\ LET why == ShouldStop(ended[turn] = "stop_token", steps, kvStep)
     IN /\ pc' = IF why = "unknown" THEN "decode" ELSE "end"
        /\ chunk' = FinalChunk(why)
        /\ NoteEnd(turn, IF why # "unknown" /\ ended[turn] = "running"
                         THEN "cut_off" ELSE ended[turn])
  /\ UNCHANGED <<decodeVars, senderVars, lastReason, proxyVars, consumerVars,
                 raced, lost>>

\* Cancelled, or a decode error: the final chunk does not ask for a reason.
DecodeFails ==
  /\ pc = "decode"
  /\ \E how \in {"cancelled", "error"} :
       chunk' = ErrorChunk(how) /\ NoteEnd(turn, how)
  /\ pc' = "copy"
  /\ UNCHANGED <<decodeVars, senderVars, lastReason, proxyVars, consumerVars,
                 raced, lost>>

\* Mutant: a context that the prompt filled has no reason.
StoreDecodedOnly ==
  /\ pc = "end"
  /\ lastReason' = chunk.reason
  /\ pc' = "load"
  /\ UNCHANGED <<decodeVars, chunk, senderVars, proxyVars, consumerVars, historyVars>>

\* The internal callback stores the reason ...
StoreReason ==
  /\ pc = "end"
  /\ lastReason' = IF chunk.reason = "unknown" /\ kvStep >= MaxNumTokens
                   THEN "context_exhausted" ELSE chunk.reason
  /\ pc' = "load"
  /\ UNCHANGED <<decodeVars, chunk, senderVars, proxyVars, consumerVars, historyVars>>

\* ... and the user callback loads it.
LoadReason ==
  /\ pc = "load"
  /\ chunk' = FinalChunk(lastReason)
  /\ pc' = "copy"
  /\ UNCHANGED <<decodeVars, senderVars, lastReason, proxyVars, consumerVars, historyVars>>

-----------------------------------------------------------------------------
(***************************************************************************)
(* stream_proxy_forward, and the consumer.                                 *)
(***************************************************************************)
Proxy == proxyOf[turn]
HasString == ~chunk.final \/ chunk.error

\* Mutant: only the copy of the text is looked at.
CopyChecksText ==
  /\ pc = "copy"
  /\ reason' = [reason EXCEPT ![Proxy] = IF chunk.final THEN chunk.reason ELSE @]
  /\ \E fails \in BOOLEAN :
       /\ fails => HasString
       /\ failure' = [failure EXCEPT ![Proxy] = @ \/ (fails /\ ~chunk.error)]
       /\ lost' = IF fails THEN lost \cup {turn} ELSE lost
  /\ pc' = "callback"
  /\ UNCHANGED <<decodeVars, chunk, senderVars, lastReason, consumerVars, ended, raced>>

\* The reason of a final chunk is stored, the strings are copied, and a copy
\* that fails is recorded.
CopyChunk ==
  /\ pc = "copy"
  /\ reason' = [reason EXCEPT ![Proxy] = IF chunk.final THEN chunk.reason ELSE @]
  /\ \E fails \in BOOLEAN :
       /\ fails => HasString
       /\ failure' = [failure EXCEPT ![Proxy] = @ \/ fails]
       /\ lost' = IF fails THEN lost \cup {turn} ELSE lost
  /\ pc' = "callback"
  /\ UNCHANGED <<decodeVars, chunk, senderVars, lastReason, consumerVars, ended, raced>>

\* The consumer's callback posts what it was given.
PostCallback ==
  /\ pc = "callback"
  /\ inbox' = Append(inbox, [turn |-> turn, final |-> chunk.final])
  /\ pc' = IF chunk.final THEN "idle" ELSE "check"
  /\ UNCHANGED <<decodeVars, chunk, senderVars, lastReason, proxyVars, verdict, historyVars>>

\* The consumer drains a callback; at the final one it reads the proxy.
Drain ==
  /\ inbox # <<>>
  /\ inbox' = Tail(inbox)
  /\ LET t == Head(inbox).turn
         p == proxyOf[t]
     IN verdict' = IF Head(inbox).final
                   THEN [verdict EXCEPT ![t] = [reason |-> reason[p],
                                                failure |-> failure[p]]]
                   ELSE verdict
  /\ UNCHANGED <<senderVars, lastReason, decodeVars, pc, chunk, proxyVars, historyVars>>

Next ==
  \/ \E p \in Proxies : ResetReason(p)
  \/ RejectMessage \/ EnqueueTurn
  \/ Prefill \/ DecodeStep \/ CheckStop \/ DecodeFails
  \/ StoreReason \/ LoadReason
  \/ CopyChunk \/ PostCallback
  \/ Drain

Spec == Init /\ [][Next]_vars

-----------------------------------------------------------------------------
(***************************************************************************)
(* Properties.                                                             *)
(***************************************************************************)
Reasons == {"unknown", "stop", "length", "context_exhausted", "cancelled", "error"}

\* What a consumer reads at a turn's final callback is why that turn ended,
\* or unknown: never the reason of an earlier or a later turn, although all
\* turns share one reason in the conversation, a proxy may be used again and
\* messages are sent while turns run.
ReasonIsTrue ==
  \A t \in Sent : verdict[t] # Unread =>
    CASE verdict[t].reason = "stop" -> ended[t] = "stop_token"
      [] verdict[t].reason = "length" -> ended[t] = "cut_off"
      [] verdict[t].reason = "context_exhausted" -> ended[t] \in {"cut_off", "full_prompt"}
      [] verdict[t].reason \in {"cancelled", "error"} -> ended[t] = verdict[t].reason
      [] OTHER -> verdict[t].reason = "unknown"

\* A turn reports unknown only if another message was sent, accepted or not,
\* before its final callback ("If another message is sent on the same
\* conversation before a turn's final callback, that turn may report 0").
UnknownOnlyWhenRaced ==
  \A t \in Sent : verdict[t].reason = "unknown" => t \in raced

\* A consumer that reads no allocation failure after draining a turn has all
\* texts and errors of it (stream_proxy_has_allocation_failure).
NothingIsLostSilently ==
  \A t \in Sent : verdict[t] # Unread /\ ~verdict[t].failure => t \notin lost

=============================================================================
