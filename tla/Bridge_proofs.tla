---------------------------- MODULE Bridge_proofs ----------------------------
(***************************************************************************)
(* Proofs about the native bridge outside the streaming ASR sessions:      *)
(* StreamProxy, for any number of turns and proxies and any context and    *)
(* budget; AndroidGpuSafety, for any files, devices and page counts;       *)
(* AsrEngine, for any numbers in a config.                                 *)
(*                                                                         *)
(* StreamProxy follows a reason on its way: from the stop of the decode    *)
(* (chunk), through the conversation (lastReason), where a message sent    *)
(* meanwhile may wipe it and is then noted in raced, back into the chunk,  *)
(* into the proxy, and from there to the consumer.  A proxy keeps the      *)
(* reason until the consumer has drained the final callback, because only  *)
(* then another turn is sent with it.                                      *)
(*                                                                         *)
(* AndroidGpuSafety: as long as the file keeps its time, what was hashed   *)
(* of it is what is in it.  A verdict is therefore about the bytes behind  *)
(* the descriptor, and the descriptor is what the engine gets.             *)
(*                                                                         *)
(* AsrEngine: a window rounded to the nearest sample is the one that was   *)
(* checked or a sample longer, and what an overlap leaves of a window it   *)
(* leaves of a longer one.                                                 *)
(***************************************************************************)
EXTENDS StreamProxy, AndroidGpuSafety, AsrEngine, SequenceTheorems, TLAPS

-----------------------------------------------------------------------------
(***************************************************************************)
(* StreamProxy.                                                            *)
(***************************************************************************)
Ends == {"running", "stop_token", "cut_off", "full_prompt", "cancelled", "error"}
Verdicts == [reason : Reasons \cup {"unread"}, failure : BOOLEAN]
Positions == {"idle", "decode", "check", "end", "load", "copy", "callback"}

Types ==
  /\ sending \in Proxies \cup {NoProxy}
  /\ proxyOf \in Seq(Proxies)
  /\ lastReason \in Reasons
  /\ turn \in Nat /\ turn <= Len(proxyOf)
  /\ pc \in Positions /\ (pc # "idle" => turn > 0)
  /\ kvStep \in Nat /\ steps \in Nat
  /\ chunk \in [final : BOOLEAN, error : BOOLEAN, reason : Reasons]
  /\ reason \in [Proxies -> Reasons]
  /\ failure \in [Proxies -> BOOLEAN]
  /\ inbox \in Seq([turn : Nat, final : BOOLEAN])
  /\ verdict \in Seq(Verdicts) /\ Len(verdict) = Len(proxyOf)
  /\ ended \in Seq(Ends) /\ Len(ended) = Len(proxyOf)

\* r is a true reason for the end of turn t, or unknown after a race.
Honest(t, r) ==
  /\ r = "stop" => ended[t] = "stop_token"
  /\ r = "length" => ended[t] = "cut_off"
  /\ r = "context_exhausted" => ended[t] \in {"cut_off", "full_prompt"}
  /\ r \in {"cancelled", "error"} => ended[t] = r
  /\ r = "unknown" => t \in raced

Finished(t) == t < turn \/ (t = turn /\ pc = "idle")

\* Where the reason of the running turn is.
ReasonInHand ==
  /\ pc = "check" => ended[turn] \in {"stop_token", "running"}
  /\ pc = "end" =>
       /\ chunk.final
       /\ chunk.reason = "unknown" =>
            kvStep >= MaxNumTokens /\ ended[turn] = "full_prompt"
       /\ chunk.reason # "unknown" => Honest(turn, chunk.reason)
  /\ pc = "load" => Honest(turn, lastReason)
  /\ pc \in {"copy", "callback"} =>
       IF chunk.final THEN Honest(turn, chunk.reason)
       ELSE ended[turn] \in {"stop_token", "running"}
  /\ pc = "callback" /\ chunk.final => reason[proxyOf[turn]] = chunk.reason

\* A final callback on its way to the consumer: its proxy still has its reason.
ReasonInTheMail ==
  /\ \A k \in DOMAIN inbox :
       /\ inbox[k].turn \in 1 .. turn
       /\ inbox[k].final =>
            /\ Finished(inbox[k].turn)
            /\ verdict[inbox[k].turn] = Unread
            /\ Honest(inbox[k].turn, reason[proxyOf[inbox[k].turn]])
  /\ \A j, k \in DOMAIN inbox :
       inbox[j].final /\ inbox[k].final /\ inbox[j].turn = inbox[k].turn => j = k

\* What the consumer has read.
ReasonRead ==
  \A t \in Sent : verdict[t] # Unread =>
    /\ Finished(t)
    /\ verdict[t].reason \in Reasons
    /\ Honest(t, verdict[t].reason)
    /\ verdict[t].failure \/ t \notin lost

\* A proxy is given to another turn only after it was read.
ProxiesAreReadFirst ==
  /\ \A t, u \in Sent : t < u /\ proxyOf[t] = proxyOf[u] => verdict[t] # Unread
  /\ sending # NoProxy => ProxyFree(sending)

\* A lost copy has set the flag of its proxy, which nothing clears.
LossIsFlagged ==
  \A t \in lost : t \in 1 .. turn /\ failure[proxyOf[t]]

StreamInv ==
  /\ Types /\ ReasonInHand /\ ReasonInTheMail /\ ReasonRead
  /\ ProxiesAreReadFirst /\ LossIsFlagged

\* Nothing has happened yet.
LEMMA InitStreamInv == Init => StreamInv
  BY StreamConfig, EmptySeq
  DEF Init, StreamInv, Types, ReasonInHand, ReasonInTheMail, ReasonRead,
      ProxiesAreReadFirst, LossIsFlagged, Sent, NoProxy, TextChunk, Reasons,
      Positions

\* A message on its way wipes the reason and marks the turns it races with.
LEMMA ResetKeeps ==
  ASSUME StreamInv, NEW p \in Proxies, ResetReason(p)
  PROVE  StreamInv'
<1> USE DEF StreamInv, ResetReason, decodeVars, proxyVars, consumerVars
<1>1. Types'
  BY DEF Types, Reasons
<1>2. \A t, r : Honest(t, r) => Honest(t, r)'
  BY DEF Honest
<1>3. ReasonInHand'
  BY <1>2 DEF ReasonInHand, Honest, Unfinished, Running, Types, Sent
<1>4. ReasonInTheMail'
  BY <1>2 DEF ReasonInTheMail, Finished
<1>5. ReasonRead'
  BY <1>2 DEF ReasonRead, Finished, Sent
<1>6. ProxiesAreReadFirst'
  BY DEF ProxiesAreReadFirst, ProxyFree, Sent
<1>7. LossIsFlagged'
  BY DEF LossIsFlagged
<1> QED
  BY <1>1, <1>3, <1>4, <1>5, <1>6, <1>7

\* A rejected message leaves the turns alone.
LEMMA RejectKeeps ==
  ASSUME StreamInv, RejectMessage
  PROVE  StreamInv'
  BY DEF StreamInv, RejectMessage, decodeVars, proxyVars, consumerVars,
     historyVars, Types, ReasonInHand, ReasonInTheMail, ReasonRead, Honest,
     Finished, ProxiesAreReadFirst, LossIsFlagged, Sent, ProxyFree

\* A turn that is sent comes after all others and is unread.
LEMMA EnqueueKeeps ==
  ASSUME StreamInv, EnqueueTurn
  PROVE  StreamInv'
<1> USE DEF StreamInv, EnqueueTurn, decodeVars, proxyVars
<1> DEFINE n == Len(proxyOf)
<1>1. sending \in Proxies /\ n \in Nat /\ Unread \in Verdicts
  BY DEF Types, Unread, Verdicts, Reasons
<1>2. /\ proxyOf' \in Seq(Proxies) /\ Len(proxyOf') = n + 1
      /\ proxyOf'[n + 1] = sending
      /\ \A t \in 1 .. n : proxyOf'[t] = proxyOf[t]
  BY <1>1, AppendProperties DEF Types
<1>3. /\ verdict' \in Seq(Verdicts) /\ Len(verdict') = n + 1
      /\ verdict'[n + 1] = Unread
      /\ \A t \in 1 .. n : verdict'[t] = verdict[t]
  BY <1>1, AppendProperties DEF Types
<1>4. /\ ended' \in Seq(Ends) /\ Len(ended') = n + 1
      /\ \A t \in 1 .. n : ended'[t] = ended[t]
  BY <1>1, AppendProperties DEF Types, Ends
<1>5. Sent = 1 .. n /\ Sent' = 1 .. n + 1
  BY <1>1, <1>2 DEF Sent, Types
<1>6. turn \in 0 .. n /\ UNCHANGED <<turn, pc>>
  BY DEF Types
<1>7. \A t \in 1 .. n : \A r : Honest(t, r) => Honest(t, r)'
  BY <1>4 DEF Honest
<1>8. Types'
  BY <1>1, <1>2, <1>3, <1>4 DEF Types
<1>9. ReasonInHand'
  <2>1. CASE pc = "idle"
    BY <2>1 DEF ReasonInHand
  <2>2. CASE pc # "idle"
    <3>1. turn \in 1 .. n
      BY <2>2, <1>6 DEF Types
    <3> QED
      BY <3>1, <1>2, <1>4, <1>7 DEF ReasonInHand
  <2> QED
    BY <2>1, <2>2
<1>10. ReasonInTheMail'
  <2>1. \A k \in DOMAIN inbox : inbox[k].turn \in 1 .. n
    BY <1>6 DEF ReasonInTheMail
  <2> QED
    BY <2>1, <1>2, <1>3, <1>7 DEF ReasonInTheMail, Finished
<1>11. ReasonRead'
  BY <1>3, <1>5, <1>7 DEF ReasonRead, Finished
<1>12. ProxiesAreReadFirst'
  BY <1>1, <1>2, <1>3, <1>5 DEF ProxiesAreReadFirst, ProxyFree
<1>13. LossIsFlagged'
  BY <1>2, <1>6 DEF LossIsFlagged
<1> QED
  BY <1>8, <1>9, <1>10, <1>11, <1>12, <1>13

\* The steps of a decode touch neither the mail nor what was read, only how
\* the turn that runs ends.
LEMMA DecodeKeepsTheRest ==
  ASSUME StreamInv, Types', UNCHANGED <<proxyOf, sending, inbox, verdict, raced>>,
         turn' = turn \/ (pc = "idle" /\ turn' = turn + 1),
         pc # "idle" \/ turn' # turn,
         \A t \in 1 .. Len(proxyOf) : t # turn' => ended'[t] = ended[t],
         pc' # "idle",
         \A p \in Proxies : p # proxyOf[turn'] => reason'[p] = reason[p],
         turn' # turn => reason' = reason,
         lost' \subseteq lost \cup {turn'},
         turn' \in lost' => failure'[proxyOf[turn']],
         \A p \in Proxies : failure[p] => failure'[p]
  PROVE  ReasonInTheMail' /\ ReasonRead' /\ ProxiesAreReadFirst' /\ LossIsFlagged'
<1> USE DEF StreamInv
<1>1. turn' \in 1 .. Len(proxyOf)
  BY DEF Types
<1>2. \A t \in Sent : Finished(t) => t # turn' /\ Finished(t)'
  BY <1>1 DEF Finished, Types, Sent
<1>3. \A t \in Sent : \A r : Finished(t) /\ Honest(t, r) => Honest(t, r)'
  BY <1>2 DEF Honest, Sent, Types
<1>4. \A t \in Sent : Finished(t) /\ verdict[t] = Unread =>
        reason'[proxyOf[t]] = reason[proxyOf[t]]
  <2> SUFFICES ASSUME NEW t \in Sent, Finished(t), verdict[t] = Unread
               PROVE  reason'[proxyOf[t]] = reason[proxyOf[t]]
    OBVIOUS
  <2>1. proxyOf[t] \in Proxies
    BY DEF Types, Sent
  <2>2. t < turn'
    BY <1>1, <1>2 DEF Finished, Types, Sent
  <2>3. proxyOf[t] # proxyOf[turn']
    BY <1>1, <2>2 DEF ProxiesAreReadFirst, Sent, Types
  <2> QED
    BY <2>1, <2>3
<1>5. ReasonInTheMail'
  <2>1. \A k \in DOMAIN inbox : inbox[k].turn \in Sent
    BY DEF ReasonInTheMail, Types, Sent
  <2>2. \A k \in DOMAIN inbox : inbox[k].turn \in 1 .. turn'
    BY DEF ReasonInTheMail, Types
  <2> QED
    BY <2>1, <2>2, <1>2, <1>3, <1>4 DEF ReasonInTheMail
<1>6. ReasonRead'
  <2>1. \A t \in Sent : Finished(t) => t \notin lost' \/ t \in lost
    BY <1>2
  <2> QED
    BY <2>1, <1>2, <1>3 DEF ReasonRead, Sent
<1>7. ProxiesAreReadFirst'
  BY DEF ProxiesAreReadFirst, ProxyFree, Sent
<1>8. LossIsFlagged'
  <2> SUFFICES ASSUME NEW t \in lost'
               PROVE  t \in 1 .. turn' /\ failure'[proxyOf[t]]
    BY DEF LossIsFlagged
  <2>1. CASE t = turn'
    BY <2>1, <1>1
  <2>2. CASE t \in lost
    <3>1. t \in 1 .. turn /\ failure[proxyOf[t]]
      BY <2>2 DEF LossIsFlagged
    <3>2. proxyOf[t] \in Proxies /\ t \in 1 .. turn'
      BY <3>1 DEF Types
    <3> QED
      BY <3>1, <3>2
  <2> QED
    BY <2>1, <2>2
<1> QED
  BY <1>5, <1>6, <1>7, <1>8

\* A turn begins.
LEMMA PrefillKeeps ==
  ASSUME StreamInv, Prefill
  PROVE  StreamInv'
<1> USE DEF StreamInv, Prefill, NoteEnd, senderVars, proxyVars, consumerVars
<1>1. Types'
  <2>1. /\ turn + 1 \in 1 .. Len(ended)
        /\ ended \in Seq(Ends)
        /\ "full_prompt" \in Ends
    BY DEF Types, Ends
  <2>2. ended' \in Seq(Ends) /\ Len(ended') = Len(ended)
    BY <2>1
  <2>3. kvStep' \in Nat /\ pc' \in Positions \ {"idle"}
    BY StreamConfig DEF Types, Positions
  <2>4. chunk' \in [final : BOOLEAN, error : BOOLEAN, reason : Reasons]
    <3>1. "unknown" \in Reasons
      BY DEF Reasons
    <3>2. FinalChunk("unknown") \in [final : BOOLEAN, error : BOOLEAN, reason : Reasons]
      BY <3>1 DEF FinalChunk
    <3>3. chunk' = chunk \/ chunk' = FinalChunk("unknown")
      OBVIOUS
    <3> QED
      BY <3>2, <3>3 DEF Types
  <2> QED
    BY <2>1, <2>2, <2>3, <2>4 DEF Types
<1>2. ReasonInHand'
  BY StreamConfig DEF ReasonInHand, Types, FinalChunk
<1>3. ReasonInTheMail' /\ ReasonRead' /\ ProxiesAreReadFirst' /\ LossIsFlagged'
  <2>1. turn + 1 \notin lost
    BY DEF LossIsFlagged, Types
  <2> QED
    BY <1>1, <2>1, DecodeKeepsTheRest DEF Types
<1> QED
  BY <1>1, <1>2, <1>3

\* A step of the running turn that makes no callback.
LEMMA RunningKeepsTheRest ==
  ASSUME StreamInv, Types', pc # "idle", pc' # "idle", turn' = turn,
         UNCHANGED <<senderVars, proxyVars, consumerVars, raced, lost>>,
         \A t \in 1 .. Len(proxyOf) : t # turn => ended'[t] = ended[t]
  PROVE  ReasonInTheMail' /\ ReasonRead' /\ ProxiesAreReadFirst' /\ LossIsFlagged'
<1>1. turn \in lost => failure[proxyOf[turn]]
  BY DEF StreamInv, LossIsFlagged
<1> QED
  BY <1>1, DecodeKeepsTheRest DEF senderVars, proxyVars, consumerVars

\* A token, the stop check, a failure.
LEMMA DecodeKeeps ==
  ASSUME StreamInv, DecodeStep \/ CheckStop \/ DecodeFails
  PROVE  StreamInv'
<1>1. /\ pc # "idle" /\ pc' # "idle" /\ turn' = turn
      /\ UNCHANGED <<senderVars, proxyVars, consumerVars, raced, lost>>
      /\ \E how \in Ends : ended' = [ended EXCEPT ![turn] = how]
  <2>1. CASE DecodeStep
    BY <2>1 DEF DecodeStep, NoteEnd, Ends
  <2>2. CASE CheckStop
    <3>1. ended[turn] \in Ends
      BY <2>2 DEF StreamInv, Types, CheckStop
    <3> QED
      BY <2>2, <3>1 DEF CheckStop, NoteEnd, Ends, decodeVars
  <2>3. CASE DecodeFails
    BY <2>3 DEF DecodeFails, NoteEnd, Ends, decodeVars
  <2> QED
    BY <2>1, <2>2, <2>3
<1>2. /\ ended' \in Seq(Ends) /\ Len(ended') = Len(ended)
      /\ \A t \in 1 .. Len(proxyOf) : t # turn => ended'[t] = ended[t]
  BY <1>1 DEF StreamInv, Types
<1>3. turn \in 1 .. Len(ended)
  BY <1>1 DEF StreamInv, Types
<1>4. Types' /\ ReasonInHand'
  <2>1. CASE DecodeStep
    BY <2>1, <1>1, <1>2, <1>3
    DEF DecodeStep, NoteEnd, StreamInv, Types, Positions, TextChunk, Reasons,
        ReasonInHand, senderVars, proxyVars, consumerVars
  <2>2. CASE CheckStop
    <3> DEFINE why == ShouldStop(ended[turn] = "stop_token", steps, kvStep)
    <3>1. why \in Reasons /\ why \notin {"cancelled", "error"}
      BY DEF ShouldStop, Reasons
    <3>2. Types'
      BY <2>2, <3>1, <1>1, <1>2
      DEF CheckStop, StreamInv, Types, Positions, FinalChunk, senderVars,
          proxyVars, consumerVars, decodeVars
    <3>3. ended[turn] \in {"stop_token", "running"}
      BY <2>2 DEF CheckStop, StreamInv, ReasonInHand
    <3>4. why # "unknown" =>
            IF why = "stop" THEN ended'[turn] = "stop_token"
            ELSE ended'[turn] = "cut_off"
      BY <2>2, <3>3, <1>3 DEF CheckStop, NoteEnd, ShouldStop, StreamInv, Types
    <3>5. ReasonInHand'
      BY <2>2, <3>1, <3>4, <1>1 DEF CheckStop, ReasonInHand, Honest, FinalChunk, Reasons
    <3> QED
      BY <3>2, <3>5
  <2>3. CASE DecodeFails
    BY <2>3, <1>1, <1>2, <1>3
    DEF DecodeFails, NoteEnd, StreamInv, Types, Positions, ErrorChunk, Reasons,
        ReasonInHand, Honest, senderVars, proxyVars, consumerVars, decodeVars
  <2> QED
    BY <2>1, <2>2, <2>3
<1>5. ReasonInTheMail' /\ ReasonRead' /\ ProxiesAreReadFirst' /\ LossIsFlagged'
  BY <1>1, <1>2, <1>4, RunningKeepsTheRest
<1> QED
  BY <1>4, <1>5 DEF StreamInv

\* The reason passes through the conversation.
LEMMA StoreAndLoadKeep ==
  ASSUME StreamInv, StoreReason \/ LoadReason
  PROVE  StreamInv'
<1>1. /\ pc # "idle" /\ pc' # "idle" /\ turn' = turn
      /\ UNCHANGED <<senderVars, proxyVars, consumerVars, historyVars>>
  BY DEF StoreReason, LoadReason, decodeVars
<1>2. Types'
  <2>1. chunk.reason \in Reasons /\ lastReason \in Reasons
    BY DEF StreamInv, Types
  <2>2. /\ lastReason' \in Reasons /\ pc' \in Positions
        /\ UNCHANGED decodeVars
    BY <2>1 DEF StoreReason, LoadReason, Reasons, Positions
  <2>3. chunk' \in [final : BOOLEAN, error : BOOLEAN, reason : Reasons]
    <3>1. FinalChunk(lastReason) \in [final : BOOLEAN, error : BOOLEAN, reason : Reasons]
      BY <2>1 DEF FinalChunk
    <3>2. chunk' = chunk \/ chunk' = FinalChunk(lastReason)
      BY DEF StoreReason, LoadReason
    <3> QED
      BY <3>1, <3>2 DEF StreamInv, Types
  <2> QED
    BY <1>1, <2>2, <2>3 DEF StreamInv, Types,
       senderVars, proxyVars, consumerVars, historyVars, decodeVars
<1>3. ReasonInHand'
  BY <1>1 DEF StoreReason, LoadReason, StreamInv, ReasonInHand, Honest, FinalChunk,
     senderVars, proxyVars, consumerVars, historyVars, decodeVars
<1>4. ReasonInTheMail' /\ ReasonRead' /\ ProxiesAreReadFirst' /\ LossIsFlagged'
  BY <1>1, <1>2, RunningKeepsTheRest DEF historyVars
<1> QED
  BY <1>2, <1>3, <1>4 DEF StreamInv

\* The proxy takes the reason and copies the strings.
LEMMA CopyKeeps ==
  ASSUME StreamInv, CopyChunk
  PROVE  StreamInv'
<1> USE DEF StreamInv, CopyChunk, Proxy
<1>1. /\ pc # "idle" /\ pc' # "idle" /\ turn' = turn
      /\ UNCHANGED <<proxyOf, sending, inbox, verdict, raced, ended, chunk>>
  BY DEF decodeVars, senderVars, consumerVars
<1>2. turn \in 1 .. Len(proxyOf) /\ proxyOf[turn] \in Proxies
  BY <1>1 DEF Types
<1>3. /\ reason' \in [Proxies -> Reasons]
      /\ chunk.final => reason'[proxyOf[turn]] = chunk.reason
      /\ \A p \in Proxies : p # proxyOf[turn] => reason'[p] = reason[p]
  BY <1>2 DEF Types
<1>4. PICK fails \in BOOLEAN :
        /\ failure' = [failure EXCEPT ![proxyOf[turn]] = @ \/ fails]
        /\ lost' = IF fails THEN lost \cup {turn} ELSE lost
  OBVIOUS
<1>5. /\ failure' \in [Proxies -> BOOLEAN]
      /\ \A p \in Proxies : failure[p] => failure'[p]
      /\ \A p \in Proxies : p # proxyOf[turn] => failure'[p] = failure[p]
      /\ fails => failure'[proxyOf[turn]]
  BY <1>2, <1>4 DEF Types
<1>6. turn \in lost' => failure'[proxyOf[turn]]
  <2>1. CASE fails
    BY <2>1, <1>5
  <2>2. CASE ~fails
    BY <2>2, <1>2, <1>4, <1>5 DEF LossIsFlagged
  <2> QED
    BY <2>1, <2>2
<1>7. Types'
  BY <1>1, <1>3, <1>5 DEF Types, Positions, decodeVars
<1>8. ReasonInHand'
  BY <1>1, <1>3 DEF ReasonInHand, Honest
<1>9. ReasonInTheMail' /\ ReasonRead' /\ ProxiesAreReadFirst' /\ LossIsFlagged'
  BY <1>1, <1>3, <1>4, <1>5, <1>6, <1>7, DecodeKeepsTheRest
<1> QED
  BY <1>7, <1>8, <1>9

\* The callback is posted; after the final one the turn is finished.
LEMMA PostKeeps ==
  ASSUME StreamInv, PostCallback
  PROVE  StreamInv'
<1> USE DEF StreamInv, PostCallback, decodeVars, senderVars, proxyVars, historyVars
<1> DEFINE n == Len(inbox)
           letter == [turn |-> turn, final |-> chunk.final]
<1>1. letter \in [turn : Nat, final : BOOLEAN]
  BY DEF Types
<1>2. /\ inbox' \in Seq([turn : Nat, final : BOOLEAN])
      /\ n \in Nat /\ Len(inbox') = n + 1
      /\ inbox'[n + 1] = letter
      /\ \A k \in 1 .. n : inbox'[k] = inbox[k]
      /\ DOMAIN inbox = 1 .. n /\ DOMAIN inbox' = 1 .. n + 1
  BY <1>1, AppendProperties, LenProperties DEF Types
<1>3. Types'
  BY <1>2 DEF Types, Positions
<1>4. turn \in 1 .. Len(proxyOf) /\ turn \in Sent
  BY DEF Types, Sent
<1>5. \A t, r : Honest(t, r)' <=> Honest(t, r)
  BY DEF Honest
<1>6. \A t \in Sent : Finished(t) => Finished(t)' /\ t # turn
  BY <1>4 DEF Finished, Types, Sent
<1>7. ReasonInHand'
  BY DEF ReasonInHand
<1>8. ReasonInTheMail'
  <2>1. ASSUME NEW k \in 1 .. n, NEW u, u = inbox[k].turn
        PROVE  /\ u \in 1 .. turn
               /\ inbox[k].final =>
                    /\ Finished(u)' /\ u # turn
                    /\ verdict[u] = Unread
                    /\ Honest(u, reason[proxyOf[u]])
    <3>1. /\ u \in 1 .. turn
          /\ inbox[k].final =>
               /\ Finished(u) /\ verdict[u] = Unread
               /\ Honest(u, reason[proxyOf[u]])
      BY <2>1, <1>2 DEF ReasonInTheMail
    <3>2. u \in Sent
      BY <3>1 DEF Types, Sent
    <3> QED
      BY <3>1, <3>2, <1>6
  <2>2. chunk.final =>
          /\ Finished(turn)'
          /\ verdict[turn] = Unread
          /\ Honest(turn, reason[proxyOf[turn]])
    <3> SUFFICES ASSUME chunk.final
                 PROVE  /\ Finished(turn)'
                        /\ verdict[turn] = Unread
                        /\ Honest(turn, reason[proxyOf[turn]])
      OBVIOUS
    <3>1. ~Finished(turn)
      BY <1>4 DEF Finished, Types
    <3>2. verdict[turn] = Unread
      BY <3>1, <1>4 DEF ReasonRead
    <3>3. Honest(turn, reason[proxyOf[turn]])
      BY DEF ReasonInHand
    <3> QED
      BY <3>2, <3>3 DEF Finished
  <2>3. turn \in 1 .. turn /\ turn' = turn
    BY <1>4 DEF Types
  <2>4. ASSUME NEW k \in 1 .. n + 1, NEW u, u = inbox'[k].turn
        PROVE  /\ u \in 1 .. turn
               /\ inbox'[k].final =>
                    /\ Finished(u)'
                    /\ verdict'[u] = Unread
                    /\ Honest(u, reason[proxyOf[u]])'
    <3>1. CASE k \in 1 .. n
      <4>1. u = inbox[k].turn /\ inbox'[k].final = inbox[k].final
        BY <3>1, <2>4, <1>2
      <4> QED
        BY <3>1, <4>1, <2>1, <1>5
    <3>2. CASE k = n + 1
      <4>1. u = turn /\ inbox'[k].final = chunk.final
        BY <3>2, <2>4, <1>2
      <4>2. chunk.final => Finished(u)'
        BY <4>1, <2>2, <2>3
      <4> QED
        BY <4>1, <4>2, <2>2, <2>3, <1>5
    <3> QED
      BY <3>1, <3>2, <1>2
  <2>5. \A j, k \in 1 .. n + 1 :
          inbox'[j].final /\ inbox'[k].final /\ inbox'[j].turn = inbox'[k].turn
            => j = k
    <3>1. \A j \in 1 .. n : inbox[j].final => inbox[j].turn # turn
      BY <2>1
    <3>2. inbox'[n + 1].turn = turn
      BY <1>2
    <3>3. \A j, k \in 1 .. n :
            inbox[j].final /\ inbox[k].final /\ inbox[j].turn = inbox[k].turn => j = k
      BY <1>2 DEF ReasonInTheMail
    <3>4. \A j \in 1 .. n + 1 :
            j = n + 1 \/ (j \in 1 .. n /\ inbox'[j] = inbox[j])
      BY <1>2
    <3> QED
      BY <3>1, <3>2, <3>3, <3>4
  <2>6. DOMAIN inbox' = 1 .. n + 1
    BY <1>2
  <2> QED
    BY <2>3, <2>4, <2>5, <2>6 DEF ReasonInTheMail
<1>9. ReasonRead'
  BY <1>5, <1>6 DEF ReasonRead, Sent
<1>10. ProxiesAreReadFirst' /\ LossIsFlagged'
  BY DEF ProxiesAreReadFirst, ProxyFree, Sent, LossIsFlagged
<1> QED
  BY <1>3, <1>7, <1>8, <1>9, <1>10

\* The consumer drains a callback.
LEMMA DrainKeeps ==
  ASSUME StreamInv, Drain
  PROVE  StreamInv'
<1> USE DEF StreamInv, Drain, decodeVars, senderVars, proxyVars, historyVars
<1> DEFINE n == Len(inbox)
           t == Head(inbox).turn
           read == [reason |-> reason[proxyOf[t]], failure |-> failure[proxyOf[t]]]
<1>1. /\ n \in Nat \ {0} /\ Head(inbox) = inbox[1] /\ 1 \in DOMAIN inbox
      /\ inbox' \in Seq([turn : Nat, final : BOOLEAN]) /\ Len(inbox') = n - 1
      /\ \A k \in 1 .. n - 1 : inbox'[k] = inbox[k + 1]
      /\ DOMAIN inbox = 1 .. n /\ DOMAIN inbox' = 1 .. n - 1
  BY HeadTailProperties, LenProperties, EmptySeq DEF Types
<1>2. t \in 1 .. turn /\ t \in Sent /\ t \in 1 .. Len(proxyOf)
  BY <1>1 DEF ReasonInTheMail, Types, Sent
<1>3. proxyOf[t] \in Proxies
  BY <1>2 DEF Types
<1>4. read \in Verdicts /\ read # Unread
  BY <1>3 DEF Types, Verdicts, Unread, Reasons
<1>5. /\ verdict' \in Seq(Verdicts) /\ Len(verdict') = Len(verdict)
      /\ \A u \in Sent : u # t => verdict'[u] = verdict[u]
      /\ verdict'[t] = IF Head(inbox).final THEN read ELSE verdict[t]
  BY <1>2, <1>4 DEF Types, Sent
<1>6. \A u \in Sent : verdict[u] # Unread => verdict'[u] # Unread
  BY <1>4, <1>5
<1>7. \A u, r : (Honest(u, r)' <=> Honest(u, r)) /\ (Finished(u)' <=> Finished(u))
  BY DEF Honest, Finished
<1>8. Types'
  BY <1>1, <1>5 DEF Types
<1>9. ReasonInHand'
  BY <1>7 DEF ReasonInHand
<1>10. ReasonInTheMail'
  <2>1. ASSUME NEW k \in 1 .. n - 1
        PROVE  /\ inbox'[k].turn \in 1 .. turn /\ inbox'[k].turn \in Sent
               /\ inbox'[k].final =>
                    /\ Finished(inbox'[k].turn)
                    /\ verdict'[inbox'[k].turn] = Unread
                    /\ Honest(inbox'[k].turn, reason[proxyOf[inbox'[k].turn]])
    <3>1. k + 1 \in 1 .. n /\ k + 1 # 1
      BY <1>1
    <3>2. inbox[k + 1].turn \in 1 .. turn /\ inbox[k + 1].turn \in Sent
      BY <3>1, <1>1 DEF ReasonInTheMail, Types, Sent
    <3>3. inbox[k + 1].final /\ Head(inbox).final => inbox[k + 1].turn # t
      BY <3>1, <1>1 DEF ReasonInTheMail
    <3>4. inbox[k + 1].final => verdict'[inbox[k + 1].turn] = verdict[inbox[k + 1].turn]
      BY <3>2, <3>3, <1>5
    <3> QED
      BY <3>1, <3>2, <3>4, <1>1 DEF ReasonInTheMail
  <2>2. \A j, k \in 1 .. n - 1 :
          inbox'[j].final /\ inbox'[k].final /\ inbox'[j].turn = inbox'[k].turn
            => j = k
    <3> SUFFICES ASSUME NEW j \in 1 .. n - 1, NEW k \in 1 .. n - 1,
                        inbox'[j].final, inbox'[k].final,
                        inbox'[j].turn = inbox'[k].turn
                 PROVE  j = k
      OBVIOUS
    <3>1. /\ j + 1 \in DOMAIN inbox /\ k + 1 \in DOMAIN inbox
          /\ inbox'[j] = inbox[j + 1] /\ inbox'[k] = inbox[k + 1]
      BY <1>1
    <3>2. j + 1 = k + 1
      BY <3>1 DEF ReasonInTheMail
    <3> QED
      BY <3>2
  <2> QED
    BY <2>1, <2>2, <1>1, <1>7 DEF ReasonInTheMail
<1>11. ReasonRead'
  <2>1. Head(inbox).final =>
          /\ Finished(t) /\ Honest(t, read.reason) /\ read.reason \in Reasons
          /\ read.failure \/ t \notin lost
    BY <1>1, <1>2, <1>3 DEF ReasonInTheMail, LossIsFlagged, Types
  <2> QED
    BY <2>1, <1>5, <1>7 DEF ReasonRead, Sent
<1>12. ProxiesAreReadFirst' /\ LossIsFlagged'
  BY <1>6 DEF ProxiesAreReadFirst, ProxyFree, Sent, LossIsFlagged
<1> QED
  BY <1>8, <1>9, <1>10, <1>11, <1>12

\* The invariant is inductive.
LEMMA StepStreamInv == StreamInv /\ [Next]_vars => StreamInv'
<1>1. CASE UNCHANGED vars
  BY <1>1 DEF vars, senderVars, decodeVars, proxyVars, consumerVars, historyVars,
     StreamInv, Types, ReasonInHand, ReasonInTheMail, ReasonRead, Honest, Finished,
     ProxiesAreReadFirst, LossIsFlagged, Sent, ProxyFree
<1> QED
  BY <1>1, ResetKeeps, RejectKeeps, EnqueueKeeps, PrefillKeeps, DecodeKeeps,
     StoreAndLoadKeep, CopyKeeps, PostKeeps, DrainKeeps
  DEF Next

\* The invariant holds throughout.
THEOREM StreamInvHolds == Spec => []StreamInv
  BY InitStreamInv, StepStreamInv, PTL DEF Spec

\* A turn's final callback carries that turn's reason or unknown, for any
\* number of turns, proxies and interleavings (stream_proxy_get_finish_reason).
THEOREM FinishReasonsAreTrue == Spec => []ReasonIsTrue
<1>1. StreamInv => ReasonIsTrue
  <2> SUFFICES ASSUME StreamInv, NEW t \in Sent, verdict[t] # Unread
               PROVE  CASE verdict[t].reason = "stop" -> ended[t] = "stop_token"
                        [] verdict[t].reason = "length" -> ended[t] = "cut_off"
                        [] verdict[t].reason = "context_exhausted" ->
                             ended[t] \in {"cut_off", "full_prompt"}
                        [] verdict[t].reason \in {"cancelled", "error"} ->
                             ended[t] = verdict[t].reason
                        [] OTHER -> verdict[t].reason = "unknown"
    BY DEF ReasonIsTrue
  <2>1. verdict[t].reason \in Reasons /\ Honest(t, verdict[t].reason)
    BY DEF StreamInv, ReasonRead
  <2> QED
    BY <2>1 DEF Honest, Reasons
<1> QED
  BY <1>1, StreamInvHolds, PTL

\* Unknown is reported only after a race with another message.
THEOREM UnknownMeansRaced == Spec => []UnknownOnlyWhenRaced
<1>1. StreamInv => UnknownOnlyWhenRaced
  BY DEF StreamInv, ReasonRead, UnknownOnlyWhenRaced, Honest, Unread
<1> QED
  BY <1>1, StreamInvHolds, PTL

\* A consumer that reads no allocation failure has lost nothing of the turn.
THEOREM LossIsNeverSilent == Spec => []NothingIsLostSilently
<1>1. StreamInv => NothingIsLostSilently
  BY DEF StreamInv, ReasonRead, NothingIsLostSilently
<1> QED
  BY <1>1, StreamInvHolds, PTL

-----------------------------------------------------------------------------
(***************************************************************************)
(* AndroidGpuSafety.                                                       *)
(***************************************************************************)
SafetyTypeOK ==
  /\ disk \in [Files -> File]
  /\ named \in Files /\ pinned \in Files
  /\ gpus \in Seq(Gpu)
  /\ before \in File /\ looked \in File
  /\ seen \in Seq(BOOLEAN) /\ Len(seen) <= NumPages
  /\ identity \in {"other", "qwen3", "unreadable"}

Undisturbed == disk[pinned].stamp = before.stamp

\* What was hashed is what is there, unless the file was written since.
SeenIsThere ==
  /\ at \in {"start", "stat"} => seen = <<>>
  /\ at \in {"hash", "decide", "load"} /\ backend = "GPU" =>
       before.stamp <= disk[pinned].stamp
  /\ at = "hash" => before.sized /\ (Undisturbed => disk[pinned] = before)
  /\ at = "hash" /\ Undisturbed =>
       \A p \in 1 .. Len(seen) : seen[p] = disk[pinned].page[p]

\* The last look found the time of the first, or the model has no identity.
LooksAgree ==
  /\ at = "hash" => looked = before
  /\ at = "decide" => looked.stamp = before.stamp \/ identity = "unreadable"
  /\ at = "load" /\ backend = "GPU" => looked.stamp = before.stamp

\* The identity is that of the bytes behind the descriptor.
IdentityIsTrue ==
  /\ at = "decide" /\ Undisturbed =>
       /\ identity = "other" => ~IsFixture(disk[pinned])
       /\ identity = "qwen3" => IsFixture(disk[pinned])
       /\ identity = "unreadable" => failed
  /\ at \in {"stat", "hash", "decide"} => backend = "GPU"

\* What may be loaded is another model, or runs on another GPU.
VerdictIsTrue ==
  at = "load" /\ backend = "GPU" /\ Undisturbed /\ IsFixture(disk[pinned]) =>
    \A g \in DOMAIN gpus : ~gpus[g].affected

SafetyInv ==
  /\ SafetyTypeOK
  /\ SeenIsThere
  /\ IdentityIsTrue
  /\ VerdictIsTrue
  /\ LooksAgree
  /\ UnsafeModelNeverStarts
  /\ RefusalsHaveAReason

LEMMA InitSafetyInv == GpuInit => SafetyInv
<1> SUFFICES ASSUME GpuInit PROVE SafetyInv
  OBVIOUS
<1>1. NoFile \in File
  BY GpuSafetyConfig DEF NoFile, File
<1>2. SafetyTypeOK
  BY <1>1, GpuSafetyConfig DEF GpuInit, SafetyTypeOK, File
<1>3. /\ SeenIsThere /\ IdentityIsTrue /\ VerdictIsTrue /\ LooksAgree
      /\ UnsafeModelNeverStarts /\ RefusalsHaveAReason
  BY DEF GpuInit, SeenIsThere, IdentityIsTrue, VerdictIsTrue, LooksAgree,
     UnsafeModelNeverStarts, RefusalsHaveAReason
<1> QED
  BY <1>2, <1>3 DEF SafetyInv

\* Types.
LEMMA StepKeepsTypes == SafetyTypeOK /\ [GpuNext]_gpuVars => SafetyTypeOK'
<1> SUFFICES ASSUME SafetyTypeOK, [GpuNext]_gpuVars PROVE SafetyTypeOK'
  OBVIOUS
<1> USE DEF SafetyTypeOK
<1>1. CASE UNCHANGED gpuVars
  BY <1>1 DEF gpuVars
<1>2. CASE Begin
  BY <1>2 DEF Begin, Refuse, Fails
<1>3. CASE StatBefore
  BY <1>3 DEF StatBefore, Identified
<1>4. CASE HashPage
  <2>1. CASE UNCHANGED seen
    BY <1>4, <2>1 DEF HashPage, Identified
  <2>2. CASE seen' = Append(seen, disk[pinned].page[Len(seen) + 1])
    <3>1. Len(seen) + 1 \in Pages
      BY <1>4, GpuSafetyConfig DEF HashPage, Pages
    <3>2. disk[pinned].page[Len(seen) + 1] \in BOOLEAN
      BY <3>1 DEF File
    <3> QED
      BY <1>4, <2>2, <3>2, GpuSafetyConfig DEF HashPage, Identified
  <2> QED
    BY <1>4, <2>1, <2>2 DEF HashPage, Identified
<1>5. CASE StatAfter
  BY <1>5 DEF StatAfter, Identified, IdentityOfDigest
<1>6. CASE PinFails \/ Decide
  BY <1>6 DEF PinFails, Fails, Decide, Refuse
<1>7. CASE Load
  BY <1>7 DEF Load
<1>8. ASSUME NEW f \in Files, Write(f) PROVE SafetyTypeOK'
  BY <1>8 DEF Write
<1>9. ASSUME NEW f \in Files, Replace(f) PROVE SafetyTypeOK'
  BY <1>9 DEF Replace
<1> QED
  BY <1>1, <1>2, <1>3, <1>4, <1>5, <1>6, <1>7, <1>8, <1>9 DEF GpuNext

\* A write gives its file a later time and leaves the others alone.
LEMMA WritesAdvanceTime ==
  ASSUME SafetyTypeOK, NEW f \in Files, Write(f)
  PROVE  /\ disk'[pinned].stamp >= disk[pinned].stamp
         /\ disk'[pinned].stamp = disk[pinned].stamp =>
              disk'[pinned] = disk[pinned]
         /\ UNCHANGED <<named, gpus, assets, backend, at, pinned, before, seen,
                        identity, loaded, failed, looked>>
<1>1. PICK file \in File : /\ file.stamp = disk[f].stamp + 1
                           /\ disk' = [disk EXCEPT ![f] = file]
  BY DEF Write
<1>2. \A g \in Files : disk[g].stamp \in Nat
  BY GpuSafetyConfig DEF SafetyTypeOK, File
<1> QED
  BY <1>1, <1>2 DEF Write, SafetyTypeOK

\* Writes and renames by others keep the invariant.
LEMMA OthersKeepInv ==
  ASSUME SafetyInv, NEW f \in Files, Write(f) \/ Replace(f)
  PROVE  SeenIsThere' /\ IdentityIsTrue' /\ VerdictIsTrue' /\ LooksAgree'
         /\ UnsafeModelNeverStarts' /\ RefusalsHaveAReason'
<1> USE DEF SafetyInv
<1>1. CASE Replace(f)
  BY <1>1 DEF Replace, SeenIsThere, IdentityIsTrue, VerdictIsTrue, LooksAgree,
     UnsafeModelNeverStarts, RefusalsHaveAReason, Undisturbed
<1>2. CASE Write(f)
  <2>1. /\ disk'[pinned].stamp >= disk[pinned].stamp
        /\ disk'[pinned].stamp = disk[pinned].stamp =>
             disk'[pinned] = disk[pinned]
        /\ UNCHANGED <<named, gpus, assets, backend, at, pinned, before, seen,
                       identity, loaded, failed, looked>>
    BY <1>2, WritesAdvanceTime
  <2>2. /\ disk[pinned].stamp \in Nat /\ disk'[pinned].stamp \in Nat
        /\ before.stamp \in Nat
    <3>1. [GpuNext]_gpuVars
      BY <1>2 DEF GpuNext
    <3>2. SafetyTypeOK'
      BY <3>1, StepKeepsTypes
    <3> QED
      BY <2>1, <3>2, GpuSafetyConfig DEF SafetyTypeOK, File
  <2>3. at \notin {"running", "refused"}
    BY <1>2 DEF Write
  <2>4. at \in {"hash", "decide", "load"} /\ backend = "GPU" /\ Undisturbed' =>
          disk'[pinned] = disk[pinned] /\ Undisturbed
    BY <2>1, <2>2 DEF SeenIsThere, Undisturbed
  <2>5. SeenIsThere'
    BY <2>1, <2>2, <2>4 DEF SeenIsThere, IdentityIsTrue
  <2>6. IdentityIsTrue' /\ VerdictIsTrue' /\ LooksAgree'
    BY <2>1, <2>4 DEF IdentityIsTrue, VerdictIsTrue, LooksAgree
  <2>7. UnsafeModelNeverStarts' /\ RefusalsHaveAReason'
    BY <2>1, <2>3 DEF UnsafeModelNeverStarts, RefusalsHaveAReason
  <2> QED
    BY <2>5, <2>6, <2>7
<1> QED
  BY <1>1, <1>2

\* Hashing page after page, and the digest at the end.
LEMMA HashingKeepsInv ==
  ASSUME SafetyInv, StatBefore \/ HashPage \/ StatAfter
  PROVE  SeenIsThere' /\ IdentityIsTrue' /\ VerdictIsTrue' /\ LooksAgree'
         /\ UnsafeModelNeverStarts' /\ RefusalsHaveAReason'
<1> USE DEF SafetyInv, Undisturbed
<1>0. disk[pinned].stamp \in Nat /\ before.stamp \in Nat
  BY GpuSafetyConfig DEF SafetyTypeOK, File
<1>1. CASE StatBefore
  <2>1. /\ UNCHANGED <<disk, pinned, seen, backend>>
        /\ before' = disk[pinned] /\ looked' = disk[pinned]
        /\ at' \in {"hash", "decide"} /\ at = "stat"
        /\ at' = "hash" => disk[pinned].sized
        /\ at' = "decide" => \/ identity' = "other" /\ ~disk[pinned].sized
                             \/ identity' = "unreadable" /\ failed'
    BY <1>1 DEF StatBefore, Identified
  <2> QED
    BY <1>0, <2>1 DEF SeenIsThere, IdentityIsTrue, VerdictIsTrue, LooksAgree,
       UnsafeModelNeverStarts, RefusalsHaveAReason, IsFixture
<1>2. CASE HashPage
  <2>1. UNCHANGED <<disk, pinned, before, backend, looked>> /\ at = "hash"
    BY <1>2 DEF HashPage, Identified
  <2>2. CASE at' = at /\ seen' = Append(seen, disk[pinned].page[Len(seen) + 1])
    <3>1. \A p \in 1 .. Len(seen') :
            seen'[p] = IF p <= Len(seen) THEN seen[p]
                       ELSE disk[pinned].page[Len(seen) + 1]
      BY <2>2 DEF SafetyTypeOK
    <3>2. \A p \in 1 .. Len(seen') : p <= Len(seen) \/ p = Len(seen) + 1
      BY <2>2 DEF SafetyTypeOK
    <3>3. Undisturbed =>
            \A p \in 1 .. Len(seen') : seen'[p] = disk[pinned].page[p]
      BY <2>1, <3>1, <3>2 DEF SeenIsThere, SafetyTypeOK
    <3> QED
      BY <2>1, <2>2, <3>3 DEF SeenIsThere, IdentityIsTrue, VerdictIsTrue, LooksAgree,
         UnsafeModelNeverStarts, RefusalsHaveAReason
  <2>3. CASE /\ at' = "decide" /\ identity' = "unreadable"
             /\ failed' = (failed \/ disk[pinned].sized)
    <3>1. Undisturbed => failed'
      BY <2>1, <2>3 DEF SeenIsThere
    <3> QED
      BY <1>0, <2>1, <2>3, <3>1 DEF SeenIsThere, IdentityIsTrue,
         VerdictIsTrue, LooksAgree, UnsafeModelNeverStarts, RefusalsHaveAReason
  <2> QED
    BY <1>2, <2>2, <2>3 DEF HashPage, Identified
<1>3. CASE StatAfter
  <2>1. /\ UNCHANGED <<disk, pinned, before, backend>> /\ at = "hash"
        /\ at' = "decide" /\ Len(seen) = NumPages
        /\ looked'.stamp = before.stamp \/ identity' = "unreadable"
        /\ \/ identity' = IdentityOfDigest
           \/ identity' = "unreadable" /\ (failed' \/ ~Undisturbed)
    BY <1>3 DEF StatAfter, Identified, LooksAgree
  <2>2. Undisturbed =>
          (IdentityOfDigest = "qwen3" <=> IsFixture(disk[pinned]))
    BY <2>1 DEF SeenIsThere, IdentityOfDigest, IsFixture, Pages
  <2>3. IdentityOfDigest \in {"qwen3", "other"}
    BY DEF IdentityOfDigest
  <2> QED
    BY <1>0, <2>1, <2>2, <2>3 DEF SeenIsThere, IdentityIsTrue, VerdictIsTrue, LooksAgree,
       UnsafeModelNeverStarts, RefusalsHaveAReason
<1> QED
  BY <1>1, <1>2, <1>3

\* The verdict on what was found.
LEMMA DecidingKeepsInv ==
  ASSUME SafetyInv, Decide
  PROVE  SeenIsThere' /\ IdentityIsTrue' /\ VerdictIsTrue' /\ LooksAgree'
         /\ UnsafeModelNeverStarts' /\ RefusalsHaveAReason'
<1> USE DEF SafetyInv, Undisturbed
<1>0. disk[pinned].stamp \in Nat /\ before.stamp \in Nat
  BY GpuSafetyConfig DEF SafetyTypeOK, File
<1>1. PICK probe \in Probes :
        /\ failed' = (failed \/ (identity = "qwen3" /\ ~probe.complete))
        /\ \/ Restricted(probe) /\ Refuse
           \/ /\ ~Restricted(probe)
              /\ at' = "load"
              /\ UNCHANGED <<disk, named, gpus, assets, backend, pinned, before,
                             seen, identity, loaded, looked>>
  BY DEF Decide
<1>2. at = "decide" /\ backend = "GPU" /\ before.stamp <= disk[pinned].stamp
  BY DEF Decide, SeenIsThere, IdentityIsTrue
<1>3. /\ identity = "qwen3" /\ probe.complete => probe.devices = gpus
      /\ identity \in {"other", "qwen3", "unreadable"}
  BY DEF Probes, NoGpu, SafetyTypeOK
<1>4. CASE Restricted(probe) /\ Refuse
  <2>1. at' = "refused" /\ UNCHANGED <<disk, pinned, before, backend, gpus, looked>>
    BY <1>4 DEF Refuse
  <2>2. ASSUME Undisturbed, ~failed'
        PROVE  /\ IsFixture(disk[pinned])
               /\ ~\E g \in Gpu : gpus = <<g>> /\ g.tells /\ ~g.affected
    <3>1. identity = "qwen3" /\ probe.complete /\ IsFixture(disk[pinned])
      BY <1>1, <1>2, <1>4, <2>2 DEF IdentityIsTrue, Restricted
    <3>2. ASSUME NEW g \in Gpu, gpus = <<g>>, g.tells, ~g.affected PROVE FALSE
      BY <1>3, <1>4, <3>1, <3>2 DEF Restricted
    <3> QED
      BY <3>1, <3>2
  <2>3. RefusalsHaveAReason'
    BY <1>0, <1>2, <2>1, <2>2 DEF RefusalsHaveAReason
  <2> QED
    BY <2>1, <2>3 DEF SeenIsThere, IdentityIsTrue, VerdictIsTrue, LooksAgree,
       UnsafeModelNeverStarts
<1>5. CASE /\ ~Restricted(probe)
           /\ at' = "load"
           /\ UNCHANGED <<disk, named, gpus, assets, backend, pinned, before,
                          seen, identity, loaded, looked>>
  <2>1. Undisturbed /\ IsFixture(disk[pinned]) =>
          \A g \in DOMAIN gpus : ~gpus[g].affected
    BY <1>2, <1>3, <1>5 DEF IdentityIsTrue, Restricted, SafetyTypeOK
  <2>2. looked.stamp = before.stamp
    BY <1>2, <1>5 DEF LooksAgree, Restricted
  <2> QED
    BY <1>2, <1>5, <2>1, <2>2 DEF SeenIsThere, IdentityIsTrue, VerdictIsTrue, LooksAgree,
       UnsafeModelNeverStarts, RefusalsHaveAReason
<1> QED
  BY <1>1, <1>4, <1>5

\* The ends of the call.
LEMMA EndsKeepInv ==
  ASSUME SafetyInv, Begin \/ PinFails \/ Load
  PROVE  SeenIsThere' /\ IdentityIsTrue' /\ VerdictIsTrue' /\ LooksAgree'
         /\ UnsafeModelNeverStarts' /\ RefusalsHaveAReason'
<1> USE DEF SafetyInv, Undisturbed
<1>0. disk[pinned].stamp \in Nat /\ before.stamp \in Nat
  BY GpuSafetyConfig DEF SafetyTypeOK, File
<1>1. CASE Begin \/ PinFails
  BY <1>1 DEF Begin, PinFails, Refuse, Fails, SeenIsThere, IdentityIsTrue,
     VerdictIsTrue, LooksAgree, UnsafeModelNeverStarts, RefusalsHaveAReason
<1>2. CASE Load
  <2>1. /\ at = "load" /\ at' = "running"
        /\ UNCHANGED <<disk, gpus, backend, pinned, before, looked>>
        /\ backend = "GPU" => loaded' = disk[pinned]
    BY <1>2 DEF Load
  <2> QED
    BY <1>0, <2>1 DEF SeenIsThere, IdentityIsTrue, VerdictIsTrue, LooksAgree,
       UnsafeModelNeverStarts, RefusalsHaveAReason
<1> QED
  BY <1>1, <1>2

\* The invariant is inductive.
LEMMA StepSafetyInv == SafetyInv /\ [GpuNext]_gpuVars => SafetyInv'
<1> SUFFICES ASSUME SafetyInv, [GpuNext]_gpuVars PROVE SafetyInv'
  OBVIOUS
<1>1. SafetyTypeOK'
  BY StepKeepsTypes DEF SafetyInv
<1>2. CASE UNCHANGED gpuVars
  BY <1>1, <1>2 DEF gpuVars, SafetyInv, SeenIsThere, IdentityIsTrue,
     VerdictIsTrue, LooksAgree, UnsafeModelNeverStarts, RefusalsHaveAReason, Undisturbed
<1>3. CASE GpuNext
  BY <1>1, <1>3, OthersKeepInv, HashingKeepsInv, DecidingKeepsInv, EndsKeepInv
  DEF GpuNext, SafetyInv
<1> QED
  BY <1>2, <1>3

THEOREM SafetyInvHolds == GpuSpec => []SafetyInv
  BY InitSafetyInv, StepSafetyInv, PTL DEF GpuSpec

\* No engine starts on the GPU with the model the affected driver crashes on,
\* but one that was written in place after the last look at it
\* (PrepareAndroidGpuSafety, IdentifyQwen3File).
THEOREM UnsafeModelsNeverStart == GpuSpec => []UnsafeModelNeverStarts
<1>1. SafetyInv => UnsafeModelNeverStarts
  BY DEF SafetyInv
<1> QED
  BY <1>1, SafetyInvHolds, PTL

\* An engine is refused only for what the preflight is about, or because it could
\* not look (Qwen3GpuRestriction).
THEOREM RefusalsAreNarrow == GpuSpec => []RefusalsHaveAReason
<1>1. SafetyInv => RefusalsHaveAReason
  BY DEF SafetyInv
<1> QED
  BY <1>1, SafetyInvHolds, PTL

-----------------------------------------------------------------------------
(***************************************************************************)
(* AsrEngine.                                                              *)
(***************************************************************************)
\* The numbers of a config are natural; an engine was made of a valid config, and
\* its sessions of the same one.
AsrInv ==
  /\ config.rate \in Nat /\ config.ms \in Nat /\ config.buffered \in Nat /\ config.part \in Nat
  /\ engine # NoEngine => ValidConfig(config)
  /\ source # NoSource => source = Geometry(config) /\ ValidConfig(config)
  /\ EngineFitsTheModel

\* Rounding a window to the nearest sample rounds it down, or up by one sample.
LEMMA NearestSample ==
  ASSUME NEW n \in Nat
  PROVE  /\ Round(n, 1000) \in Nat
         /\ Round(n, 1000) = n \div 1000 \/ Round(n, 1000) = (n \div 1000) + 1
         /\ n \div 1000 \in Nat
BY DEF Round

LEMMA RoundingIsMonotone ==
  ASSUME NEW m \in Nat, NEW n \in Nat, m <= n
  PROVE  Round(m, 1000) <= Round(n, 1000)
BY DEF Round

LEMMA QuotientIsBelow ==
  ASSUME NEW n \in Nat, NEW d \in Nat \ {0}, NEW w \in Nat
  PROVE  n \div d \in Nat /\ (n \div d < w <=> n < d * w)
<1>. DEFINE q == n \div d
<1>1. q \in Nat /\ d * q <= n /\ n < d * (q + 1)
  OBVIOUS
<1>. HIDE DEF q
<1>2. CASE q < w
  <2>1. PICK k \in Nat : w = q + 1 + k
    <3>1. w - q - 1 \in Nat /\ w = q + 1 + (w - q - 1)
      BY <1>1, <1>2
    <3>. QED  BY <3>1
  <2>2. d * w = d * (q + 1) + d * k /\ d * k \in Nat /\ d * (q + 1) \in Nat
    BY <1>1, <2>1
  <2>. QED  BY <1>1, <1>2, <2>2
<1>3. CASE ~(q < w)
  <2>1. PICK k \in Nat : q = w + k
    <3>1. q - w \in Nat /\ q = w + (q - w)
      BY <1>1, <1>3
    <3>. QED  BY <3>1
  <2>2. d * q = d * w + d * k /\ d * k \in Nat /\ d * w \in Nat
    BY <2>1
  <2>. QED  BY <1>1, <1>3, <2>2
<1>4. q \in Nat /\ (q < w <=> n < d * w)
  BY <1>1, <1>2, <1>3
<1>. QED  BY <1>4 DEF q

\* The overlap is shorter than the window as soon as it leaves more than half a
\* sample: what holds of a window holds of a longer one.
LEMMA OverlapLeaves ==
  ASSUME NEW w \in Nat, NEW p \in Nat, p < Unit
  PROVE  /\ Overlap(w, p) \in Nat
         /\ Overlap(w, p) < w <=> 2 * (w * (Unit - p)) > Unit
<1>. DEFINE n == w * p
            m == w * Unit
<1>1. n \in Nat /\ m \in Nat /\ Unit \in Nat \ {0} /\ w * (Unit - p) = m - n
  BY EngineConfig
<1>2. Overlap(w, p) = (2 * n + Unit) \div (2 * Unit) /\ (2 * Unit) * w = 2 * m
  BY <1>1 DEF Overlap, Round
<1>. HIDE DEF n, m
<1>3. 2 * n + Unit \in Nat /\ 2 * Unit \in Nat \ {0}
  BY <1>1
<1>4. /\ Overlap(w, p) \in Nat
      /\ Overlap(w, p) < w <=> 2 * n + Unit < 2 * m
  BY <1>2, <1>3, QuotientIsBelow
<1>. QED  BY <1>1, <1>4

LEMMA LongerLeavesMore ==
  ASSUME NEW v \in Nat, NEW w \in Nat, v <= w, NEW d \in Nat, NEW u \in Nat,
         2 * (v * d) > u
  PROVE  2 * (w * d) > u
<1>1. PICK k \in Nat : w = v + k
  <2>1. w - v \in Nat /\ w = v + (w - v)
    OBVIOUS
  <2>. QED  BY <2>1
<1>2. w * d = v * d + k * d /\ k * d \in Nat /\ v * d \in Nat
  BY <1>1
<1>. QED  BY <1>2

LEMMA ValidConfigAdvances ==
  ASSUME config.rate \in Nat, config.ms \in Nat, config.buffered \in Nat, config.part \in Nat,
         ValidConfig(config)
  PROVE  LET g == Geometry(config)
         IN  /\ g.window > 0 /\ g.step > 0 /\ g.overlap < g.window
             /\ g.window <= g.capacity
<1>. DEFINE n == config.rate * config.ms
            m == config.rate * config.buffered
            v == n \div 1000
            w == Round(n, 1000)
            p == config.part
<1>0. Unit \in Nat \ {0}
  BY EngineConfig
<1>1. p \in Nat /\ p < Unit /\ v > 0 /\ Overlap(v, p) < v /\ config.ms <= config.buffered
  <2>1. config.part < Unit /\ config.buffered >= config.ms /\ LeavesAStep(config)
    BY DEF ValidConfig
  <2>2. v > 0 /\ Overlap(v, p) < v
    BY <2>1 DEF LeavesAStep
  <2>. HIDE DEF v, n, m, w
  <2>. QED  BY <2>1, <2>2
<1>2. n \in Nat /\ m \in Nat /\ n <= m
  <2>1. PICK k \in Nat : config.buffered = config.ms + k
    <3>1. config.buffered - config.ms \in Nat /\ config.buffered = config.ms + (config.buffered - config.ms)
      BY <1>1
    <3>. QED  BY <3>1
  <2>2. m = n + config.rate * k /\ config.rate * k \in Nat /\ n \in Nat
    BY <2>1
  <2>. QED  BY <2>2
<1>3. v \in Nat /\ w \in Nat /\ v <= w
  <2>. HIDE DEF n
  <2>. QED  BY <1>2, NearestSample
<1>4. 2 * (v * (Unit - p)) > Unit
  <2>. HIDE DEF v, w, p
  <2>. QED  BY <1>1, <1>3, OverlapLeaves
<1>5. 2 * (w * (Unit - p)) > Unit
  <2>. HIDE DEF v, w, p
  <2>1. Unit - p \in Nat
    BY <1>0, <1>1
  <2>. QED  BY <1>0, <1>3, <1>4, <2>1, LongerLeavesMore
<1>6. Overlap(w, p) \in Nat /\ Overlap(w, p) < w
  <2>. HIDE DEF v, w, p
  <2>. QED  BY <1>1, <1>3, <1>5, OverlapLeaves
<1>7. w <= Round(m, 1000)
  <2>. HIDE DEF n, m
  <2>. QED  BY <1>2, RoundingIsMonotone
<1>8. w > 0 /\ w - Overlap(w, p) > 0
  <2>. HIDE DEF v, w, p
  <2>. QED  BY <1>1, <1>3, <1>6
<1>. QED  BY <1>6, <1>7, <1>8 DEF Geometry

LEMMA PresetTable ==
  \A p \in Presets :
    /\ p.ms \in {5000, 30000} /\ p.decoder \in {"CTC", "TDT", "STATELESS"}
    /\ p.norm \in {"STANDARD", "WHISPER"} /\ p.name \in Routes
BY DEF Presets, Routes

\* The presets of litert_lm_asr_config_init are valid.
LEMMA PresetsAreValid ==
  ASSUME NEW p \in Presets
  PROVE  /\ ValidConfig(Defaults(p)) /\ ValidEnums(Defaults(p))
         /\ Defaults(p).name = p.name /\ Defaults(p).start = p.start /\ p.name \in Routes
<1>1. /\ p.ms \in {5000, 30000} /\ p.decoder \in {"CTC", "TDT", "STATELESS"}
      /\ p.norm \in {"STANDARD", "WHISPER"} /\ p.name \in Routes
  BY PresetTable
<1>2. ValidConfig(Defaults(p))
  <2>. DEFINE q == Round(2 * Unit, 5)
  <2>0. Unit \in Nat \ {0}
    BY EngineConfig
  <2>1. q \in Nat /\ q < Unit /\ 10 * q <= 4 * Unit + 5
    BY <2>0 DEF Round
  <2>. HIDE DEF q
  <2>2. 2 * (80000 * (Unit - q)) > Unit /\ 2 * (480000 * (Unit - q)) > Unit
    BY <2>0, <2>1
  <2>3. Overlap(80000, q) < 80000 /\ Overlap(480000, q) < 480000
    BY <2>1, <2>2, OverlapLeaves
  <2>4. (16000 * 5000) \div 1000 = 80000 /\ (16000 * 30000) \div 1000 = 480000
    OBVIOUS
  <2>5. q = Round(2 * Unit, 5)
    BY DEF q
  <2>. QED  BY <1>1, <2>1, <2>3, <2>4, <2>5 DEF ValidConfig, Defaults, LeavesAStep
<1>3. ValidEnums(Defaults(p))
  BY <1>1 DEF ValidEnums, Defaults
<1>. QED  BY <1>1, <1>2, <1>3 DEF Defaults

\* A container of a known family is decoded as that family and variant or refused.
LEMMA ContainersKeepTheirRoute ==
  ASSUME NEW c, NEW m, m.holds # "file", Route(m) # "none",
         OmniEngine(c, m) # NoEngine
  PROVE  /\ OmniEngine(c, m).route = Route(m)
         /\ FamilyOf(c.name) \in {"none", FamilyOf(Route(m))}
<1>1. /\ Resolved(c, m) # "error"
      /\ OmniEngine(c, m) = [route |-> Resolved(c, m)]
  BY DEF OmniEngine
<1>2. CASE c.name = ""
  <2>1. Resolved(c, m) = Route(m)
    BY <1>2 DEF Resolved
  <2>2. FamilyOf(c.name) = "none"
    BY <1>2 DEF FamilyOf, Families
  <2>. QED  BY <1>1, <2>1, <2>2
<1>3. CASE c.name # ""
  <2>1. Resolved(c, m) = IF NamesOtherFamily(c.name, Route(m)) THEN "error"
                         ELSE IF c.name = Route(m) /\ known THEN c.name ELSE Route(m)
    BY <1>3 DEF Resolved
  <2>. QED  BY <1>1, <2>1 DEF NamesOtherFamily
<1>. QED  BY <1>2, <1>3

LEMMA AsrInvInit == EngineInit => AsrInv
<1>. SUFFICES ASSUME EngineInit PROVE AsrInv
  OBVIOUS
<1>1. engine = NoEngine /\ source = NoSource /\ status = "none"
  BY DEF EngineInit
<1>2. \A p \in Presets : /\ Defaults(p).rate \in Nat /\ Defaults(p).ms \in Nat
                          /\ Defaults(p).buffered \in Nat /\ Defaults(p).part \in Nat
  <2>1. Round(2 * Unit, 5) \in Nat
    BY EngineConfig DEF Round
  <2>. QED  BY <2>1, PresetTable DEF Defaults
<1>3. /\ config.rate \in Nat /\ config.ms \in Nat /\ config.buffered \in Nat /\ config.part \in Nat
  <2>1. CASE NumericConfig
    <3>1. PICK p \in Presets, r \in Rates, a \in Milliseconds, b \in Milliseconds,
               q \in Parts, n \in 0 .. 1 :
            /\ p.name = "moonshine"
            /\ config = [Defaults(p) EXCEPT !.rate = r, !.ms = a, !.buffered = b, !.part = q,
                                            !.threads = n]
      BY <2>1, ZenonT(60) DEF NumericConfig
    <3>. QED  BY <3>1, EngineConfig DEF Defaults
  <2>2. CASE LabelledConfig
    <3>1. PICK p \in Presets :
            \/ \E n \in Names, k \in {"STANDARD", "WHISPER", "bad"} :
                 config = [Defaults(p) EXCEPT !.name = n, !.norm = k]
            \/ \E d \in {"CTC", "bad"}, b \in {"GPU", "NPU", "bad"}, g \in {"LEVENSHTEIN", "bad"} :
                 config = [Defaults(p) EXCEPT !.decoder = d, !.backend = b, !.merger = g]
            \/ config = Defaults(p)
      BY <2>2, Zenon DEF LabelledConfig
    <3>2. CASE \E n \in Names, k \in {"STANDARD", "WHISPER", "bad"} :
                 config = [Defaults(p) EXCEPT !.name = n, !.norm = k]
      <4>1. PICK n \in Names, k \in {"STANDARD", "WHISPER", "bad"} :
              config = [Defaults(p) EXCEPT !.name = n, !.norm = k]
        BY <3>2, Zenon
      <4>. QED  BY <4>1, <1>2 DEF Defaults
    <3>3. CASE \E d \in {"CTC", "bad"}, b \in {"GPU", "NPU", "bad"}, g \in {"LEVENSHTEIN", "bad"} :
                 config = [Defaults(p) EXCEPT !.decoder = d, !.backend = b, !.merger = g]
      <4>1. PICK d \in {"CTC", "bad"}, b \in {"GPU", "NPU", "bad"}, g \in {"LEVENSHTEIN", "bad"} :
              config = [Defaults(p) EXCEPT !.decoder = d, !.backend = b, !.merger = g]
        BY <3>3, Zenon
      <4>. QED  BY <4>1, <1>2 DEF Defaults
    <3>4. CASE config = Defaults(p)
      BY <3>4, <1>2
    <3>. QED  BY <3>1, <3>2, <3>3, <3>4
  <2>. QED  BY <2>1, <2>2 DEF EngineInit
<1>4. EngineFitsTheModel
  BY <1>1 DEF EngineFitsTheModel, NoEngine, Routes, Names
<1>. QED  BY <1>1, <1>3, <1>4 DEF AsrInv

LEMMA EngineCreateKeeps == AsrInv /\ EngineCreate => AsrInv'
<1>. SUFFICES ASSUME AsrInv, EngineCreate PROVE AsrInv'
  OBVIOUS
<1>. DEFINE ok == ValidConfig(config) /\ ValidEnums(config)
<1>1. /\ UNCHANGED <<omni, config, model, known, source>>
      /\ status' = IF engine' = NoEngine THEN "refused" ELSE "created"
      /\ engine' = IF ~ok THEN NoEngine
                   ELSE IF omni THEN OmniEngine(config, model)
                   ELSE [route |-> "v0.16", decoder |-> config.decoder]
  BY DEF EngineCreate
<1>2. engine' # NoEngine => ValidConfig(config)'
  BY <1>1
<1>3. engine'.route \in Routes \cup Names /\ Route(model) # "none" =>
        /\ engine'.route = Route(model)
        /\ FamilyOf(config.name) \in {"none", FamilyOf(Route(model))}
  <2>. SUFFICES ASSUME engine'.route \in Routes \cup Names, Route(model) # "none"
                PROVE  /\ engine'.route = Route(model)
                       /\ FamilyOf(config.name) \in {"none", FamilyOf(Route(model))}
    OBVIOUS
  <2>1. engine' # NoEngine /\ engine'.route \notin {"v0.16", "file"}
    <3>1. engine'.route \notin {"none", "v0.16", "file"}
      BY DEF Routes, Names
    <3>. QED  BY <3>1 DEF NoEngine
  <2>2. engine' = OmniEngine(config, model)
    BY <1>1, <2>1
  <2>3. model.holds # "file"
    BY <2>1, <2>2 DEF OmniEngine
  <2>. QED  BY <2>1, <2>2, <2>3, ContainersKeepTheirRoute
<1>4. ASSUME NEW p \in Presets, config = Defaults(p), model.holds \in {p.name, "file"}
      PROVE  engine' # NoEngine
  <2>1. ok /\ config.name = p.name /\ p.name \in Routes
    BY <1>4, PresetsAreValid
  <2>2. CASE ~omni
    BY <1>1, <2>1, <2>2 DEF NoEngine
  <2>3. CASE omni /\ model.holds = "file"
    BY <1>1, <2>1, <2>3 DEF OmniEngine, NoEngine
  <2>4. CASE omni /\ model.holds # "file"
    <3>1. model.holds = p.name /\ Route(model) = p.name /\ p.name \notin {"file", "none", "", "error"}
      BY <1>4, <2>1, <2>4 DEF Route, Routes
    <3>2. Resolved(config, model) = p.name
      BY <2>1, <3>1 DEF Resolved, NamesOtherFamily
    <3>3. RegistryCreates(p.name, StartTokens(config, p.name))
      BY <2>1 DEF RegistryCreates, StartTokens
    <3>4. engine' = [route |-> p.name]
      BY <1>1, <2>1, <2>4, <3>1, <3>2, <3>3 DEF OmniEngine
    <3>. QED  BY <3>1, <3>4 DEF NoEngine
  <2>. QED  BY <2>2, <2>3, <2>4
<1>5. EngineFitsTheModel'
  BY <1>1, <1>3, <1>4 DEF EngineFitsTheModel
<1>. QED  BY <1>1, <1>2, <1>5 DEF AsrInv

LEMMA AsrInvStep == AsrInv /\ [EngineNext]_engineVars => AsrInv'
<1>. SUFFICES ASSUME AsrInv, [EngineNext]_engineVars PROVE AsrInv'
  OBVIOUS
<1>1. CASE EngineCreate
  BY <1>1, EngineCreateKeeps
<1>2. CASE SessionCreate
  BY <1>2 DEF SessionCreate, AsrInv, EngineFitsTheModel
<1>3. CASE UNCHANGED engineVars
  BY <1>3 DEF engineVars, AsrInv, EngineFitsTheModel
<1>. QED  BY <1>1, <1>2, <1>3 DEF EngineNext

LEMMA AsrInvHolds == EngineSpec => []AsrInv
BY AsrInvInit, AsrInvStep, PTL DEF EngineSpec

\* Whatever numbers a config is accepted with, the source of its sessions can hold a
\* window and moves on with each (ValidateConfig divides where the constructor of
\* PushAudioSource rounds).
THEOREM AcceptedConfigsAdvance == EngineSpec => []AcceptedWindowsAdvance
<1>1. AsrInv => AcceptedWindowsAdvance
  BY ValidConfigAdvances DEF AsrInv, AcceptedWindowsAdvance
<1>. QED  BY <1>1, AsrInvHolds, PTL

\* An engine decodes the family and variant of its container whatever label the
\* caller passed, and every preset works with its own model
\* (ResolveContainerModelName).
THEOREM EnginesFitTheirModel == EngineSpec => []EngineFitsTheModel
<1>1. AsrInv => EngineFitsTheModel
  BY DEF AsrInv
<1>. QED  BY <1>1, AsrInvHolds, PTL

=============================================================================
