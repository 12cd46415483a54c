--------------------------- MODULE RequestsProofs ---------------------------
(***************************************************************************)
(* Proofs about Requests, for every IdMax, FirstId, MaxRequests and every  *)
(* set of kinds that satisfy its assumptions.                              *)
(*                                                                         *)
(* The argument: fewer messages are sent than there are ids, so the id of  *)
(* a message determines which message it is (IdDetermines), across the     *)
(* wrap; a numbered answer that matches the slot is therefore the answer   *)
(* to the call that filled the slot.                                       *)
(***************************************************************************)
EXTENDS Requests, TLAPS

(* The id of the n-th message: one round of ids that skips 0.              *)
Assigned(n, id) ==
    id = IF FirstId + n <= IdMax THEN FirstId + n ELSE FirstId + n - IdMax

(* What holds of every message under way.                                  *)
Genuine(message) ==
    /\ message.serial \in 1 .. serial
    /\ Assigned(message.serial, message.id)
    /\ pc # "free" /\ message.serial = caller.serial => message.kind = caller.kind

Numbering ==
    /\ Assigned(serial, next_request_id)
    /\ \A message \in asked : Genuine(message)
    /\ \A n \in DOMAIN answers : Genuine(answers[n])
    /\ pc # "free" => caller.serial \in 1 .. serial /\ Assigned(caller.serial, caller.id)

(* What the slot says, when it says anything, is about the call under way. *)
SlotIsCallers ==
    /\ slot.pending => /\ pc # "free"
                       /\ slot.request_id = caller.id /\ slot.expected = caller.kind
    /\ slot.resolved => slot.pending /\ slot.response = caller.serial

Inductive == RequestTypeOK /\ Numbering /\ SlotIsCallers /\ OwnAnswer

-----------------------------------------------------------------------------
(* Less than a round of ids is used, so an id names one message.           *)
LEMMA IdDetermines ==
    ASSUME NEW m \in 1 .. MaxRequests, NEW n \in 1 .. MaxRequests, NEW id \in Nat,
           Assigned(m, id), Assigned(n, id)
    PROVE  m = n /\ id # 0
  BY IdsAssumption DEF Assigned

(* evergram_take_request_id gives the id of the next message.              *)
LEMMA NextIdAssigned ==
    ASSUME RequestTypeOK, Assigned(serial, next_request_id), serial < MaxRequests
    PROVE  NextId \in Ids /\ Assigned(serial + 1, NextId)
  BY IdsAssumption DEF RequestTypeOK, Assigned, NextId, Ids, Serials

(* Sequences: what Head, Tail, Append and a prefix keep.                   *)
LEMMA SequenceFacts ==
    ASSUME NEW S, NEW s \in Seq(S)
    PROVE  /\ s # <<>> => /\ Head(s) \in S /\ 1 \in DOMAIN s /\ Head(s) = s[1]
                          /\ Tail(s) \in Seq(S)
                          /\ \A i \in DOMAIN Tail(s) : i + 1 \in DOMAIN s /\ Tail(s)[i] = s[i + 1]
           /\ \A e \in S : /\ Append(s, e) \in Seq(S)
                           /\ \A i \in DOMAIN Append(s, e) :
                                 \/ i \in DOMAIN s /\ Append(s, e)[i] = s[i]
                                 \/ Append(s, e)[i] = e
           /\ \A n \in 0 .. Len(s) : /\ SubSeq(s, 1, n) \in Seq(S)
                                     /\ \A i \in DOMAIN SubSeq(s, 1, n) :
                                           i \in DOMAIN s /\ SubSeq(s, 1, n)[i] = s[i]
  <1>1. CASE s # <<>>
    BY <1>1
  <1>2. \A e \in S : /\ Append(s, e) \in Seq(S)
                     /\ \A i \in DOMAIN Append(s, e) :
                           \/ i \in DOMAIN s /\ Append(s, e)[i] = s[i]
                           \/ Append(s, e)[i] = e
    OBVIOUS
  <1>3. \A n \in 0 .. Len(s) : /\ SubSeq(s, 1, n) \in Seq(S)
                               /\ \A i \in DOMAIN SubSeq(s, 1, n) :
                                     i \in DOMAIN s /\ SubSeq(s, 1, n)[i] = s[i]
    OBVIOUS
  <1>4. QED
    BY <1>1, <1>2, <1>3

-----------------------------------------------------------------------------
(* Types.                                                                  *)

(* 0 stands for no message and for no id.                                  *)
LEMMA Zero == 0 \in Serials /\ 0 \in Ids /\ FirstId \in Ids
  BY IdsAssumption DEF Serials, Ids

(* The initial states are well typed.                                      *)
LEMMA InitTypes == RequestInit => RequestTypeOK
  <1> SUFFICES ASSUME RequestInit PROVE RequestTypeOK
    OBVIOUS
  <1>1. slot \in CallSlots
    BY Zero DEF RequestInit, CallSlots
  <1>2. result \in Results
    BY Zero DEF RequestInit, Results, Statuses
  <1>3. caller \in [serial : Serials, id : Ids, kind : AllKinds \cup {"none"}]
    BY Zero DEF RequestInit, NoCaller
  <1>4. connected \in BOOLEAN /\ seen \in BOOLEAN
    BY DEF RequestInit
  <1>5. next_request_id \in Ids /\ serial \in Serials /\ pc \in {"free", "calling", "reading"}
    BY Zero DEF RequestInit
  <1>6. asked \subseteq Messages /\ answers \in Seq(Messages)
    BY DEF RequestInit
  <1>7. QED
    BY <1>1, <1>2, <1>3, <1>4, <1>5, <1>6 DEF RequestTypeOK

(* What the helpers on the slot return is a slot.                          *)
LEMMA SlotTypes ==
    ASSUME NEW s \in CallSlots, NEW kind, NEW message \in Messages
    PROVE  /\ Released(s) \in CallSlots /\ Refused(kind, s) \in CallSlots
           /\ Resolved(s, message) \in CallSlots
  <1>1. Released(s) \in CallSlots
    BY Zero DEF CallSlots, Released
  <1>2. Resolved(s, message) \in CallSlots
    BY DEF CallSlots, Resolved, Messages
  <1>3. QED
    BY <1>1, <1>2 DEF Refused

(* A numbered message: its serial, its id, and the counters after it.      *)
LEMMA NumbersTypes ==
    ASSUME RequestTypeOK, Numbers
    PROVE  /\ serial < MaxRequests /\ serial + 1 \in 1 .. MaxRequests /\ NextId \in Ids
           /\ serial' = serial + 1 /\ next_request_id' = NextId
           /\ serial' \in Serials /\ next_request_id' \in Ids
  BY IdsAssumption DEF RequestTypeOK, Numbers, NextId, Ids, Serials

(* The same for a message that leaves.                                     *)
LEMMA SentTypes ==
    ASSUME RequestTypeOK, NEW kind \in AllKinds \cup UnawaitedKinds, Sent(kind)
    PROVE  /\ Numbers
           /\ asked' \subseteq Messages
           /\ asked' = asked \cup {[serial |-> serial + 1, id |-> NextId, kind |-> kind]}
  BY NumbersTypes DEF RequestTypeOK, Sent, Messages, Serials

(* Every step keeps the types.                                             *)
LEMMA NextTypes == RequestTypeOK /\ [RequestNext]_requestVars => RequestTypeOK'
  <1> SUFFICES ASSUME RequestTypeOK, [RequestNext]_requestVars PROVE RequestTypeOK'
    OBVIOUS
  <1> USE DEF requestVars, wire
  <1>1. ASSUME NEW kind \in Kinds, CallOffline(kind) PROVE RequestTypeOK'
    <2>1. slot' \in CallSlots
      BY <1>1, Zero DEF CallOffline, RequestTypeOK, Refused, Released, CallSlots
    <2>2. result' \in Results
      BY <1>1, Zero DEF CallOffline, Results, Statuses
    <2>3. QED
      BY <1>1, <2>1, <2>2 DEF CallOffline, RequestTypeOK
  <1>2. ASSUME NEW kind \in Kinds, Call(kind) PROVE RequestTypeOK'
    <2>1. kind \in AllKinds
      BY <1>2, KindsAssumption
    <2>2. asked' \subseteq Messages /\ Numbers
      BY <1>2, <2>1, SentTypes DEF Call
    <2>3. slot' \in CallSlots
      BY <1>2, <2>1, <2>2, NumbersTypes, Zero DEF Call, CallSlots
    <2>4. caller' \in [serial : Serials, id : Ids, kind : AllKinds \cup {"none"}]
      BY <1>2, <2>1, <2>2, NumbersTypes DEF Call, Serials
    <2>5. QED
      BY <1>2, <2>2, <2>3, <2>4, NumbersTypes DEF Call, RequestTypeOK
  <1>3. ASSUME NEW kind \in Kinds, CallUnsent(kind) PROVE RequestTypeOK'
    <2>1. kind \in AllKinds /\ Numbers
      BY <1>3, KindsAssumption DEF CallUnsent
    <2>2. slot' \in CallSlots
      BY <1>3, <2>1, NumbersTypes, Zero DEF CallUnsent, Released, CallSlots, RequestTypeOK
    <2>3. result' \in Results
      BY <1>3, <2>1, NumbersTypes, Zero DEF CallUnsent, Results, Statuses
    <2>4. QED
      BY <1>3, <2>1, <2>2, <2>3, NumbersTypes DEF CallUnsent, RequestTypeOK
  <1>4. ASSUME NEW kind \in UnawaitedKinds, SendUnawaited(kind) PROVE RequestTypeOK'
    <2>1. asked' \subseteq Messages /\ Numbers
      BY <1>4, SentTypes DEF SendUnawaited
    <2>2. QED
      BY <1>4, <2>1, NumbersTypes DEF SendUnawaited, RequestTypeOK
  <1>5. ASSUME SendForgotten PROVE RequestTypeOK'
    BY <1>5, NumbersTypes DEF SendForgotten, RequestTypeOK
  <1>6. ASSUME Deliver PROVE RequestTypeOK'
    <2>1. Head(answers) \in Messages /\ Tail(answers) \in Seq(Messages)
      BY <1>6, SequenceFacts DEF Deliver, RequestTypeOK
    <2>2. slot' \in CallSlots
      BY <1>6, <2>1, SlotTypes DEF Deliver, RequestTypeOK
    <2>3. seen' \in BOOLEAN
      BY <1>6 DEF Deliver
    <2>4. QED
      BY <1>6, <2>1, <2>2, <2>3 DEF Deliver, RequestTypeOK
  <1>7. ASSUME Timeout \/ Broken \/ Answered PROVE RequestTypeOK'
    <2>1. slot' \in CallSlots
      BY <1>7, Zero DEF Timeout, Broken, Answered, RequestTypeOK, Released, CallSlots
    <2>2. result' \in Results
      BY <1>7, Zero DEF Timeout, Broken, Answered, Returns, RequestTypeOK, Results, Statuses,
                        CallSlots
    <2>3. QED
      BY <1>7, <2>1, <2>2 DEF Timeout, Broken, Answered, RequestTypeOK
  <1>8. ASSUME DeliverEvent \/ Snapshot \/ Finish PROVE RequestTypeOK'
    <2>1. slot' \in CallSlots
      BY <1>8, Zero DEF DeliverEvent, Snapshot, Finish, Refused, Released, RequestTypeOK, CallSlots
    <2>2. QED
      BY <1>8, <2>1 DEF DeliverEvent, Snapshot, Finish, RequestTypeOK
  <1>9. ASSUME GatewayAnswers PROVE RequestTypeOK'
    <2>1. PICK message \in asked :
              /\ asked' = asked \ {message}
              /\ answers' = Append(answers, IF Numbered THEN message
                                              ELSE [message EXCEPT !.id = 0])
      BY <1>9 DEF GatewayAnswers
    <2>2. [message EXCEPT !.id = 0] \in Messages
      BY <2>1, Zero DEF RequestTypeOK, Messages
    <2>3. answers' \in Seq(Messages)
      BY <2>1, <2>2, SequenceFacts DEF RequestTypeOK
    <2>4. QED
      BY <1>9, <2>1, <2>3 DEF GatewayAnswers, RequestTypeOK
  <1>10. ASSUME ConnectionDrops PROVE RequestTypeOK'
    <2>1. answers' \in Seq(Messages)
      BY <1>10, SequenceFacts DEF ConnectionDrops, RequestTypeOK
    <2>2. QED
      BY <1>10, <2>1 DEF ConnectionDrops, RequestTypeOK
  <1>11. ASSUME Reconnect PROVE RequestTypeOK'
    BY <1>11 DEF Reconnect, RequestTypeOK
  <1>12. CASE UNCHANGED requestVars
    BY <1>12 DEF RequestTypeOK
  <1>13. QED
    BY <1>1, <1>2, <1>3, <1>4, <1>5, <1>6, <1>7, <1>8, <1>9, <1>10, <1>11, <1>12
    DEF RequestNext, CallEnds, Quiet

(* Every variable of the request slot keeps its type, whatever is refused, *)
(* lost or unnumbered.                                                     *)
THEOREM RequestsTypeCorrect == RequestSpec => []RequestTypeOK
  BY InitTypes, NextTypes, PTL DEF RequestSpec

-----------------------------------------------------------------------------
(* Numbering.                                                              *)

(* A message stays genuine while the counter grows and the caller is the   *)
(* same, is gone, or has just sent a newer message.                        *)
LEMMA GenuineKept ==
    ASSUME RequestTypeOK, serial' \in Serials, serial <= serial',
           \/ pc' = "free"
           \/ pc # "free" /\ caller' = caller
           \/ caller'.serial = serial + 1,
           NEW message, Genuine(message)
    PROVE  /\ message.serial \in 1 .. serial'
           /\ Assigned(message.serial, message.id)
           /\ pc' # "free" /\ message.serial = caller'.serial => message.kind = caller'.kind
  <1>1. message.serial \in 1 .. serial /\ serial \in Nat /\ serial' \in Nat
    BY DEF Genuine, RequestTypeOK, Serials
  <1>2. message.serial \in 1 .. serial'
    BY <1>1
  <1>3. ASSUME pc' # "free", message.serial = caller'.serial
        PROVE  message.kind = caller'.kind
    <2>1. caller'.serial # serial + 1
      BY <1>1, <1>3
    <2>2. pc # "free" /\ caller' = caller
      BY <1>3, <2>1
    <2>3. QED
      BY <1>3, <2>2 DEF Genuine
  <1>4. QED
    BY <1>2, <1>3 DEF Genuine

(* A step that sends nothing, and neither invents nor alters messages.     *)
LEMMA NothingSent ==
    ASSUME RequestTypeOK, Numbering,
           serial' = serial, next_request_id' = next_request_id,
           pc' = "free" \/ (pc # "free" /\ caller' = caller),
           \A message \in asked' : message \in asked,
           \A n \in DOMAIN answers' : \/ \E k \in DOMAIN answers : answers'[n] = answers[k]
                                      \/ answers'[n] \in asked
    PROVE  Numbering'
  <1>1. serial' \in Serials /\ serial <= serial'
    BY DEF RequestTypeOK, Serials
  <1>2. Assigned(serial, next_request_id)'
    BY DEF Numbering, Assigned
  <1>3. \A message \in asked' : Genuine(message)'
    <2>1. SUFFICES ASSUME NEW message \in asked' PROVE Genuine(message)'
      OBVIOUS
    <2>2. Genuine(message)
      BY <2>1 DEF Numbering
    <2>3. QED
      BY <1>1, <2>2, GenuineKept DEF Genuine, Assigned
  <1>4. \A n \in DOMAIN answers' : Genuine(answers[n])'
    <2>1. SUFFICES ASSUME NEW n \in DOMAIN answers' PROVE Genuine(answers[n])'
      OBVIOUS
    <2>2. PICK message : message = answers'[n]
      OBVIOUS
    <2>3. Genuine(message)
      BY <2>1, <2>2 DEF Numbering
    <2>4. QED
      BY <1>1, <2>2, <2>3, GenuineKept DEF Genuine, Assigned
  <1>5. (pc # "free" => caller.serial \in 1 .. serial /\ Assigned(caller.serial, caller.id))'
    BY DEF Numbering, Assigned
  <1>6. QED
    BY <1>2, <1>3, <1>4, <1>5 DEF Numbering

(* A step that takes the next id: the message it may send is the newest,   *)
(* and the call it may start is the one that sent it.                      *)
LEMMA OneSent ==
    ASSUME RequestTypeOK, Numbering, Numbers, answers' = answers,
           NEW kind,
           \A message \in asked' :
               message \in asked \/ message = [serial |-> serial + 1, id |-> NextId, kind |-> kind],
           \/ pc' = pc /\ caller' = caller
           \/ caller' = [serial |-> serial + 1, id |-> NextId, kind |-> kind]
    PROVE  Numbering'
  <1>1. /\ serial' = serial + 1 /\ next_request_id' = NextId
        /\ serial' \in Serials /\ serial <= serial' /\ serial \in Nat
        /\ Assigned(serial + 1, NextId)
    BY NumbersTypes, NextIdAssigned DEF RequestTypeOK, Serials, Numbering
  <1>2. Assigned(serial, next_request_id)'
    BY <1>1 DEF Assigned
  <1>3. \/ pc' = "free"
        \/ pc # "free" /\ caller' = caller
        \/ caller'.serial = serial + 1
    OBVIOUS
  <1>4. \A message \in asked' : Genuine(message)'
    <2>1. SUFFICES ASSUME NEW message \in asked' PROVE Genuine(message)'
      OBVIOUS
    <2>2. CASE message \in asked
      <3>1. Genuine(message)
        BY <2>2 DEF Numbering
      <3>2. QED
        BY <1>1, <1>3, <3>1, GenuineKept DEF Genuine, Assigned
    <2>3. CASE message = [serial |-> serial + 1, id |-> NextId, kind |-> kind]
      <3>1. message.serial \in 1 .. serial' /\ Assigned(message.serial, message.id)
        BY <1>1, <2>3
      <3>2. ASSUME pc' # "free", message.serial = caller'.serial
            PROVE  message.kind = caller'.kind
        <4>1. CASE pc' = pc /\ caller' = caller
          <5>1. caller.serial \in 1 .. serial
            BY <3>2, <4>1 DEF Numbering
          <5>2. QED
            BY <1>1, <2>3, <3>2, <4>1, <5>1
        <4>2. CASE caller' = [serial |-> serial + 1, id |-> NextId, kind |-> kind]
          BY <2>3, <4>2
        <4>3. QED
          BY <4>1, <4>2
      <3>3. QED
        BY <3>1, <3>2 DEF Genuine, Assigned
    <2>4. QED
      BY <2>2, <2>3
  <1>5. \A n \in DOMAIN answers' : Genuine(answers[n])'
    <2>1. SUFFICES ASSUME NEW n \in DOMAIN answers' PROVE Genuine(answers[n])'
      OBVIOUS
    <2>2. Genuine(answers[n]) /\ answers'[n] = answers[n]
      BY <2>1 DEF Numbering
    <2>3. QED
      BY <1>1, <1>3, <2>2, GenuineKept DEF Genuine, Assigned
  <1>6. (pc # "free" => caller.serial \in 1 .. serial /\ Assigned(caller.serial, caller.id))'
    <2>1. CASE pc' = pc /\ caller' = caller
      BY <1>1, <2>1 DEF Numbering, Assigned
    <2>2. CASE caller' = [serial |-> serial + 1, id |-> NextId, kind |-> kind]
      BY <1>1, <2>2 DEF Assigned
    <2>3. QED
      BY <2>1, <2>2
  <1>7. QED
    BY <1>2, <1>4, <1>5, <1>6 DEF Numbering

(* Every step keeps the numbering, when the gateway numbers its answers.   *)
LEMMA NextNumbering ==
    ASSUME Numbered = TRUE, RequestTypeOK, Numbering, [RequestNext]_requestVars
    PROVE  Numbering'
  <1> USE DEF requestVars, wire
  <1>1. ASSUME NEW kind \in Kinds, Call(kind) PROVE Numbering'
    <2>1. /\ Numbers /\ answers' = answers
          /\ asked' = asked \cup {[serial |-> serial + 1, id |-> NextId, kind |-> kind]}
          /\ caller' = [serial |-> serial + 1, id |-> NextId, kind |-> kind]
      BY <1>1 DEF Call, Sent
    <2>2. QED
      BY <2>1, OneSent
  <1>2. ASSUME NEW kind, CallUnsent(kind) \/ SendForgotten PROVE Numbering'
    <2>1. /\ Numbers /\ answers' = answers /\ asked' = asked
          /\ pc' = pc /\ caller' = caller
      BY <1>2 DEF CallUnsent, SendForgotten
    <2>2. QED
      BY <2>1, OneSent
  <1>3. ASSUME NEW kind \in UnawaitedKinds, SendUnawaited(kind) PROVE Numbering'
    <2>1. /\ Numbers /\ answers' = answers /\ pc' = pc /\ caller' = caller
          /\ asked' = asked \cup {[serial |-> serial + 1, id |-> NextId, kind |-> kind]}
      BY <1>3 DEF SendUnawaited, Sent
    <2>2. QED
      BY <2>1, OneSent
  <1>4. ASSUME NEW kind, CallOffline(kind) PROVE Numbering'
    <2>1. /\ serial' = serial /\ next_request_id' = next_request_id
          /\ asked' = asked /\ answers' = answers /\ pc' = "free"
      BY <1>4 DEF CallOffline
    <2>2. QED
      BY <2>1, NothingSent
  <1>5. ASSUME Deliver PROVE Numbering'
    <2>1. /\ serial' = serial /\ next_request_id' = next_request_id
          /\ asked' = asked /\ pc' = pc /\ caller' = caller
          /\ answers # <<>> /\ answers' = Tail(answers)
      BY <1>5 DEF Deliver
    <2>2. \A n \in DOMAIN answers' : \E k \in DOMAIN answers : answers'[n] = answers[k]
      BY <2>1, SequenceFacts DEF RequestTypeOK
    <2>3. QED
      BY <2>1, <2>2, NothingSent
  <1>6. ASSUME Timeout \/ Broken \/ Finish PROVE Numbering'
    <2>1. /\ serial' = serial /\ next_request_id' = next_request_id
          /\ asked' = asked /\ answers' = answers /\ pc' = "free"
      BY <1>6 DEF Timeout, Broken, Finish
    <2>2. QED
      BY <2>1, NothingSent
  <1>7. ASSUME Answered \/ DeliverEvent \/ Snapshot PROVE Numbering'
    <2>1. /\ serial' = serial /\ next_request_id' = next_request_id
          /\ asked' = asked /\ answers' = answers /\ pc # "free" /\ caller' = caller
      BY <1>7 DEF Answered, DeliverEvent, Snapshot
    <2>2. QED
      BY <2>1, NothingSent
  <1>8. ASSUME GatewayAnswers PROVE Numbering'
    <2>1. PICK message \in asked :
              /\ asked' = asked \ {message}
              /\ answers' = Append(answers, message)
              /\ serial' = serial /\ next_request_id' = next_request_id
              /\ pc' = pc /\ caller' = caller
      BY <1>8 DEF GatewayAnswers
    <2>2. \A n \in DOMAIN answers' : \/ \E k \in DOMAIN answers : answers'[n] = answers[k]
                                     \/ answers'[n] \in asked
      BY <2>1, SequenceFacts DEF RequestTypeOK
    <2>3. QED
      BY <2>1, <2>2, NothingSent
  <1>9. ASSUME ConnectionDrops PROVE Numbering'
    <2>1. PICK n \in 0 .. Len(answers) :
              /\ answers' = SubSeq(answers, 1, n) /\ asked' = {}
              /\ serial' = serial /\ next_request_id' = next_request_id
              /\ pc' = pc /\ caller' = caller
      BY <1>9 DEF ConnectionDrops
    <2>2. \A i \in DOMAIN answers' : \E k \in DOMAIN answers : answers'[i] = answers[k]
      BY <2>1, SequenceFacts DEF RequestTypeOK
    <2>3. QED
      BY <2>1, <2>2, NothingSent
  <1>10. ASSUME Reconnect \/ UNCHANGED requestVars PROVE Numbering'
    <2>1. /\ serial' = serial /\ next_request_id' = next_request_id
          /\ asked' = asked /\ answers' = answers /\ pc' = pc /\ caller' = caller
      BY <1>10 DEF Reconnect
    <2>2. QED
      BY <2>1, NothingSent
  <1>11. QED
    BY <1>1, <1>2, <1>3, <1>4, <1>5, <1>6, <1>7, <1>8, <1>9, <1>10
    DEF RequestNext, CallEnds, Quiet

-----------------------------------------------------------------------------
(* The answer of a call is its own.                                        *)

(* dispatch_message's test accepts nothing but the caller's answer.        *)
LEMMA MatchIsOwn ==
    ASSUME RequestTypeOK, Numbering, SlotIsCallers,
           NEW message \in Messages, Genuine(message), Matches(slot, message)
    PROVE  message.serial = caller.serial
  <1>1. /\ pc # "free" /\ slot.request_id = caller.id
        /\ message.id = 0 \/ message.id = caller.id
    BY DEF Matches, SlotIsCallers
  <1>2. /\ message.serial \in 1 .. MaxRequests /\ caller.serial \in 1 .. MaxRequests
        /\ Assigned(message.serial, message.id) /\ Assigned(caller.serial, caller.id)
        /\ message.id \in Nat
    BY <1>1, IdsAssumption DEF Genuine, Numbering, RequestTypeOK, Serials, Messages, Ids
  <1>3. message.id = caller.id
    BY <1>1, <1>2, IdDetermines
  <1>4. QED
    BY <1>2, <1>3, IdDetermines

(* Delivering a genuine message leaves a slot that speaks of the caller.   *)
LEMMA DeliverSlot ==
    ASSUME RequestTypeOK, Numbering, SlotIsCallers, Deliver
    PROVE  SlotIsCallers'
  <1> DEFINE message == Head(answers)
  <1>1. message \in Messages /\ Genuine(message)
    BY SequenceFacts DEF Deliver, RequestTypeOK, Numbering
  <1>2. pc' = pc /\ caller' = caller /\ slot \in CallSlots
    BY DEF Deliver, RequestTypeOK
  <1>3. CASE slot' = slot
    BY <1>2, <1>3 DEF SlotIsCallers
  <1>4. CASE slot' = Resolved(slot, message) /\ Matches(slot, message)
    <2>1. message.serial = caller.serial
      BY <1>1, <1>4, MatchIsOwn
    <2>2. slot' = [slot EXCEPT !.resolved = TRUE, !.response = message.serial] /\ slot.pending
      BY <1>4 DEF Resolved, Matches
    <2>3. /\ slot'.pending /\ slot'.request_id = slot.request_id
          /\ slot'.expected = slot.expected /\ slot'.response = caller.serial
      BY <1>2, <2>1, <2>2 DEF CallSlots
    <2>4. QED
      BY <1>2, <2>2, <2>3 DEF SlotIsCallers
  <1>5. QED
    BY <1>3, <1>4 DEF Deliver, Resolved

(* Every step keeps the slot about the caller.                             *)
LEMMA NextSlot ==
    ASSUME RequestTypeOK, Numbering, SlotIsCallers, [RequestNext]_requestVars
    PROVE  SlotIsCallers'
  <1> USE DEF requestVars, wire
  <1>0. slot \in CallSlots
    BY DEF RequestTypeOK
  <1>1. ~Released(slot).pending /\ ~Released(slot).resolved
    BY <1>0 DEF Released, CallSlots
  <1>2. ASSUME slot' = Released(slot) PROVE SlotIsCallers'
    BY <1>1, <1>2 DEF SlotIsCallers
  <1>3. ASSUME slot' = slot, pc' = pc \/ (pc # "free" /\ pc' # "free"), caller' = caller
        PROVE  SlotIsCallers'
    BY <1>3 DEF SlotIsCallers
  <1>4. ASSUME NEW kind, CallOffline(kind) PROVE SlotIsCallers'
    BY <1>4, <1>2, <1>3 DEF CallOffline, Refused
  <1>5. ASSUME NEW kind, Call(kind) PROVE SlotIsCallers'
    BY <1>5 DEF Call, SlotIsCallers
  <1>6. ASSUME NEW kind, CallUnsent(kind) PROVE SlotIsCallers'
    <2>1. ~slot'.pending /\ ~slot'.resolved
      BY <1>0, <1>6 DEF CallUnsent, Released, CallSlots
    <2>2. QED
      BY <2>1 DEF SlotIsCallers
  <1>7. ASSUME NEW kind, SendUnawaited(kind) \/ SendForgotten PROVE SlotIsCallers'
    BY <1>7, <1>3 DEF SendUnawaited, SendForgotten
  <1>8. ASSUME Deliver PROVE SlotIsCallers'
    BY <1>8, DeliverSlot
  <1>9. ASSUME Timeout \/ Broken \/ Finish PROVE SlotIsCallers'
    BY <1>9, <1>2 DEF Timeout, Broken, Finish
  <1>10. ASSUME Answered PROVE SlotIsCallers'
    BY <1>10, <1>3 DEF Answered
  <1>11. ASSUME DeliverEvent \/ Snapshot PROVE SlotIsCallers'
    BY <1>11, <1>2, <1>3 DEF DeliverEvent, Snapshot, Refused
  <1>12. ASSUME GatewayAnswers \/ ConnectionDrops \/ Reconnect \/ UNCHANGED requestVars
         PROVE  SlotIsCallers'
    BY <1>12, <1>3 DEF GatewayAnswers, ConnectionDrops, Reconnect
  <1>13. QED
    BY <1>4, <1>5, <1>6, <1>7, <1>8, <1>9, <1>10, <1>11, <1>12 DEF RequestNext, CallEnds, Quiet

(* Every step keeps the answers with their calls.                          *)
LEMMA NextOwnAnswer ==
    ASSUME RequestTypeOK, SlotIsCallers, OwnAnswer, [RequestNext]_requestVars
    PROVE  OwnAnswer'
  <1> USE DEF requestVars, wire
  <1>1. ASSUME result' = result PROVE OwnAnswer'
    BY <1>1 DEF OwnAnswer
  <1>2. ASSUME result'.status # "OK" PROVE OwnAnswer'
    BY <1>2 DEF OwnAnswer
  <1>3. ASSUME Answered PROVE OwnAnswer'
    <2>1. slot.response = caller.serial
      BY <1>3 DEF Answered, SlotIsCallers
    <2>2. result'.answer = slot.response /\ result'.serial = caller.serial
      BY <1>3 DEF Answered, Returns
    <2>3. QED
      BY <2>1, <2>2 DEF OwnAnswer
  <1>4. ASSUME NEW kind, CallOffline(kind) \/ CallUnsent(kind) PROVE result'.status # "OK"
    BY <1>4 DEF CallOffline, CallUnsent
  <1>5. ASSUME Timeout \/ Broken PROVE result'.status # "OK"
    BY <1>5 DEF Timeout, Broken, Returns
  <1>6. ASSUME NEW kind, Call(kind) \/ SendUnawaited(kind) PROVE result' = result
    BY <1>6 DEF Call, SendUnawaited
  <1>7. ASSUME SendForgotten \/ Deliver \/ DeliverEvent \/ Snapshot \/ Finish \/ GatewayAnswers
               \/ ConnectionDrops \/ Reconnect \/ UNCHANGED requestVars
        PROVE  result' = result
    BY <1>7 DEF SendForgotten, Deliver, DeliverEvent, Snapshot, Finish, GatewayAnswers,
                ConnectionDrops, Reconnect
  <1>8. QED
    BY <1>1, <1>2, <1>3, <1>4, <1>5, <1>6, <1>7 DEF RequestNext, CallEnds, Quiet

(* The initial states.                                                     *)
LEMMA InitInductive == RequestInit => Inductive
  <1> SUFFICES ASSUME RequestInit PROVE Inductive
    OBVIOUS
  <1>1. RequestTypeOK
    BY InitTypes
  <1>2. Numbering
    BY IdsAssumption DEF RequestInit, Numbering, Assigned
  <1>3. SlotIsCallers /\ OwnAnswer
    BY DEF RequestInit, SlotIsCallers, OwnAnswer
  <1>4. QED
    BY <1>1, <1>2, <1>3 DEF Inductive

(* Whatever ids have wrapped, whichever calls gave up before, and whatever *)
(* requests handlers try in between: a call that returns OK returns the    *)
(* answer to its own request, if the gateway echoes request ids.           *)
THEOREM RequestsOwnAnswer ==
    ASSUME Numbered = TRUE
    PROVE  RequestSpec => []OwnAnswer
  <1>1. Inductive /\ [RequestNext]_requestVars => Inductive'
    BY NextTypes, NextNumbering, NextSlot, NextOwnAnswer DEF Inductive
  <1>2. Inductive => OwnAnswer
    BY DEF Inductive
  <1>3. QED
    BY <1>1, <1>2, InitInductive, PTL DEF RequestSpec

-----------------------------------------------------------------------------
(* The slot of the call under way, when the requests that handlers try are *)
(* of the kinds that leave a refused slot alone.                           *)

Gentle == NestedKinds \cap FinishesAlways = {}

(* A refused request of a gentle kind changes nothing.                     *)
LEMMA RefusedGently ==
    ASSUME Gentle, NEW kind \in NestedKinds
    PROVE  Refused(kind, slot) = slot
  BY DEF Gentle, Refused

(* A released slot is nobody's.                                            *)
LEMMA ReleasedIsFree ==
    ASSUME RequestTypeOK
    PROVE  /\ ~Released(slot).pending /\ ~Released(slot).resolved /\ Released(slot).response = 0
  BY DEF RequestTypeOK, Released, CallSlots

(* A delivery leaves the slot as it is, or resolves it for its call.       *)
LEMMA DeliverKeeps ==
    ASSUME RequestTypeOK, Numbering, SlotFollowsCall, Deliver
    PROVE  SlotFollowsCall'
  <1> DEFINE message == Head(answers)
  <1>1. message \in Messages /\ message.serial # 0
    BY SequenceFacts DEF Deliver, RequestTypeOK, Numbering, Genuine
  <1>2. slot' = Resolved(slot, message) /\ pc' = pc /\ caller' = caller
    BY DEF Deliver
  <1>3. CASE ~Matches(slot, message)
    BY <1>2, <1>3 DEF Resolved, SlotFollowsCall
  <1>4. CASE Matches(slot, message)
    <2>1. /\ slot'.pending = slot.pending /\ slot'.resolved /\ slot'.response = message.serial
          /\ slot'.request_id = slot.request_id /\ slot'.expected = slot.expected
      BY <1>2, <1>4 DEF Resolved, RequestTypeOK, CallSlots
    <2>2. slot.pending
      BY <1>4 DEF Matches
    <2>3. QED
      BY <1>1, <1>2, <2>1, <2>2 DEF SlotFollowsCall
  <1>5. QED
    BY <1>3, <1>4

(* Every step keeps the slot with its call.                                *)
LEMMA NextKeeps ==
    ASSUME RequestTypeOK, Numbering, SlotFollowsCall, Gentle, [RequestNext]_requestVars
    PROVE  SlotFollowsCall'
  <1> USE DEF requestVars, wire
  <1>1. ASSUME slot' = slot, pc' = pc \/ (pc # "free" /\ pc' # "free"), caller' = caller
        PROVE  SlotFollowsCall'
    BY <1>1 DEF SlotFollowsCall
  <1>2. ASSUME ~slot'.pending, ~slot'.resolved, slot'.response = 0, pc' = "free"
        PROVE  SlotFollowsCall'
    BY <1>2 DEF SlotFollowsCall
  <1>3. ASSUME NEW kind, CallOffline(kind) PROVE SlotFollowsCall'
    <2>1. slot' = slot \/ slot' = Released(slot)
      BY <1>3 DEF CallOffline, Refused
    <2>2. ~slot'.pending /\ ~slot'.resolved /\ slot'.response = 0
      BY <1>3, <2>1, ReleasedIsFree DEF CallOffline, SlotFollowsCall
    <2>3. pc' = "free"
      BY <1>3 DEF CallOffline
    <2>4. QED
      BY <1>2, <2>2, <2>3
  <1>4. ASSUME NEW kind, Call(kind) PROVE SlotFollowsCall'
    BY <1>4 DEF Call, SlotFollowsCall
  <1>5. ASSUME NEW kind, CallUnsent(kind) PROVE SlotFollowsCall'
    <2>1. ~slot'.pending /\ ~slot'.resolved /\ slot'.response = 0
      BY <1>5 DEF CallUnsent, Released, RequestTypeOK, CallSlots
    <2>2. pc' = "free"
      BY <1>5 DEF CallUnsent
    <2>3. QED
      BY <1>2, <2>1, <2>2
  <1>6. ASSUME NEW kind, SendUnawaited(kind) \/ SendForgotten PROVE SlotFollowsCall'
    BY <1>6, <1>1 DEF SendUnawaited, SendForgotten
  <1>7. ASSUME Deliver PROVE SlotFollowsCall'
    BY <1>7, DeliverKeeps
  <1>8. ASSUME Timeout \/ Broken \/ Finish PROVE SlotFollowsCall'
    <2>1. slot' = Released(slot) /\ pc' = "free"
      BY <1>8 DEF Timeout, Broken, Finish
    <2>2. QED
      BY <1>2, <2>1, ReleasedIsFree
  <1>9. ASSUME Answered PROVE SlotFollowsCall'
    BY <1>9, <1>1 DEF Answered
  <1>10. ASSUME DeliverEvent \/ Snapshot PROVE SlotFollowsCall'
    BY <1>10, <1>1, RefusedGently DEF DeliverEvent, Snapshot
  <1>11. ASSUME GatewayAnswers \/ ConnectionDrops \/ Reconnect \/ UNCHANGED requestVars
         PROVE  SlotFollowsCall'
    BY <1>11, <1>1 DEF GatewayAnswers, ConnectionDrops, Reconnect
  <1>12. QED
    BY <1>3, <1>4, <1>5, <1>6, <1>7, <1>8, <1>9, <1>10, <1>11 DEF RequestNext, CallEnds, Quiet

(* No way out of evergram_call leaves the slot behind, and none takes it   *)
(* from a call under way.                                                  *)
THEOREM RequestsSlotFollowsCall ==
    ASSUME Numbered = TRUE, Gentle
    PROVE  RequestSpec => []SlotFollowsCall
  <1> DEFINE I == RequestTypeOK /\ Numbering /\ SlotFollowsCall
  <1>1. RequestInit => I
    BY InitInductive DEF RequestInit, Inductive, SlotFollowsCall
  <1>2. I /\ [RequestNext]_requestVars => I'
    BY NextTypes, NextNumbering, NextKeeps
  <1>3. QED
    BY <1>1, <1>2, PTL DEF RequestSpec
=============================================================================
