------------------------------ MODULE Requests ------------------------------
(***************************************************************************)
(* Synchronous requests: evergram_call and its one slot (client.c), the    *)
(* matching of answers at the end of dispatch_message (parser.c), and the  *)
(* wrappers of client.c that each make one request.                        *)
(*                                                                         *)
(* A call sends, then pumps the transport until the slot is resolved or    *)
(* the deadline has passed; everything the transport delivers meanwhile is *)
(* dispatched as usual, user handlers included.  The gateway may answer    *)
(* late, after the call has given up, or never.                            *)
(*                                                                         *)
(* serial numbers the messages sent, in the model only: the program knows  *)
(* a request by request_id, which wraps around and skips 0.                *)
(***************************************************************************)
EXTENDS Naturals, Sequences

CONSTANTS
    Kinds,         \* the requests made between polls
    NestedKinds,   \* the requests a handler tries to make during a call
    Numbered,      \* whether the gateway echoes the request id
    IdMax,         \* the largest request id: 2^32 - 1 in the code
    FirstId,       \* next_request_id when the behaviour starts
    MaxRequests    \* bound: messages sent in one behaviour

(* The wrappers, by what they do with the slot when evergram_call fails.   *)
ChatKinds       == {"create_chat", "leave_chat"}
MemberKinds     == {"add_participant", "remove_participant", "set_chat_mode"}
RoleKinds       == {"update_chat_roles", "deny_join_request"}
InviteKinds     == {"generate_invite_link", "revoke_invite_link"}
JoinKinds       == {"resolve_invite", "request_join"}
BlockKinds      == {"block_identity", "unblock_identity"}
ProfileKinds    == {"get_profile", "change_profile"}
RotateKinds     == {"rotate_chat_version"}
ReportKinds     == {"report_user"}
PurchaseKinds   == {"initiate_purchase", "verify_purchase", "claim_pro"}
WidgetKinds     == {"create_widget", "list_widgets", "update_widget"}
WidgetMoreKinds == {"update_widget_config", "delete_widget", "get_widget_info"}
DecisionKinds   == {"accept_chat_request", "decline_chat_request",
                    "accept_group_invite", "decline_group_invite"}
RoomKinds       == {"create_visitor_room"}
ChannelKinds    == {"subscribe_public_channel", "moderate_channel"}

FinishesOnSuccess == ChatKinds \cup MemberKinds \cup RoleKinds \cup InviteKinds \cup JoinKinds
                     \cup BlockKinds \cup ProfileKinds \cup RotateKinds \cup ReportKinds
FinishesAlways == PurchaseKinds \cup WidgetKinds \cup WidgetMoreKinds \cup DecisionKinds
                  \cup RoomKinds \cup ChannelKinds

AllKinds == FinishesOnSuccess \cup FinishesAlways

(* Those that call handlers while they still read the response.            *)
SnapshotKinds == RoomKinds \cup ChannelKinds

(* Answered to whoever dispatches the answer: nobody waits for it.         *)
UnawaitedKinds == {"query_chats"}

ASSUME KindsAssumption == Kinds \subseteq AllKinds /\ NestedKinds \subseteq AllKinds
ASSUME NumberedAssumption == Numbered \in BOOLEAN
ASSUME IdsAssumption ==
    /\ IdMax \in Nat /\ FirstId \in 0 .. IdMax
    /\ MaxRequests \in 1 .. IdMax      \* no answer is outstanding for a whole round of ids

VARIABLES
    connected,        \* evergram_t.state = AUTHENTICATED
    next_request_id,  \* evergram_t
    slot,             \* evergram_t.call
    pc,               \* "free", "calling" (evergram_call's loop), "reading" (the wrapper)
    caller,           \* the request of the call under way: kind, id, serial
    seen,             \* whether its answer has been dispatched
    result,           \* what the last call returned
    serial,           \* messages sent so far
    asked,            \* messages the gateway has not answered
    answers           \* answers on their way, in order

requestVars ==
    <<connected, next_request_id, slot, pc, caller, seen, result, serial, asked, answers>>
wire == <<connected, next_request_id, serial, asked>>

Serials  == 0 .. MaxRequests
Ids      == 0 .. IdMax
Messages == [serial : Serials, id : Ids, kind : AllKinds \cup UnawaitedKinds]
CallSlots == [pending : BOOLEAN, resolved : BOOLEAN, response : Serials,
              request_id : Ids, expected : AllKinds \cup {"none"}]
Statuses == {"none", "OK", "ERR_NOT_CONNECTED", "ERR_TRANSPORT", "ERR_TIMEOUT"}
Results  == [status : Statuses, serial : Serials, answer : Serials, seen : BOOLEAN]

RequestTypeOK ==
    /\ connected \in BOOLEAN
    /\ next_request_id \in Ids
    /\ slot \in CallSlots
    /\ pc \in {"free", "calling", "reading"}
    /\ caller \in [serial : Serials, id : Ids, kind : AllKinds \cup {"none"}]
    /\ seen \in BOOLEAN
    /\ result \in Results
    /\ serial \in Serials
    /\ asked \subseteq Messages
    /\ answers \in Seq(Messages)

NoCaller == [serial |-> 0, id |-> 0, kind |-> "none"]

RequestInit ==
    /\ connected = TRUE
    /\ next_request_id = FirstId
    /\ slot = [pending |-> FALSE, resolved |-> FALSE, response |-> 0,
               request_id |-> 0, expected |-> "none"]
    /\ pc = "free" /\ caller = NoCaller /\ seen = FALSE
    /\ result = [status |-> "none", serial |-> 0, answer |-> 0, seen |-> FALSE]
    /\ serial = 0 /\ asked = {} /\ answers = <<>>

-----------------------------------------------------------------------------
BugNextId == IF next_request_id = IdMax THEN 0 ELSE next_request_id + 1
BugUnwrapped == next_request_id + 1

(* evergram_take_request_id: 32 bits, and 0 stays unset.                   *)
NextId == IF next_request_id = IdMax THEN 1 ELSE next_request_id + 1

(* call_release.                                                           *)
Released(s) == [s EXCEPT !.pending = FALSE, !.resolved = FALSE, !.response = 0]

(* What a wrapper leaves of slot s when evergram_call did not return OK.   *)
Refused(kind, s) == IF kind \in FinishesAlways THEN Released(s) ELSE s

Returns(status, answer) ==
    result' = [status |-> status, serial |-> caller.serial, answer |-> answer, seen |-> seen]

(* evergram_set_request_id with the next id.                               *)
Numbers ==
    /\ serial < MaxRequests
    /\ serial' = serial + 1
    /\ next_request_id' = NextId

(* A message leaves and will be answered.                                  *)
Sent(kind) ==
    /\ Numbers
    /\ asked' = asked \cup {[serial |-> serial + 1, id |-> NextId, kind |-> kind]}

(* evergram_call while the client is not authenticated.                    *)
CallOffline(kind) ==
    /\ pc = "free" /\ ~connected
    /\ slot' = Refused(kind, slot)
    /\ result' = [status |-> "ERR_NOT_CONNECTED", serial |-> 0, answer |-> 0, seen |-> FALSE]
    /\ UNCHANGED <<wire, pc, caller, seen, answers>>

(* evergram_call up to its loop.                                           *)
Call(kind) ==
    /\ pc = "free" /\ connected /\ ~slot.pending
    /\ Sent(kind)
    /\ slot' = [pending |-> TRUE, resolved |-> FALSE, response |-> 0,
                request_id |-> NextId, expected |-> kind]
    /\ caller' = [serial |-> serial + 1, id |-> NextId, kind |-> kind]
    /\ seen' = FALSE
    /\ pc' = "calling"
    /\ UNCHANGED <<connected, result, answers>>

(* evergram_call when the request cannot be written: the id is spent.      *)
CallUnsent(kind) ==
    /\ pc = "free" /\ connected /\ ~slot.pending
    /\ Numbers
    /\ slot' = Released([slot EXCEPT !.request_id = NextId, !.expected = kind])
    /\ result' = [status |-> "ERR_TRANSPORT", serial |-> serial + 1, answer |-> 0, seen |-> FALSE]
    /\ UNCHANGED <<connected, pc, caller, seen, asked, answers>>

(* evergram_sync_chats_page, from anywhere, handlers included.             *)
SendUnawaited(kind) ==
    /\ connected
    /\ Sent(kind)
    /\ UNCHANGED <<connected, slot, pc, caller, seen, result, answers>>

(* A message no answer carries back, or one that cannot be written: an     *)
(* envelope, watch_identities, the handshake of the next session.          *)
SendForgotten ==
    /\ Numbers
    /\ UNCHANGED <<connected, slot, pc, caller, seen, result, asked, answers>>

-----------------------------------------------------------------------------
BugMatches(s, message) ==
    /\ s.pending /\ ~s.resolved
    /\ message.kind = s.expected

(* The test at the end of dispatch_message.                                *)
Matches(s, message) ==
    /\ s.pending /\ ~s.resolved
    /\ message.kind = s.expected
    /\ message.id = 0 \/ message.id = s.request_id

Resolved(s, message) ==
    IF Matches(s, message) THEN [s EXCEPT !.resolved = TRUE, !.response = message.serial] ELSE s

(* One answer delivered, from evergram_poll or from evergram_call's own     *)
(* slices.                                                                 *)
Deliver ==
    /\ pc \in {"free", "calling"} /\ answers # <<>>
    /\ slot' = Resolved(slot, Head(answers))
    /\ seen' = (seen \/ (pc = "calling" /\ Head(answers).serial = caller.serial))
    /\ answers' = Tail(answers)
    /\ UNCHANGED <<wire, pc, caller, result>>

(* An event delivered during a call.  Its handler may try to make a request*)
(* of its own, which evergram_call refuses while the slot is pending.  (A  *)
(* refusal that released the slot would let the handler's next request go  *)
(* out from inside the call: that is not followed here.)                   *)
DeliverEvent ==
    /\ pc = "calling" /\ slot.pending
    /\ \E kind \in NestedKinds : slot' = Refused(kind, slot)
    /\ UNCHANGED <<wire, pc, caller, seen, result, answers>>

BugTimeout ==
    /\ pc = "calling" /\ ~slot.resolved
    /\ pc' = "free"
    /\ Returns("ERR_TIMEOUT", 0)
    /\ UNCHANGED <<wire, slot, caller, seen, answers>>

BugTimeoutOnline ==
    /\ pc = "calling" /\ ~slot.resolved /\ connected
    /\ slot' = Released(slot)
    /\ pc' = "free"
    /\ Returns("ERR_TIMEOUT", 0)
    /\ UNCHANGED <<wire, caller, seen, answers>>

(* The deadline passes before the slot is resolved.                        *)
Timeout ==
    /\ pc = "calling" /\ ~slot.resolved
    /\ slot' = Released(slot)
    /\ pc' = "free"
    /\ Returns("ERR_TIMEOUT", 0)
    /\ UNCHANGED <<wire, caller, seen, answers>>

(* transport_service fails under the loop.                                 *)
Broken ==
    /\ pc = "calling" /\ ~slot.resolved
    /\ slot' = Released(slot)
    /\ pc' = "free"
    /\ Returns("ERR_TRANSPORT", 0)
    /\ UNCHANGED <<wire, caller, seen, answers>>

(* evergram_call returns OK and the wrapper reads the response.            *)
Answered ==
    /\ pc = "calling" /\ slot.resolved
    /\ pc' = "reading"
    /\ Returns("OK", slot.response)
    /\ UNCHANGED <<wire, slot, caller, seen, answers>>

(* evergram_visitor_report_snapshot: handlers run while the wrapper still  *)
(* reads, and one of them may try to make a request.                       *)
Snapshot ==
    /\ pc = "reading" /\ caller.kind \in SnapshotKinds
    /\ \E kind \in NestedKinds : slot' = Refused(kind, slot)
    /\ UNCHANGED <<wire, pc, caller, seen, result, answers>>

(* evergram_call_finish at the end of the wrapper.                         *)
Finish ==
    /\ pc = "reading"
    /\ slot' = Released(slot)
    /\ pc' = "free"
    /\ UNCHANGED <<wire, caller, seen, result, answers>>

-----------------------------------------------------------------------------
(* The gateway and the network (external).                                 *)

GatewayAnswers ==
    \E message \in asked :
        /\ asked' = asked \ {message}
        /\ answers' = Append(answers, IF Numbered THEN message ELSE [message EXCEPT !.id = 0])
        /\ UNCHANGED <<connected, next_request_id, slot, pc, caller, seen, result, serial>>

(* The connection closes: what was not received yet is lost, and so are    *)
(* the requests on their way.  A call under way is not told.               *)
ConnectionDrops ==
    /\ connected
    /\ connected' = FALSE
    /\ asked' = {}
    /\ \E n \in 0 .. Len(answers) : answers' = SubSeq(answers, 1, n)
    /\ UNCHANGED <<next_request_id, slot, pc, caller, seen, result, serial>>

(* A later authentication.  Only the loop outside a call starts one, and   *)
(* only after every frame of the old connection has been delivered.        *)
Reconnect ==
    /\ ~connected /\ pc = "free" /\ answers = <<>>
    /\ connected' = TRUE
    /\ UNCHANGED <<next_request_id, slot, pc, caller, seen, result, serial, asked, answers>>

-----------------------------------------------------------------------------
(* Every request has been made and nothing is under way.                   *)
Quiet ==
    /\ pc = "free" /\ serial = MaxRequests /\ asked = {} /\ answers = <<>>
    /\ UNCHANGED requestVars

CallEnds == Timeout \/ Answered \/ Finish

RequestNext ==
    \/ \E kind \in Kinds : CallOffline(kind) \/ Call(kind) \/ CallUnsent(kind)
    \/ \E kind \in UnawaitedKinds : SendUnawaited(kind)
    \/ SendForgotten
    \/ Deliver \/ DeliverEvent \/ Broken \/ CallEnds \/ Snapshot
    \/ GatewayAnswers \/ ConnectionDrops \/ Reconnect
    \/ Quiet

RequestSpec == RequestInit /\ [][RequestNext]_requestVars

(* Time passes and the calling thread runs.                                *)
FairRequestSpec == RequestSpec /\ WF_requestVars(CallEnds)

-----------------------------------------------------------------------------
(* Properties.                                                             *)

(* A call that returns OK was given the answer to the very request it      *)
(* sent, whatever answers to earlier calls arrive late (dispatch_message's *)
(* test, evergram_take_request_id).                                        *)
OwnAnswer == result.status = "OK" => result.answer = result.serial

(* The slot is in use exactly while a call is under way, and describes it: *)
(* no way out of evergram_call leaves it behind to refuse every later call.*)
SlotFollowsCall ==
    /\ slot.pending <=> pc # "free"
    /\ slot.resolved => slot.pending
    /\ slot.response # 0 <=> slot.resolved
    /\ pc # "free" => slot.request_id = caller.id /\ slot.expected = caller.kind

(* internal.h of evergram_call: "Sends a request and pumps the transport   *)
(* until its response arrives."  A call that times out has not been handed *)
(* its response while it waited.                                           *)
TimeoutMeansUnanswered == result.status = "ERR_TIMEOUT" => ~result.seen

(* Every call returns, answered or not, connected or not.                  *)
CallsReturn == pc # "free" ~> pc = "free"
=============================================================================
