------------------------------ MODULE Session ------------------------------
(***************************************************************************)
(* The life of one connection of an Evergram bot: the websocket transport  *)
(* (transport.c), the client's connection state machine and handshake      *)
(* (client.c, handshake.c, parser.c) and the bot's reconnection schedule   *)
(* (bot.c), driven by the loop of evergram_bot_run.                        *)
(*                                                                         *)
(* The program is one thread.  pc is where that thread is:                 *)
(*                                                                         *)
(*   start -> poll -> lws -> dispatch -> nickname -> action -> poll ...    *)
(*                     ^        |           |          |                   *)
(*                     |        v           v          v                   *)
(*                     +----- slice <-------- (blocking calls)             *)
(*                                                                         *)
(* "lws" is the inside of lws_service, where the library calls back;       *)
(* "dispatch" the loop of transport_service that hands queued frames to    *)
(* the parser; "slice" the loop of evergram_call.  The library, the        *)
(* network and the gateway are the environment: link, toClient, toGateway, *)
(* registered and accepted are theirs.  Everything the environment may do  *)
(* to hurt is one of faults.kinds, chosen at the start from FaultSets, and *)
(* is drawn from the budget faults.left.                                   *)
(***************************************************************************)
EXTENDS Naturals, Sequences

CONSTANTS
    FaultSets,   \* the sets of faults, one of which the environment may show
    MaxFaults    \* bound: how many faults in one behaviour

FaultKinds == {"connect_refused", "connect_error", "drop", "late_frames",
               "cut_frame", "write_error", "reject", "revoke"}

ASSUME FaultsAssumption == FaultSets \subseteq SUBSET FaultKinds
ASSUME BoundsAssumption == MaxFaults \in Nat

VARIABLES
    pc, caller,                  \* the thread, and who runs transport_service
    link, toClient, toGateway,   \* library and network: socket state, bytes in flight
    registered, accepted,        \* gateway: device known; auth accepted on this link
    faults,                      \* which faults may happen, and how many more
    open, socket,                \* transport_t.open, transport_t.socket # NULL
    frames, partial,             \* transport_t.rx: complete frames, unfinished one
    client, challenge,           \* evergram_t.state, .challenge (and whose it is)
    online, next_attempt, attempts, nickname_applied, should_stop  \* evergram_bot_t

netVars       == <<link, toClient, toGateway, registered, accepted, faults>>
transportVars == <<open, socket, frames, partial>>
clientVars    == <<client, challenge>>
retryVars     == <<online, next_attempt, attempts>>
botVars       == <<retryVars, nickname_applied, should_stop>>
loopVars      == <<pc, caller>>
vars == <<loopVars, netVars, transportVars, clientVars, botVars>>

MessageKinds == {"challenge", "auth_ok", "auth_unregistered", "auth_rejected",
                 "register_ok", "register_rejected", "device_error"}
RequestKinds == {"auth", "stale_auth", "register"}

(* A received frame.  old: its connection has closed since.  whole: FALSE  *)
(* when bytes of an earlier connection stand in front of the message.      *)
Frames == [kind : MessageKinds, old : BOOLEAN, whole : BOOLEAN]

FaultBudgets == [kinds : FaultSets, left : 0 .. MaxFaults]

CountersOK == faults \in FaultBudgets /\ attempts \in Nat

QueuesOK ==
    /\ toClient \in Seq(MessageKinds)
    /\ toGateway \in Seq(RequestKinds)
    /\ frames \in Seq(Frames)

FlagsOK ==
    /\ registered \in BOOLEAN /\ accepted \in BOOLEAN
    /\ open \in BOOLEAN /\ socket \in BOOLEAN
    /\ online \in BOOLEAN /\ nickname_applied \in BOOLEAN /\ should_stop \in BOOLEAN

StatesOK ==
    /\ pc \in {"start", "poll", "lws", "dispatch", "slice", "nickname", "action", "exited"}
    /\ caller \in {"poll", "nickname", "action"}
    /\ link \in {"down", "connecting", "up", "broken"}
    /\ partial \in {"none", "fresh", "stale"}
    /\ client \in {"IDLE", "CONNECTING", "AWAITING_CHALLENGE", "AWAITING_AUTH",
                   "REGISTERING", "AUTHENTICATED"}
    /\ challenge \in {"none", "fresh", "stale"}
    /\ next_attempt \in {"none", "waiting", "due"}

TypeOK == CountersOK /\ QueuesOK /\ FlagsOK /\ StatesOK

Init ==
    /\ pc = "start" /\ caller = "poll"
    /\ link = "down" /\ toClient = <<>> /\ toGateway = <<>>
    /\ registered \in BOOLEAN /\ accepted = FALSE
    /\ faults \in [kinds : FaultSets, left : {MaxFaults}]
    /\ open = FALSE /\ socket = FALSE
    /\ frames = <<>> /\ partial = "none"
    /\ client = "IDLE" /\ challenge = "none"
    /\ online = FALSE /\ next_attempt = "none" /\ attempts = 0
    /\ nickname_applied = FALSE /\ should_stop = FALSE

(* The environment spends one fault of its budget.                         *)
Fault(kind) ==
    /\ kind \in faults.kinds /\ faults.left > 0
    /\ faults' = [faults EXCEPT !.left = @ - 1]

-----------------------------------------------------------------------------
(* Definitions named Bug... are not part of the specification: each is the *)
(* definition below it with a plausible mistake, and shows that some       *)
(* property notices.                                                       *)

(* The reconnection schedule: a counted attempt and a backoff delay.  An   *)
(* attempt is counted for a fault, so that the budget bounds the count far *)
(* below the width of the C unsigned.                                      *)
ScheduleAttempt == attempts' = attempts + 1 /\ next_attempt' = "waiting"

(* transport_connect.  A non-NULL socket means a connection is under way   *)
(* or up, and nothing is started.                                          *)
TransportConnect(status) ==
    IF open \/ socket
    THEN status = "OK" /\ UNCHANGED <<socket, link, faults>>
    ELSE \/ /\ status = "OK"
            /\ socket' = TRUE
            /\ link' = "connecting"
            /\ UNCHANGED faults
         \/ /\ status = "ERR_TRANSPORT"
            /\ Fault("connect_refused")
            /\ UNCHANGED <<socket, link>>

(* evergram_start.                                                         *)
ClientStart(status) ==
    /\ IF client # "IDLE"
       THEN /\ status = "ERR_STATE"
            /\ UNCHANGED <<client, socket, link, faults>>
       ELSE /\ TransportConnect(status)
            /\ client' = IF status = "OK" THEN "CONNECTING" ELSE "IDLE"
    /\ UNCHANGED <<toClient, toGateway, registered, accepted, open, frames, partial, challenge>>

StartResults == {"OK", "ERR_STATE", "ERR_TRANSPORT"}

BugBotStartGivesUp ==
    /\ pc = "start"
    /\ \E status \in StartResults : ClientStart(status)
    /\ pc' = "poll"
    /\ UNCHANGED <<caller, botVars>>

(* evergram_bot_start, as evergram_bot_run calls it before its loop.       *)
BotStart ==
    /\ pc = "start"
    /\ \E status \in StartResults :
          /\ ClientStart(status)
          /\ IF status = "OK" THEN UNCHANGED <<attempts, next_attempt>> ELSE ScheduleAttempt
    /\ pc' = "poll"
    /\ UNCHANGED <<caller, online, nickname_applied, should_stop>>

BugReconnectCountsTwice ==
    /\ pc = "poll" /\ ~should_stop
    /\ next_attempt = "due" /\ client # "AUTHENTICATED"
    /\ \E status \in StartResults :
          /\ ClientStart(status)
          /\ attempts' = attempts + 1
          /\ next_attempt' = IF status = "OK" THEN "none" ELSE "waiting"
    /\ pc' = "lws" /\ caller' = "poll"
    /\ UNCHANGED <<online, nickname_applied, should_stop>>

(* maybe_reconnect at the head of evergram_bot_poll, when it tries.        *)
Reconnect ==
    /\ pc = "poll" /\ ~should_stop
    /\ next_attempt = "due" /\ client # "AUTHENTICATED"
    /\ \E status \in StartResults :
          /\ ClientStart(status)
          /\ IF status = "OK"
             THEN next_attempt' = "none" /\ UNCHANGED attempts
             ELSE ScheduleAttempt
    /\ pc' = "lws" /\ caller' = "poll"
    /\ UNCHANGED <<online, nickname_applied, should_stop>>

(* ... and when it has nothing to try: evergram_poll follows either way.   *)
NoReconnect ==
    /\ pc = "poll" /\ ~should_stop
    /\ next_attempt # "due" \/ client = "AUTHENTICATED"
    /\ pc' = "lws" /\ caller' = "poll"
    /\ UNCHANGED <<netVars, transportVars, clientVars, botVars>>

(* The loop of evergram_bot_run ends once should_stop is seen.             *)
BotExit ==
    /\ pc = "poll" /\ should_stop
    /\ pc' = "exited"
    /\ UNCHANGED <<caller, netVars, transportVars, clientVars, botVars>>

(* evergram_bot_stop: from a handler or a signal, so at any moment.        *)
BotStop ==
    /\ ~should_stop
    /\ should_stop' = TRUE
    /\ UNCHANGED <<loopVars, netVars, transportVars, clientVars, retryVars, nickname_applied>>

(* evergram_now_ms() reaches next_attempt_ms.                              *)
BackoffElapses ==
    /\ next_attempt = "waiting"
    /\ next_attempt' = "due"
    /\ UNCHANGED <<loopVars, netVars, transportVars, clientVars, online, attempts,
                   nickname_applied, should_stop>>

-----------------------------------------------------------------------------
(* lws_service: the callbacks of transport_callback.                       *)

LwsEstablished ==
    /\ pc = "lws" /\ link = "connecting"
    /\ link' = "up"
    /\ open' = TRUE
    /\ client' = "AWAITING_CHALLENGE"
    /\ toClient' = <<"challenge">> /\ toGateway' = <<>> /\ accepted' = FALSE
    /\ UNCHANGED <<loopVars, registered, faults, socket, frames, partial, challenge, botVars>>

(* LWS_CALLBACK_CLIENT_CONNECTION_ERROR: open is cleared and on_error      *)
(* called; neither the socket pointer nor the client's state changes.      *)
LwsConnectionError ==
    /\ pc = "lws" /\ link = "connecting"
    /\ Fault("connect_error")
    /\ link' = "down"
    /\ open' = FALSE
    /\ UNCHANGED <<loopVars, toClient, toGateway, registered, accepted,
                   socket, frames, partial, clientVars, botVars>>

(* LWS_CALLBACK_CLIENT_RECEIVE of a fragment that is not the last.  It     *)
(* matters only if the connection can then close on the unfinished frame.  *)
LwsFragment ==
    /\ "cut_frame" \in faults.kinds
    /\ pc = "lws" /\ link = "up"
    /\ toClient # <<>> /\ partial = "none"
    /\ partial' = "fresh"
    /\ UNCHANGED <<loopVars, netVars, open, socket, frames, clientVars, botVars>>

(* LWS_CALLBACK_CLIENT_RECEIVE of a final fragment: the frame ends, and    *)
(* whatever was in the buffer before it is part of it.                     *)
LwsReceive ==
    /\ pc = "lws" /\ link = "up"
    /\ toClient # <<>>
    /\ frames' = Append(frames, [kind |-> Head(toClient), old |-> FALSE,
                                 whole |-> partial # "stale"])
    /\ partial' = "none"
    /\ toClient' = Tail(toClient)
    /\ UNCHANGED <<loopVars, link, toGateway, registered, accepted, faults,
                   open, socket, clientVars, botVars>>

BugOnDisconnectedOnce ==
    /\ online' = FALSE
    /\ IF ~should_stop /\ attempts = 0
       THEN ScheduleAttempt
       ELSE UNCHANGED <<attempts, next_attempt>>

(* bot_on_disconnected.                                                    *)
OnDisconnected ==
    /\ online' = FALSE
    /\ IF ~should_stop /\ next_attempt = "none"
       THEN ScheduleAttempt
       ELSE UNCHANGED <<attempts, next_attempt>>

(* on_transport_closed.                                                    *)
OnTransportClosed == client' = "IDLE" /\ challenge' = "none"

(* LWS_CALLBACK_CLOSED, with on_transport_closed and bot_on_disconnected.  *)
(* The receive queue is left as it is: its frames and its unfinished frame *)
(* are from now on those of an earlier connection.                         *)
LwsClosed ==
    /\ pc = "lws" /\ link \in {"up", "broken"}
    /\ frames # <<>> => "late_frames" \in faults.kinds
    /\ IF link = "up" THEN Fault("drop") ELSE UNCHANGED faults
    /\ link' = "down" /\ toClient' = <<>> /\ toGateway' = <<>>
    /\ open' = FALSE /\ socket' = FALSE
    /\ frames' = [i \in DOMAIN frames |-> [frames[i] EXCEPT !.old = TRUE]]
    /\ partial' = IF partial = "fresh" THEN "stale" ELSE partial
    /\ OnTransportClosed
    /\ OnDisconnected
    /\ UNCHANGED <<loopVars, registered, accepted, nickname_applied, should_stop>>

LwsReturns ==
    /\ pc = "lws"
    /\ pc' = "dispatch"
    /\ UNCHANGED <<caller, netVars, transportVars, clientVars, botVars>>

-----------------------------------------------------------------------------
(* The gateway, as the handshake in src/ uses it (external).               *)

GatewaySays(message) == toClient' = Append(toClient, message)

Rejection(request) == IF request = "register" THEN "register_rejected" ELSE "auth_rejected"

GatewayAnswers ==
    /\ link = "up" /\ toGateway # <<>>
    /\ toGateway' = Tail(toGateway)
    /\ LET request == Head(toGateway) IN
       \/ /\ request = "auth" /\ registered
          /\ GatewaySays("auth_ok") /\ accepted' = TRUE
          /\ UNCHANGED <<registered, faults>>
       \/ /\ request = "auth" /\ ~registered
          /\ GatewaySays("auth_unregistered")
          /\ UNCHANGED <<registered, accepted, faults>>
       \/ /\ request = "register"
          /\ GatewaySays("register_ok") /\ registered' = TRUE
          /\ UNCHANGED <<accepted, faults>>
       \/ /\ request = "stale_auth"
          /\ GatewaySays("auth_rejected")
          /\ UNCHANGED <<registered, accepted, faults>>
       \/ /\ request \in {"auth", "register"}
          /\ Fault("reject")
          /\ GatewaySays(Rejection(request))
          /\ UNCHANGED <<registered, accepted>>
    /\ UNCHANGED <<loopVars, link, transportVars, clientVars, botVars>>

(* The gateway forgets the device and says so, unasked.                    *)
GatewayRevokes ==
    /\ link = "up" /\ registered
    /\ Fault("revoke")
    /\ registered' = FALSE
    /\ GatewaySays("device_error")
    /\ UNCHANGED <<loopVars, link, toGateway, accepted, transportVars, clientVars, botVars>>

-----------------------------------------------------------------------------
(* transport_send.  A write that fails leaves a socket the library closes. *)

CanSend == open /\ socket /\ link = "up"

WriteBreaks == CanSend /\ Fault("write_error") /\ link' = "broken"

Sends(request) ==
    /\ CanSend
    /\ toGateway' = Append(toGateway, request)
    /\ UNCHANGED <<link, faults>>

SendFails ==
    /\ UNCHANGED toGateway
    /\ WriteBreaks \/ (~CanSend /\ UNCHANGED <<link, faults>>)

(* A request whose answer this module does not follow.                     *)
SendsElse == UNCHANGED <<link, faults>> \/ WriteBreaks

BugSendAuthRegardless(c) ==
    /\ c # "none"
    /\ Sends(IF c = "fresh" THEN "auth" ELSE "stale_auth") \/ SendFails
    /\ client' = "AWAITING_AUTH"

(* handshake_send_auth with the challenge c now stored.                    *)
SendAuth(c) ==
    \/ /\ c # "none"
       /\ Sends(IF c = "fresh" THEN "auth" ELSE "stale_auth")
       /\ client' = "AWAITING_AUTH"
    \/ /\ c # "none"
       /\ SendFails
       /\ UNCHANGED client
    \/ /\ c = "none"
       /\ UNCHANGED <<client, toGateway, link, faults>>

(* handshake_send_register_device.                                         *)
SendRegisterDevice ==
    \/ Sends("register") /\ client' = "REGISTERING"
    \/ SendFails /\ UNCHANGED client

-----------------------------------------------------------------------------
(* The parser's handlers of the messages the connection depends on.        *)

HandleAuthChallenge(frame) ==
    /\ challenge' = IF frame.old THEN "stale" ELSE "fresh"
    /\ SendAuth(challenge')
    /\ UNCHANGED <<retryVars, nickname_applied>>

BugOnConnectedKeepsAttempts ==
    /\ online' = TRUE
    /\ next_attempt' = "none"
    /\ nickname_applied' = FALSE
    /\ UNCHANGED attempts

(* bot_on_connected.                                                       *)
OnConnected ==
    /\ online' = TRUE
    /\ attempts' = 0
    /\ next_attempt' = "none"
    /\ nickname_applied' = FALSE

(* handle_auth_response, ok: the state changes whatever it was, the chat   *)
(* sync and the room claims are sent with their result ignored, and the    *)
(* bot is told.                                                            *)
HandleAuthOk ==
    /\ client' = "AUTHENTICATED"
    /\ SendsElse
    /\ OnConnected
    /\ UNCHANGED <<challenge, toGateway>>

(* handle_auth_response (device_not_registered) and handle_error.          *)
HandleDeviceUnknown ==
    /\ SendRegisterDevice
    /\ UNCHANGED <<challenge, retryVars, nickname_applied>>

(* evergram_emit_error: nothing but the callback.                          *)
HandleRejection ==
    UNCHANGED <<client, challenge, toGateway, link, faults, retryVars, nickname_applied>>

BugHandleRegisterOkWaits == HandleRejection

BugHandleRegisterOkConnects == HandleAuthOk

(* handle_register_device_response, ok: the same challenge is answered.    *)
HandleRegisterOk ==
    /\ SendAuth(challenge)
    /\ UNCHANGED <<challenge, retryVars, nickname_applied>>

Handle(frame) ==
    \/ frame.kind = "challenge" /\ HandleAuthChallenge(frame)
    \/ frame.kind = "auth_ok" /\ HandleAuthOk
    \/ frame.kind \in {"auth_unregistered", "device_error"} /\ HandleDeviceUnknown
    \/ frame.kind = "register_ok" /\ HandleRegisterOk
    \/ frame.kind \in {"auth_rejected", "register_rejected"} /\ HandleRejection
    \/ ~frame.whole /\ HandleRejection   \* the bytes do not parse

(* One turn of the delivery loop of transport_service.                     *)
Dispatch ==
    /\ pc = "dispatch" /\ frames # <<>>
    /\ Handle(Head(frames))
    /\ frames' = Tail(frames)
    /\ UNCHANGED <<loopVars, toClient, registered, accepted, open, socket, partial, should_stop>>

BugServiceReturnsEarly ==
    /\ pc = "dispatch"
    /\ pc' = IF caller = "poll" THEN "nickname" ELSE "slice"
    /\ UNCHANGED <<caller, netVars, transportVars, clientVars, botVars>>

(* transport_service returns once every queued frame has been delivered.   *)
ServiceReturns ==
    /\ pc = "dispatch" /\ frames = <<>>
    /\ pc' = IF caller = "poll" THEN "nickname" ELSE "slice"
    /\ UNCHANGED <<caller, netVars, transportVars, clientVars, botVars>>

-----------------------------------------------------------------------------
(* The rest of evergram_bot_poll: blocking calls outside any callback.     *)

AfterCall(who) == IF who = "nickname" THEN "action" ELSE "poll"

(* evergram_call up to its loop: the request is written, or it fails.      *)
CallStarts(who) ==
    /\ client = "AUTHENTICATED"
    /\ \/ /\ CanSend
          /\ pc' = "lws" /\ caller' = who
          /\ UNCHANGED <<link, faults>>
       \/ /\ WriteBreaks \/ (~CanSend /\ UNCHANGED <<link, faults>>)
          /\ pc' = AfterCall(who) /\ UNCHANGED caller

ApplyNickname ==
    /\ pc = "nickname" /\ ~nickname_applied
    /\ nickname_applied' = TRUE
    /\ CallStarts("nickname")
    /\ UNCHANGED <<toClient, toGateway, registered, accepted, transportVars, clientVars,
                   retryVars, should_stop>>

SkipNickname ==
    /\ pc = "nickname"
    /\ nickname_applied \/ client # "AUTHENTICATED"
    /\ pc' = "action"
    /\ UNCHANGED <<caller, netVars, transportVars, clientVars, botVars>>

(* drain_actions: whether an action is queued is left open here.           *)
DrainAction ==
    /\ pc = "action"
    /\ CallStarts("action")
    /\ UNCHANGED <<toClient, toGateway, registered, accepted, transportVars, clientVars, botVars>>

NoAction ==
    /\ pc = "action"
    /\ pc' = "poll"
    /\ UNCHANGED <<caller, netVars, transportVars, clientVars, botVars>>

(* evergram_call services the transport again ...                          *)
CallSlice ==
    /\ pc = "slice"
    /\ pc' = "lws"
    /\ UNCHANGED <<caller, netVars, transportVars, clientVars, botVars>>

(* ... until the answer or the deadline.                                   *)
CallReturns ==
    /\ pc = "slice"
    /\ pc' = AfterCall(caller)
    /\ UNCHANGED <<caller, netVars, transportVars, clientVars, botVars>>

-----------------------------------------------------------------------------
Loop == BotStart \/ Reconnect \/ NoReconnect \/ BotExit
Library == LwsEstablished \/ LwsConnectionError \/ LwsFragment \/ LwsReceive \/ LwsClosed
Deliver == LwsReturns \/ Dispatch \/ ServiceReturns
Work == ApplyNickname \/ SkipNickname \/ DrainAction \/ NoAction \/ CallSlice \/ CallReturns
Gateway == GatewayAnswers \/ GatewayRevokes

Exited == pc = "exited" /\ UNCHANGED vars

Next == Loop \/ BotStop \/ BackoffElapses \/ Library \/ Deliver \/ Work \/ Gateway \/ Exited

Spec == Init /\ [][Next]_vars

(* The loop keeps running, calls meet their deadline, clocks advance, and  *)
(* the library and the gateway do in the end what they have been asked:    *)
(* a connection attempt has an outcome, a broken socket is closed, and a   *)
(* message on a live connection is delivered and answered.                 *)
Fairness ==
    /\ WF_vars(Loop) /\ WF_vars(Deliver) /\ WF_vars(Work) /\ SF_vars(CallReturns)
    /\ WF_vars(BackoffElapses)
    /\ SF_vars(LwsEstablished \/ LwsConnectionError)
    /\ SF_vars(LwsReceive)
    /\ SF_vars(LwsClosed /\ link = "broken")
    /\ WF_vars(GatewayAnswers)

FairSpec == Spec /\ Fairness

-----------------------------------------------------------------------------
(* Properties.                                                             *)

(* Serving: authenticated over a connection that is still open.            *)
Serving == client = "AUTHENTICATED" /\ open

(* A client with no connection and no attempt under way (IDLE) has a       *)
(* reconnection scheduled, and a scheduled reconnection belongs to an IDLE *)
(* client: bot_start, maybe_reconnect and bot_on_disconnected leave no     *)
(* path on which the bot merely waits (bot.c).                             *)
IdleIffScheduled ==
    /\ next_attempt # "none" => client = "IDLE"
    /\ client = "IDLE" /\ pc # "start" /\ ~should_stop => next_attempt # "none"

(* Frames that outlive their connection in the receive queue are handed    *)
(* out before any later connection is up, so none of them is answered on   *)
(* it (transport_service drains what lws_service queued).                  *)
NoFrameCrossesConnections ==
    \A i \in DOMAIN frames : frames[i].old => link = "down"

(* An AUTHENTICATED client with an open transport was accepted by the      *)
(* gateway on this very connection (on_transport_open restarts the         *)
(* handshake; handle_auth_response accepts in any state).                  *)
AuthenticatedHere == Serving => accepted

(* bot_on_connected cancels the schedule: a bot that is online carries no  *)
(* attempt over, so no reconnect is fired into a live session.             *)
OnlineCarriesNoRetry == online => next_attempt = "none" /\ attempts = 0

(* A client in the middle of the handshake has an open connection to finish*)
(* it on: a state set for a request that was not written, by a handler of  *)
(* a frame that outlived its connection say, would be left by nothing.     *)
HandshakeNeedsConnection ==
    client \in {"AWAITING_CHALLENGE", "AWAITING_AUTH", "REGISTERING"} => open

(* Each failure is counted once: what the backoff is computed from (bot.c  *)
(* counts in three places) never exceeds the faults that have happened,    *)
(* so no delay is longer than the outage calls for.                        *)
EachFailureCountedOnce == attempts + faults.left <= MaxFaults

(* The three states the loop does not leave by itself.                     *)
RefusedForGood == client = "CONNECTING" /\ link = "down"
LateAuthentication == client = "AUTHENTICATED" /\ ~open
HandshakeLost ==
    /\ link = "up" /\ client # "AUTHENTICATED"
    /\ toClient = <<>> /\ toGateway = <<>> /\ frames = <<>>

(* Whatever the faults, an outage ends in service or in one of those three *)
(* states: there is no fourth way for the bot to stay away (bot.c,         *)
(* transport.c, client.c together).                                        *)
OutageEndsOrIsKnown ==
    ~Serving ~> (Serving \/ should_stop \/ RefusedForGood \/ LateAuthentication \/ HandshakeLost)

(* When connections may only be refused at once, drop, break on a write,   *)
(* or see the device revoked, every outage ends in service or in a stop.   *)
OutageEnds ==
    /\ ~Serving
    /\ faults.kinds \subseteq {"connect_refused", "drop", "write_error", "revoke"}
    ~> Serving \/ should_stop

(* bot.h on evergram_bot_start: "Later reconnects are automatic."  A       *)
(* scheduled reconnection ends in service or in a stop.                    *)
ReconnectsAutomatically == next_attempt # "none" ~> (Serving \/ should_stop)

(* bot.h, evergram_bot_is_online: "True between authentication and the     *)
(* next disconnection."                                                    *)
OnlineUntilDisconnection == online => open
=============================================================================
