--------------------------- MODULE SessionProofs ---------------------------
(***************************************************************************)
(* Proofs about Session, for every FaultSets and MaxFaults that satisfy    *)
(* its assumptions.                                                        *)
(*                                                                         *)
(* The safety properties are not inductive by themselves.  What they rest  *)
(* on is named in Inductive: the loop has nothing queued outside           *)
(* transport_service, an IDLE client has no link, and an auth_ok that is   *)
(* under way was sent after an acceptance on the same link.  A second      *)
(* layer, Handshaking, is inductive relative to the first: the handshake's *)
(* need of a connection, and the count of failures, to which a broken link *)
(* adds the one that its closing will count.                               *)
(***************************************************************************)
EXTENDS Session, TLAPS

(* Before evergram_bot_start nothing has happened.                         *)
StartIsFresh ==
    pc = "start" => client = "IDLE" /\ next_attempt = "none" /\ ~online /\ link = "down"

(* transport_t.open is the library's view of the link.                     *)
OpenTracksLink == open <=> link \in {"up", "broken"}

IdleIsDown == client = "IDLE" => link = "down"

(* Frames are queued only inside transport_service ...                     *)
DrainedOutsideService == pc \notin {"lws", "dispatch"} => frames = <<>>

(* ... so none is left when a connection is being made.                    *)
ConnectingIsEmpty == link = "connecting" => frames = <<>>

AcceptanceUnderWay ==
    /\ \A i \in DOMAIN toClient : toClient[i] = "auth_ok" => accepted
    /\ \A i \in DOMAIN frames : frames[i].kind = "auth_ok" => frames[i].old \/ accepted

Inductive ==
    /\ TypeOK
    /\ StartIsFresh
    /\ OpenTracksLink
    /\ IdleIsDown
    /\ DrainedOutsideService
    /\ ConnectingIsEmpty
    /\ AcceptanceUnderWay
    /\ IdleIffScheduled
    /\ NoFrameCrossesConnections
    /\ AuthenticatedHere
    /\ OnlineCarriesNoRetry

-----------------------------------------------------------------------------
(* Sequences: what Head, Tail and Append keep of an element's place.       *)

(* What is left of a sequence after its head was in it before.             *)
LEMMA TailElements ==
    ASSUME NEW S, NEW s \in Seq(S), s # <<>>
    PROVE  /\ Head(s) \in S /\ 1 \in DOMAIN s /\ Head(s) = s[1]
           /\ Tail(s) \in Seq(S)
           /\ \A i \in DOMAIN Tail(s) : i + 1 \in DOMAIN s /\ Tail(s)[i] = s[i + 1]
  OBVIOUS

(* Appending adds one element and keeps the others.                        *)
LEMMA AppendElements ==
    ASSUME NEW S, NEW s \in Seq(S), NEW e \in S
    PROVE  /\ Append(s, e) \in Seq(S)
           /\ \A i \in DOMAIN Append(s, e) :
                 \/ i \in DOMAIN s /\ Append(s, e)[i] = s[i]
                 \/ Append(s, e)[i] = e
  OBVIOUS

-----------------------------------------------------------------------------
(* The initial states.                                                     *)
LEMMA InitInductive == Init => Inductive
  <1> SUFFICES ASSUME Init PROVE Inductive
    OBVIOUS
  <1>1. TypeOK
    <2>1. CountersOK
      BY BoundsAssumption DEF Init, CountersOK, FaultBudgets
    <2>2. QueuesOK
      BY DEF Init, QueuesOK
    <2>3. FlagsOK
      BY DEF Init, FlagsOK
    <2>4. StatesOK
      BY DEF Init, StatesOK
    <2>5. QED
      BY <2>1, <2>2, <2>3, <2>4 DEF TypeOK
  <1>2. StartIsFresh /\ OpenTracksLink /\ IdleIsDown /\ DrainedOutsideService /\ ConnectingIsEmpty
    BY DEF Init, StartIsFresh, OpenTracksLink, IdleIsDown, DrainedOutsideService, ConnectingIsEmpty
  <1>3. AcceptanceUnderWay /\ NoFrameCrossesConnections
    BY DEF Init, AcceptanceUnderWay, NoFrameCrossesConnections
  <1>4. IdleIffScheduled /\ AuthenticatedHere /\ OnlineCarriesNoRetry
    BY DEF Init, IdleIffScheduled, AuthenticatedHere, Serving, OnlineCarriesNoRetry
  <1>5. QED
    BY <1>1, <1>2, <1>3, <1>4 DEF Inductive

-----------------------------------------------------------------------------
(* The steps that start a connection, or do not.                           *)

(* A fault taken from the budget leaves a budget, smaller by one.          *)
LEMMA FaultCounts ==
    ASSUME CountersOK, NEW kind, Fault(kind)
    PROVE  faults' \in FaultBudgets /\ faults'.left = faults.left - 1
  BY BoundsAssumption DEF CountersOK, FaultBudgets, Fault

(* A scheduled attempt is counted, and its timer runs.                     *)
LEMMA ScheduleAttemptResult ==
    ASSUME CountersOK, ScheduleAttempt
    PROVE  attempts' \in Nat /\ next_attempt' = "waiting"
  BY DEF CountersOK, ScheduleAttempt

(* evergram_start from IDLE: the client is connecting, or IDLE again.      *)
LEMMA ClientStartResult ==
    ASSUME TypeOK, client = "IDLE", NEW status, ClientStart(status)
    PROVE  /\ status = "OK" => client' = "CONNECTING"
           /\ status # "OK" => client' = "IDLE" /\ link' = link
           /\ link' \in {link, "connecting"} /\ socket' \in BOOLEAN
           /\ faults' \in FaultBudgets
           /\ UNCHANGED <<toClient, toGateway, registered, accepted, open, frames, partial,
                          challenge>>
  <1>1. TransportConnect(status)
    BY DEF ClientStart
  <1>2. faults' \in FaultBudgets
    BY <1>1, FaultCounts DEF TypeOK, CountersOK, TransportConnect
  <1>3. QED
    BY <1>1, <1>2 DEF TypeOK, FlagsOK, StatesOK, ClientStart, TransportConnect

(* evergram_bot_start: the client is connecting, or idle with a timer.     *)
LEMMA BotStartInductive ==
    ASSUME Inductive, BotStart
    PROVE  Inductive'
  <1>1. TypeOK /\ pc = "start" /\ client = "IDLE" /\ next_attempt = "none" /\ ~online
        /\ link = "down" /\ frames = <<>> /\ ~open
    BY DEF Inductive, BotStart, StartIsFresh, DrainedOutsideService, OpenTracksLink
  <1>2. PICK status \in StartResults :
           /\ ClientStart(status)
           /\ IF status = "OK" THEN UNCHANGED <<attempts, next_attempt>> ELSE ScheduleAttempt
    BY DEF BotStart
  <1>3. /\ status = "OK" => client' = "CONNECTING" /\ next_attempt' = "none" /\ attempts' = attempts
        /\ status # "OK" => client' = "IDLE" /\ link' = "down" /\ next_attempt' = "waiting"
                            /\ attempts' \in Nat
        /\ link' \in {"down", "connecting"} /\ socket' \in BOOLEAN /\ faults' \in FaultBudgets
        /\ UNCHANGED <<toClient, toGateway, registered, accepted, open, frames, partial, challenge>>
    BY <1>1, <1>2, ClientStartResult, ScheduleAttemptResult DEF TypeOK
  <1>4. pc' = "poll" /\ UNCHANGED <<caller, online, nickname_applied, should_stop>>
    BY DEF BotStart
  <1>5. TypeOK'
    <2>1. CountersOK'
      BY <1>1, <1>3 DEF TypeOK, CountersOK
    <2>2. QueuesOK'
      BY <1>1, <1>3 DEF TypeOK, QueuesOK
    <2>3. FlagsOK'
      BY <1>1, <1>3, <1>4 DEF TypeOK, FlagsOK
    <2>4. StatesOK'
      BY <1>1, <1>3, <1>4 DEF TypeOK, StatesOK
    <2>5. QED
      BY <2>1, <2>2, <2>3, <2>4 DEF TypeOK
  <1>6. (StartIsFresh /\ OpenTracksLink /\ IdleIsDown /\ DrainedOutsideService /\ ConnectingIsEmpty)'
    BY <1>1, <1>3, <1>4
    DEF StartIsFresh, OpenTracksLink, IdleIsDown, DrainedOutsideService, ConnectingIsEmpty
  <1>7. (AcceptanceUnderWay /\ NoFrameCrossesConnections)'
    BY <1>1, <1>3, <1>4 DEF Inductive, AcceptanceUnderWay, NoFrameCrossesConnections
  <1>8. (IdleIffScheduled /\ AuthenticatedHere /\ OnlineCarriesNoRetry)'
    BY <1>1, <1>3, <1>4 DEF IdleIffScheduled, AuthenticatedHere, Serving, OnlineCarriesNoRetry
  <1>9. QED
    BY <1>5, <1>6, <1>7, <1>8 DEF Inductive

(* maybe_reconnect: the timer it clears is replaced or spent.              *)
LEMMA ReconnectInductive ==
    ASSUME Inductive, Reconnect
    PROVE  Inductive'
  <1>1. TypeOK /\ pc = "poll" /\ client = "IDLE" /\ next_attempt = "due" /\ ~online
        /\ link = "down" /\ frames = <<>> /\ ~open
    BY DEF Inductive, Reconnect, DrainedOutsideService, OpenTracksLink, IdleIffScheduled,
           OnlineCarriesNoRetry, IdleIsDown
  <1>2. PICK status \in StartResults :
           /\ ClientStart(status)
           /\ IF status = "OK"
              THEN next_attempt' = "none" /\ UNCHANGED attempts
              ELSE ScheduleAttempt
    BY DEF Reconnect
  <1>3. /\ status = "OK" => client' = "CONNECTING" /\ next_attempt' = "none" /\ attempts' = attempts
        /\ status # "OK" => client' = "IDLE" /\ link' = "down" /\ next_attempt' = "waiting"
                            /\ attempts' \in Nat
        /\ link' \in {"down", "connecting"} /\ socket' \in BOOLEAN /\ faults' \in FaultBudgets
        /\ UNCHANGED <<toClient, toGateway, registered, accepted, open, frames, partial, challenge>>
    BY <1>1, <1>2, ClientStartResult, ScheduleAttemptResult DEF TypeOK
  <1>4. pc' = "lws" /\ caller' = "poll" /\ UNCHANGED <<online, nickname_applied, should_stop>>
    BY DEF Reconnect
  <1>5. TypeOK'
    <2>1. CountersOK'
      BY <1>1, <1>3 DEF TypeOK, CountersOK
    <2>2. QueuesOK'
      BY <1>1, <1>3 DEF TypeOK, QueuesOK
    <2>3. FlagsOK'
      BY <1>1, <1>3, <1>4 DEF TypeOK, FlagsOK
    <2>4. StatesOK'
      BY <1>1, <1>3, <1>4 DEF TypeOK, StatesOK
    <2>5. QED
      BY <2>1, <2>2, <2>3, <2>4 DEF TypeOK
  <1>6. (StartIsFresh /\ OpenTracksLink /\ IdleIsDown /\ DrainedOutsideService /\ ConnectingIsEmpty)'
    BY <1>1, <1>3, <1>4
    DEF StartIsFresh, OpenTracksLink, IdleIsDown, DrainedOutsideService, ConnectingIsEmpty
  <1>7. (AcceptanceUnderWay /\ NoFrameCrossesConnections)'
    BY <1>1, <1>3, <1>4 DEF Inductive, AcceptanceUnderWay, NoFrameCrossesConnections
  <1>8. (IdleIffScheduled /\ AuthenticatedHere /\ OnlineCarriesNoRetry)'
    BY <1>1, <1>3, <1>4 DEF IdleIffScheduled, AuthenticatedHere, Serving, OnlineCarriesNoRetry
  <1>9. QED
    BY <1>5, <1>6, <1>7, <1>8 DEF Inductive

(* The steps that move the thread, and nothing else but should_stop.       *)
LEMMA QuietInductive ==
    ASSUME Inductive,
           \/ NoReconnect \/ BotExit \/ BotStop \/ LwsReturns \/ ServiceReturns
           \/ SkipNickname \/ NoAction \/ CallSlice \/ CallReturns
    PROVE  Inductive'
  <1>1. /\ UNCHANGED <<netVars, transportVars, clientVars, retryVars, nickname_applied>>
        /\ should_stop' \in BOOLEAN /\ (should_stop => should_stop')
        /\ caller' \in {"poll", "nickname", "action"}
        /\ pc' \in {"start", "poll", "lws", "dispatch", "slice", "nickname", "action", "exited"}
        /\ pc' = "start" => pc = "start"
        /\ pc = "start" => pc' = "start"
        /\ pc' \notin {"lws", "dispatch"} => frames = <<>>
    BY DEF Inductive, TypeOK, FlagsOK, StatesOK, DrainedOutsideService, NoReconnect, BotExit,
           BotStop, LwsReturns, ServiceReturns, SkipNickname, NoAction, CallSlice, CallReturns,
           AfterCall, loopVars, netVars, transportVars, clientVars, botVars, retryVars
  <1>2. TypeOK'
    <2>1. CountersOK'
      BY <1>1 DEF Inductive, TypeOK, CountersOK, netVars, retryVars
    <2>2. QueuesOK'
      BY <1>1 DEF Inductive, TypeOK, QueuesOK, netVars, transportVars
    <2>3. FlagsOK'
      BY <1>1 DEF Inductive, TypeOK, FlagsOK, netVars, transportVars, retryVars
    <2>4. StatesOK'
      BY <1>1 DEF Inductive, TypeOK, StatesOK, netVars, transportVars, clientVars, retryVars
    <2>5. QED
      BY <2>1, <2>2, <2>3, <2>4 DEF TypeOK
  <1>3. (StartIsFresh /\ OpenTracksLink /\ IdleIsDown /\ DrainedOutsideService /\ ConnectingIsEmpty)'
    BY <1>1
    DEF Inductive, StartIsFresh, OpenTracksLink, IdleIsDown, DrainedOutsideService,
        ConnectingIsEmpty, netVars, transportVars, clientVars, retryVars
  <1>4. (AcceptanceUnderWay /\ NoFrameCrossesConnections)'
    BY <1>1 DEF Inductive, AcceptanceUnderWay, NoFrameCrossesConnections, CanSend,
                netVars, transportVars
  <1>5. (IdleIffScheduled /\ AuthenticatedHere /\ OnlineCarriesNoRetry)'
    BY <1>1 DEF Inductive, IdleIffScheduled, AuthenticatedHere, Serving, OnlineCarriesNoRetry,
                netVars, transportVars, clientVars, retryVars
  <1>6. QED
    BY <1>2, <1>3, <1>4, <1>5 DEF Inductive

(* The timer that elapses stays scheduled until maybe_reconnect sees it.   *)
LEMMA BackoffInductive ==
    ASSUME Inductive, BackoffElapses
    PROVE  Inductive'
  <1>1. /\ UNCHANGED <<pc, caller, netVars, transportVars, clientVars, online, attempts,
                       nickname_applied, should_stop>>
        /\ next_attempt = "waiting" /\ next_attempt' = "due"
    BY DEF BackoffElapses, loopVars
  <1>2. TypeOK'
    BY <1>1 DEF Inductive, TypeOK, CountersOK, QueuesOK, FlagsOK, StatesOK, netVars,
                transportVars, clientVars
  <1>3. (StartIsFresh /\ OpenTracksLink /\ IdleIsDown /\ DrainedOutsideService /\ ConnectingIsEmpty)'
    BY <1>1
    DEF Inductive, StartIsFresh, OpenTracksLink, IdleIsDown, DrainedOutsideService,
        ConnectingIsEmpty, netVars, transportVars, clientVars
  <1>4. (AcceptanceUnderWay /\ NoFrameCrossesConnections)'
    BY <1>1 DEF Inductive, AcceptanceUnderWay, NoFrameCrossesConnections, netVars, transportVars
  <1>5. (IdleIffScheduled /\ AuthenticatedHere /\ OnlineCarriesNoRetry)'
    BY <1>1 DEF Inductive, IdleIffScheduled, AuthenticatedHere, Serving, OnlineCarriesNoRetry,
                netVars, transportVars, clientVars
  <1>6. QED
    BY <1>2, <1>3, <1>4, <1>5 DEF Inductive

-----------------------------------------------------------------------------
(* The callbacks of lws_service.                                           *)

(* A new connection starts unaccepted and finds no frame of an earlier one.*)
LEMMA EstablishedInductive ==
    ASSUME Inductive, LwsEstablished
    PROVE  Inductive'
  <1>1. /\ pc = "lws" /\ link = "connecting" /\ link' = "up" /\ open' = TRUE
        /\ client' = "AWAITING_CHALLENGE" /\ toClient' = <<"challenge">> /\ toGateway' = <<>>
        /\ accepted' = FALSE
        /\ UNCHANGED <<pc, caller, registered, faults, socket, frames, partial, challenge, online,
                       next_attempt, attempts, nickname_applied, should_stop>>
    BY DEF LwsEstablished, loopVars, botVars, retryVars
  <1>2. frames = <<>> /\ next_attempt = "none"
    BY <1>1 DEF Inductive, ConnectingIsEmpty, IdleIffScheduled, IdleIsDown
  <1>3. TypeOK'
    <2>1. CountersOK'
      BY <1>1 DEF Inductive, TypeOK, CountersOK
    <2>2. QueuesOK'
      BY <1>1 DEF Inductive, TypeOK, QueuesOK, MessageKinds
    <2>3. FlagsOK'
      BY <1>1 DEF Inductive, TypeOK, FlagsOK
    <2>4. StatesOK'
      BY <1>1 DEF Inductive, TypeOK, StatesOK
    <2>5. QED
      BY <2>1, <2>2, <2>3, <2>4 DEF TypeOK
  <1>4. (StartIsFresh /\ OpenTracksLink /\ IdleIsDown /\ DrainedOutsideService /\ ConnectingIsEmpty)'
    BY <1>1
    DEF StartIsFresh, OpenTracksLink, IdleIsDown, DrainedOutsideService, ConnectingIsEmpty
  <1>5. (AcceptanceUnderWay /\ NoFrameCrossesConnections)'
    BY <1>1, <1>2 DEF AcceptanceUnderWay, NoFrameCrossesConnections
  <1>6. (IdleIffScheduled /\ AuthenticatedHere /\ OnlineCarriesNoRetry)'
    BY <1>1, <1>2 DEF Inductive, IdleIffScheduled, AuthenticatedHere, Serving, OnlineCarriesNoRetry
  <1>7. QED
    BY <1>3, <1>4, <1>5, <1>6 DEF Inductive

(* A failed attempt changes nothing the invariant speaks of but the link.  *)
LEMMA ConnectionErrorInductive ==
    ASSUME Inductive, LwsConnectionError
    PROVE  Inductive'
  <1>1. /\ pc = "lws" /\ link = "connecting" /\ link' = "down" /\ open' = FALSE
        /\ UNCHANGED <<pc, caller, toClient, toGateway, registered, accepted, socket, frames,
                       partial, client, challenge, online, next_attempt, attempts,
                       nickname_applied, should_stop>>
    BY DEF LwsConnectionError, loopVars, clientVars, botVars, retryVars
  <1>2. client # "IDLE"
    BY <1>1 DEF Inductive, IdleIsDown
  <1>3. TypeOK'
    <2>1. CountersOK'
      BY <1>1, FaultCounts DEF Inductive, TypeOK, CountersOK, LwsConnectionError
    <2>2. QueuesOK'
      BY <1>1 DEF Inductive, TypeOK, QueuesOK
    <2>3. FlagsOK'
      BY <1>1 DEF Inductive, TypeOK, FlagsOK
    <2>4. StatesOK'
      BY <1>1 DEF Inductive, TypeOK, StatesOK
    <2>5. QED
      BY <2>1, <2>2, <2>3, <2>4 DEF TypeOK
  <1>4. (StartIsFresh /\ OpenTracksLink /\ IdleIsDown /\ DrainedOutsideService /\ ConnectingIsEmpty)'
    BY <1>1, <1>2
    DEF StartIsFresh, OpenTracksLink, IdleIsDown, DrainedOutsideService, ConnectingIsEmpty
  <1>5. (AcceptanceUnderWay /\ NoFrameCrossesConnections)'
    BY <1>1 DEF Inductive, AcceptanceUnderWay, NoFrameCrossesConnections
  <1>6. (IdleIffScheduled /\ AuthenticatedHere /\ OnlineCarriesNoRetry)'
    BY <1>1 DEF Inductive, IdleIffScheduled, AuthenticatedHere, Serving, OnlineCarriesNoRetry
  <1>7. QED
    BY <1>3, <1>4, <1>5, <1>6 DEF Inductive

(* A fragment that is not the last only opens an unfinished frame.         *)
LEMMA FragmentInductive ==
    ASSUME Inductive, LwsFragment
    PROVE  Inductive'
  <1>1. /\ pc = "lws" /\ partial' = "fresh"
        /\ UNCHANGED <<pc, caller, link, toClient, toGateway, registered, accepted, faults, open,
                       socket, frames, client, challenge, online, next_attempt, attempts,
                       nickname_applied, should_stop>>
    BY DEF LwsFragment, loopVars, netVars, clientVars, botVars, retryVars
  <1>2. TypeOK'
    <2>1. CountersOK'
      BY <1>1 DEF Inductive, TypeOK, CountersOK
    <2>2. QueuesOK'
      BY <1>1 DEF Inductive, TypeOK, QueuesOK
    <2>3. FlagsOK'
      BY <1>1 DEF Inductive, TypeOK, FlagsOK
    <2>4. StatesOK'
      BY <1>1 DEF Inductive, TypeOK, StatesOK
    <2>5. QED
      BY <2>1, <2>2, <2>3, <2>4 DEF TypeOK
  <1>3. (StartIsFresh /\ OpenTracksLink /\ IdleIsDown /\ DrainedOutsideService /\ ConnectingIsEmpty)'
    BY <1>1
    DEF Inductive, StartIsFresh, OpenTracksLink, IdleIsDown, DrainedOutsideService,
        ConnectingIsEmpty
  <1>4. (AcceptanceUnderWay /\ NoFrameCrossesConnections)'
    BY <1>1 DEF Inductive, AcceptanceUnderWay, NoFrameCrossesConnections
  <1>5. (IdleIffScheduled /\ AuthenticatedHere /\ OnlineCarriesNoRetry)'
    BY <1>1 DEF Inductive, IdleIffScheduled, AuthenticatedHere, Serving, OnlineCarriesNoRetry
  <1>6. QED
    BY <1>2, <1>3, <1>4, <1>5 DEF Inductive

(* A received frame belongs to the connection that is up.                  *)
LEMMA ReceiveInductive ==
    ASSUME Inductive, LwsReceive
    PROVE  Inductive'
  <1> DEFINE frame == [kind |-> Head(toClient), old |-> FALSE, whole |-> partial # "stale"]
  <1>1. /\ pc = "lws" /\ link = "up" /\ toClient # <<>>
        /\ frames' = Append(frames, frame) /\ partial' = "none" /\ toClient' = Tail(toClient)
        /\ UNCHANGED <<pc, caller, link, toGateway, registered, accepted, faults, open, socket,
                       client, challenge, online, next_attempt, attempts, nickname_applied,
                       should_stop>>
    BY DEF LwsReceive, loopVars, clientVars, botVars, retryVars
  <1>2. /\ toClient \in Seq(MessageKinds) /\ frames \in Seq(Frames)
        /\ frame \in Frames
    BY <1>1, TailElements DEF Inductive, TypeOK, QueuesOK, Frames
  <1> HIDE DEF frame
  <1>3. TypeOK'
    <2>1. CountersOK'
      BY <1>1 DEF Inductive, TypeOK, CountersOK
    <2>2. QueuesOK'
      BY <1>1, <1>2, TailElements, AppendElements DEF Inductive, TypeOK, QueuesOK
    <2>3. FlagsOK'
      BY <1>1 DEF Inductive, TypeOK, FlagsOK
    <2>4. StatesOK'
      BY <1>1 DEF Inductive, TypeOK, StatesOK
    <2>5. QED
      BY <2>1, <2>2, <2>3, <2>4 DEF TypeOK
  <1>4. (StartIsFresh /\ OpenTracksLink /\ IdleIsDown /\ DrainedOutsideService /\ ConnectingIsEmpty)'
    BY <1>1
    DEF Inductive, StartIsFresh, OpenTracksLink, IdleIsDown, DrainedOutsideService,
        ConnectingIsEmpty
  <1>5. AcceptanceUnderWay'
    <2>1. \A i \in DOMAIN Tail(toClient) : Tail(toClient)[i] = "auth_ok" => accepted
      BY <1>1, <1>2, TailElements DEF Inductive, AcceptanceUnderWay
    <2>2. frame.kind = "auth_ok" => accepted
      BY <1>1, <1>2, TailElements DEF Inductive, AcceptanceUnderWay, frame
    <2>3. \A i \in DOMAIN Append(frames, frame) :
             Append(frames, frame)[i].kind = "auth_ok" =>
                Append(frames, frame)[i].old \/ accepted
      BY <1>2, <2>2, AppendElements DEF Inductive, AcceptanceUnderWay
    <2>4. QED
      BY <1>1, <2>1, <2>3 DEF AcceptanceUnderWay
  <1>6. NoFrameCrossesConnections'
    <2>1. ~frame.old
      BY DEF frame
    <2>2. \A i \in DOMAIN Append(frames, frame) : ~Append(frames, frame)[i].old
      BY <1>1, <1>2, <2>1, AppendElements DEF Inductive, NoFrameCrossesConnections
    <2>3. QED
      BY <1>1, <2>2 DEF NoFrameCrossesConnections
  <1>7. (IdleIffScheduled /\ AuthenticatedHere /\ OnlineCarriesNoRetry)'
    BY <1>1 DEF Inductive, IdleIffScheduled, AuthenticatedHere, Serving, OnlineCarriesNoRetry
  <1>8. QED
    BY <1>3, <1>4, <1>5, <1>6, <1>7 DEF Inductive

(* A close leaves an idle client with a timer, and only old frames.        *)
LEMMA ClosedInductive ==
    ASSUME Inductive, LwsClosed
    PROVE  Inductive'
  <1> DEFINE aged == [i \in DOMAIN frames |-> [frames[i] EXCEPT !.old = TRUE]]
  <1>1. /\ pc = "lws" /\ link \in {"up", "broken"} /\ link' = "down"
        /\ toClient' = <<>> /\ toGateway' = <<>> /\ open' = FALSE /\ socket' = FALSE
        /\ frames' = aged /\ client' = "IDLE" /\ challenge' = "none" /\ online' = FALSE
        /\ partial' = IF partial = "fresh" THEN "stale" ELSE partial
        /\ UNCHANGED <<pc, caller, registered, accepted, nickname_applied, should_stop>>
    BY DEF LwsClosed, OnTransportClosed, OnDisconnected, loopVars
  <1>2. aged \in Seq(Frames) /\ \A i \in DOMAIN aged : aged[i].old
    <2>1. frames \in Seq(Frames)
      BY DEF Inductive, TypeOK, QueuesOK
    <2>2. \A i \in DOMAIN frames : frames[i] \in Frames
      BY <2>1
    <2>3. \A i \in DOMAIN frames : aged[i] \in Frames /\ aged[i].old
      BY <2>2 DEF Frames
    <2>4. QED
      BY <2>1, <2>3
  <1>3. /\ attempts' \in Nat /\ next_attempt' \in {"none", "waiting", "due"}
        /\ ~should_stop => next_attempt' # "none"
    BY ScheduleAttemptResult
    DEF LwsClosed, OnDisconnected, Inductive, TypeOK, CountersOK, StatesOK
  <1> HIDE DEF aged
  <1>4. TypeOK'
    <2>1. CountersOK'
      BY <1>3, FaultCounts DEF Inductive, TypeOK, CountersOK, LwsClosed
    <2>2. QueuesOK'
      BY <1>1, <1>2 DEF QueuesOK
    <2>3. FlagsOK'
      BY <1>1 DEF Inductive, TypeOK, FlagsOK
    <2>4. StatesOK'
      BY <1>1, <1>3 DEF Inductive, TypeOK, StatesOK
    <2>5. QED
      BY <2>1, <2>2, <2>3, <2>4 DEF TypeOK
  <1>5. (StartIsFresh /\ OpenTracksLink /\ IdleIsDown /\ DrainedOutsideService /\ ConnectingIsEmpty)'
    BY <1>1
    DEF Inductive, StartIsFresh, OpenTracksLink, IdleIsDown, DrainedOutsideService,
        ConnectingIsEmpty
  <1>6. (AcceptanceUnderWay /\ NoFrameCrossesConnections)'
    BY <1>1, <1>2 DEF AcceptanceUnderWay, NoFrameCrossesConnections
  <1>7. (IdleIffScheduled /\ AuthenticatedHere /\ OnlineCarriesNoRetry)'
    BY <1>1, <1>3 DEF Inductive, IdleIffScheduled, AuthenticatedHere, Serving, OnlineCarriesNoRetry
  <1>8. QED
    BY <1>4, <1>5, <1>6, <1>7 DEF Inductive

-----------------------------------------------------------------------------
(* The gateway.                                                            *)

(* The gateway accepts a connection before it says so.                     *)
LEMMA GatewayInductive ==
    ASSUME Inductive, Gateway
    PROVE  Inductive'
  <1>1. /\ link = "up"
        /\ UNCHANGED <<pc, caller, link, open, socket, frames, partial, client, challenge, online,
                       next_attempt, attempts, nickname_applied, should_stop>>
    BY DEF Gateway, GatewayAnswers, GatewayRevokes, loopVars, transportVars, clientVars,
           botVars, retryVars
  <1>2. PICK message \in MessageKinds :
           /\ toClient' = Append(toClient, message)
           /\ message = "auth_ok" => accepted'
    BY DEF Gateway, GatewayAnswers, GatewayRevokes, GatewaySays, Rejection, MessageKinds
  <1>3. /\ accepted' \in BOOLEAN /\ registered' \in BOOLEAN /\ (accepted => accepted')
    BY DEF Gateway, GatewayAnswers, GatewayRevokes, Inductive, TypeOK, FlagsOK
  <1>4. toClient \in Seq(MessageKinds) /\ toGateway \in Seq(RequestKinds)
    BY DEF Inductive, TypeOK, QueuesOK
  <1>5. toGateway' \in Seq(RequestKinds)
    BY <1>4, TailElements DEF Gateway, GatewayAnswers, GatewayRevokes
  <1>6. faults' \in FaultBudgets
    BY FaultCounts DEF Gateway, GatewayAnswers, GatewayRevokes, Inductive, TypeOK, CountersOK
  <1>7. TypeOK'
    <2>1. CountersOK'
      BY <1>1, <1>6 DEF Inductive, TypeOK, CountersOK
    <2>2. QueuesOK'
      BY <1>1, <1>2, <1>4, <1>5, AppendElements DEF Inductive, TypeOK, QueuesOK
    <2>3. FlagsOK'
      BY <1>1, <1>3 DEF Inductive, TypeOK, FlagsOK
    <2>4. StatesOK'
      BY <1>1 DEF Inductive, TypeOK, StatesOK
    <2>5. QED
      BY <2>1, <2>2, <2>3, <2>4 DEF TypeOK
  <1>8. (StartIsFresh /\ OpenTracksLink /\ IdleIsDown /\ DrainedOutsideService /\ ConnectingIsEmpty)'
    BY <1>1
    DEF Inductive, StartIsFresh, OpenTracksLink, IdleIsDown, DrainedOutsideService,
        ConnectingIsEmpty
  <1>9. AcceptanceUnderWay'
    BY <1>1, <1>2, <1>3, <1>4, AppendElements DEF Inductive, AcceptanceUnderWay
  <1>10. NoFrameCrossesConnections'
    BY <1>1 DEF Inductive, NoFrameCrossesConnections
  <1>11. (IdleIffScheduled /\ AuthenticatedHere /\ OnlineCarriesNoRetry)'
    BY <1>1, <1>3 DEF Inductive, IdleIffScheduled, AuthenticatedHere, Serving, OnlineCarriesNoRetry
  <1>12. QED
    BY <1>7, <1>8, <1>9, <1>10, <1>11 DEF Inductive

-----------------------------------------------------------------------------
(* Delivery.  What any handler may do, and what only an auth_ok does.      *)

(* handshake_send_auth leaves the client waiting, or as it was.            *)
LEMMA SendAuthResult ==
    ASSUME TypeOK, NEW c, SendAuth(c)
    PROVE  /\ client' \in {client, "AWAITING_AUTH"} /\ (client' # client => CanSend)
           /\ toGateway' \in Seq(RequestKinds)
           /\ link' = link \/ (link = "up" /\ link' = "broken")
           /\ faults' \in FaultBudgets
  <1>1. toGateway \in Seq(RequestKinds) /\ {"auth", "stale_auth"} \subseteq RequestKinds
    BY DEF TypeOK, QueuesOK, RequestKinds
  <1>2. toGateway' \in Seq(RequestKinds)
    BY <1>1, AppendElements DEF SendAuth, Sends, SendFails
  <1>3. faults' \in FaultBudgets
    BY FaultCounts DEF TypeOK, CountersOK, SendAuth, Sends, SendFails, WriteBreaks
  <1>4. QED
    BY <1>2, <1>3 DEF SendAuth, Sends, SendFails, WriteBreaks, CanSend

(* handshake_send_register_device: registering, or as it was.              *)
LEMMA SendRegisterDeviceResult ==
    ASSUME TypeOK, SendRegisterDevice
    PROVE  /\ client' \in {client, "REGISTERING"} /\ (client' # client => CanSend)
           /\ toGateway' \in Seq(RequestKinds)
           /\ link' = link \/ (link = "up" /\ link' = "broken")
           /\ faults' \in FaultBudgets
  <1>1. toGateway \in Seq(RequestKinds) /\ "register" \in RequestKinds
    BY DEF TypeOK, QueuesOK, RequestKinds
  <1>2. toGateway' \in Seq(RequestKinds)
    BY <1>1, AppendElements DEF SendRegisterDevice, Sends, SendFails
  <1>3. faults' \in FaultBudgets
    BY FaultCounts DEF TypeOK, CountersOK, SendRegisterDevice, Sends, SendFails, WriteBreaks
  <1>4. QED
    BY <1>2, <1>3 DEF SendRegisterDevice, Sends, SendFails, WriteBreaks, CanSend

(* An accepted auth leaves the client authenticated and the bot online.    *)
LEMMA HandleAuthOkResult ==
    ASSUME TypeOK, HandleAuthOk
    PROVE  /\ client' = "AUTHENTICATED" /\ online' = TRUE /\ attempts' = 0
           /\ next_attempt' = "none" /\ nickname_applied' = FALSE
           /\ UNCHANGED <<challenge, toGateway>>
           /\ link' = link \/ (link = "up" /\ link' = "broken")
           /\ faults' \in FaultBudgets
  <1>1. faults' \in FaultBudgets
    BY FaultCounts DEF TypeOK, CountersOK, HandleAuthOk, SendsElse, WriteBreaks
  <1>2. QED
    BY <1>1 DEF HandleAuthOk, SendsElse, WriteBreaks, CanSend, OnConnected

(* The handlers of every other message leave the bot alone, and change the *)
(* client's state only when they could send.                               *)
LEMMA HandleElseResult ==
    ASSUME TypeOK, NEW frame, Handle(frame),
           ~(frame.kind = "auth_ok" /\ HandleAuthOk)
    PROVE  /\ client' \in {client, "AWAITING_AUTH", "REGISTERING"} /\ (client' # client => CanSend)
           /\ challenge' \in {"none", "fresh", "stale"}
           /\ UNCHANGED <<online, next_attempt, attempts, nickname_applied>>
           /\ toGateway' \in Seq(RequestKinds)
           /\ link' = link \/ (link = "up" /\ link' = "broken")
           /\ faults' \in FaultBudgets
  <1>1. CASE HandleAuthChallenge(frame)
    BY <1>1, SendAuthResult DEF HandleAuthChallenge, retryVars
  <1>2. CASE HandleDeviceUnknown
    BY <1>2, SendRegisterDeviceResult DEF HandleDeviceUnknown, retryVars, TypeOK, StatesOK
  <1>3. CASE HandleRegisterOk
    BY <1>3, SendAuthResult DEF HandleRegisterOk, retryVars, TypeOK, StatesOK
  <1>4. CASE HandleRejection
    BY <1>4 DEF HandleRejection, retryVars, TypeOK, StatesOK, QueuesOK, CountersOK
  <1>5. QED
    BY <1>1, <1>2, <1>3, <1>4 DEF Handle

(* A delivered frame keeps the invariant, whichever handler takes it.      *)
LEMMA DispatchInductive ==
    ASSUME Inductive, Dispatch
    PROVE  Inductive'
  <1>1. /\ pc = "dispatch" /\ frames # <<>> /\ frames' = Tail(frames)
        /\ Handle(Head(frames))
        /\ UNCHANGED <<pc, caller, toClient, registered, accepted, open, socket, partial, should_stop>>
    BY DEF Dispatch, loopVars
  <1>2. frames \in Seq(Frames) /\ TypeOK
    BY DEF Inductive, TypeOK, QueuesOK
  <1>3. /\ frames' \in Seq(Frames)
        /\ \A i \in DOMAIN frames' : i + 1 \in DOMAIN frames /\ frames'[i] = frames[i + 1]
        /\ 1 \in DOMAIN frames /\ Head(frames) = frames[1]
    BY <1>1, <1>2, TailElements
  <1>4. /\ link' = link \/ (link = "up" /\ link' = "broken")
        /\ faults' \in FaultBudgets /\ toGateway' \in Seq(RequestKinds)
        /\ challenge' \in {"none", "fresh", "stale"}
    BY <1>1, <1>2, HandleAuthOkResult, HandleElseResult DEF TypeOK, QueuesOK, StatesOK
  <1>5. \/ /\ Head(frames).kind = "auth_ok"
           /\ client' = "AUTHENTICATED" /\ online' = TRUE /\ attempts' = 0
           /\ next_attempt' = "none" /\ nickname_applied' = FALSE
        \/ /\ client' \in {client, "AWAITING_AUTH", "REGISTERING"} /\ (client' # client => CanSend)
           /\ UNCHANGED <<online, next_attempt, attempts, nickname_applied>>
    <2>1. CASE Head(frames).kind = "auth_ok" /\ HandleAuthOk
      BY <1>2, <2>1, HandleAuthOkResult
    <2>2. CASE ~(Head(frames).kind = "auth_ok" /\ HandleAuthOk)
      BY <1>1, <1>2, <2>2, HandleElseResult
    <2>3. QED
      BY <2>1, <2>2
  <1>6. TypeOK'
    <2>1. CountersOK'
      BY <1>4, <1>5, BoundsAssumption DEF Inductive, TypeOK, CountersOK
    <2>2. QueuesOK'
      BY <1>1, <1>3, <1>4 DEF Inductive, TypeOK, QueuesOK
    <2>3. FlagsOK'
      BY <1>1, <1>5 DEF Inductive, TypeOK, FlagsOK
    <2>4. StatesOK'
      BY <1>1, <1>4, <1>5 DEF Inductive, TypeOK, StatesOK
    <2>5. QED
      BY <2>1, <2>2, <2>3, <2>4 DEF TypeOK
  <1>7. (StartIsFresh /\ OpenTracksLink /\ IdleIsDown /\ DrainedOutsideService /\ ConnectingIsEmpty)'
    BY <1>1, <1>4, <1>5
    DEF Inductive, StartIsFresh, OpenTracksLink, IdleIsDown, DrainedOutsideService,
        ConnectingIsEmpty, CanSend
  <1>8. AcceptanceUnderWay'
    BY <1>1, <1>3 DEF Inductive, AcceptanceUnderWay
  <1>9. NoFrameCrossesConnections'
    <2>1. \A i \in DOMAIN frames' : frames'[i].old => link = "down"
      BY <1>3 DEF Inductive, NoFrameCrossesConnections
    <2>2. QED
      BY <1>4, <2>1 DEF NoFrameCrossesConnections
  <1>10. AuthenticatedHere'
    <2>1. CASE client' = "AUTHENTICATED" /\ client # "AUTHENTICATED"
      <3>1. Head(frames).kind = "auth_ok"
        BY <1>5, <2>1
      <3>2. frames[1].old \/ accepted
        BY <1>3, <3>1 DEF Inductive, AcceptanceUnderWay
      <3>3. open => accepted
        BY <1>3, <3>2 DEF Inductive, NoFrameCrossesConnections, OpenTracksLink
      <3>4. QED
        BY <1>1, <3>3 DEF AuthenticatedHere, Serving
    <2>2. CASE ~(client' = "AUTHENTICATED" /\ client # "AUTHENTICATED")
      BY <1>1, <2>2 DEF Inductive, AuthenticatedHere, Serving
    <2>3. QED
      BY <2>1, <2>2
  <1>11. (IdleIffScheduled /\ OnlineCarriesNoRetry)'
    BY <1>1, <1>5 DEF Inductive, IdleIffScheduled, OnlineCarriesNoRetry, IdleIsDown, CanSend
  <1>12. QED
    BY <1>6, <1>7, <1>8, <1>9, <1>10, <1>11 DEF Inductive

-----------------------------------------------------------------------------
(* Blocking calls.                                                         *)

(* The blocking calls of a poll keep the invariant.                        *)
LEMMA CallInductive ==
    ASSUME Inductive, ApplyNickname \/ DrainAction
    PROVE  Inductive'
  <1>1. /\ pc \in {"nickname", "action"} /\ pc' \in {"lws", "action", "poll"}
        /\ caller' \in {caller, "nickname", "action"}
        /\ link' = link \/ (link = "up" /\ link' = "broken")
        /\ nickname_applied' \in {nickname_applied, TRUE}
        /\ UNCHANGED <<toClient, toGateway, registered, accepted, open, socket, frames, partial,
                       client, challenge, online, next_attempt, attempts, should_stop>>
    BY DEF ApplyNickname, DrainAction, CallStarts, WriteBreaks, CanSend, AfterCall,
           transportVars, clientVars, retryVars, botVars
  <1>2. faults' \in FaultBudgets
    BY FaultCounts DEF ApplyNickname, DrainAction, CallStarts, WriteBreaks, Inductive, TypeOK,
                       CountersOK
  <1>3. TypeOK'
    <2>1. CountersOK'
      BY <1>1, <1>2 DEF Inductive, TypeOK, CountersOK
    <2>2. QueuesOK'
      BY <1>1 DEF Inductive, TypeOK, QueuesOK
    <2>3. FlagsOK'
      BY <1>1 DEF Inductive, TypeOK, FlagsOK
    <2>4. StatesOK'
      BY <1>1 DEF Inductive, TypeOK, StatesOK
    <2>5. QED
      BY <2>1, <2>2, <2>3, <2>4 DEF TypeOK
  <1>4. (StartIsFresh /\ OpenTracksLink /\ IdleIsDown /\ DrainedOutsideService /\ ConnectingIsEmpty)'
    BY <1>1
    DEF Inductive, StartIsFresh, OpenTracksLink, IdleIsDown, DrainedOutsideService,
        ConnectingIsEmpty
  <1>5. (AcceptanceUnderWay /\ NoFrameCrossesConnections)'
    BY <1>1 DEF Inductive, AcceptanceUnderWay, NoFrameCrossesConnections
  <1>6. (IdleIffScheduled /\ AuthenticatedHere /\ OnlineCarriesNoRetry)'
    BY <1>1 DEF Inductive, IdleIffScheduled, AuthenticatedHere, Serving, OnlineCarriesNoRetry
  <1>7. QED
    BY <1>3, <1>4, <1>5, <1>6 DEF Inductive

-----------------------------------------------------------------------------
(* Every step keeps Inductive.                                             *)
LEMMA NextInductive == Inductive /\ [Next]_vars => Inductive'
  <1> SUFFICES ASSUME Inductive, [Next]_vars PROVE Inductive'
    OBVIOUS
  <1>1. CASE Loop
    BY <1>1, BotStartInductive, ReconnectInductive, QuietInductive DEF Loop
  <1>2. CASE BotStop
    BY <1>2, QuietInductive
  <1>3. CASE BackoffElapses
    BY <1>3, BackoffInductive
  <1>4. CASE Library
    BY <1>4, EstablishedInductive, ConnectionErrorInductive, FragmentInductive,
       ReceiveInductive, ClosedInductive DEF Library
  <1>5. CASE Deliver
    BY <1>5, DispatchInductive, QuietInductive DEF Deliver
  <1>6. CASE Work
    BY <1>6, CallInductive, QuietInductive DEF Work
  <1>7. CASE Gateway
    BY <1>7, GatewayInductive
  <1>8. CASE UNCHANGED vars
    <2>1. UNCHANGED <<pc, caller, link, toClient, toGateway, registered, accepted, faults, open,
                      socket, frames, partial, client, challenge, online, next_attempt, attempts,
                      nickname_applied, should_stop>>
      BY <1>8 DEF vars, loopVars, netVars, transportVars, clientVars, botVars, retryVars
    <2>2. (CountersOK /\ QueuesOK)'
      BY <2>1 DEF Inductive, TypeOK, CountersOK, QueuesOK
    <2>3. (FlagsOK /\ StatesOK)'
      BY <2>1 DEF Inductive, TypeOK, FlagsOK, StatesOK
    <2>4. (StartIsFresh /\ OpenTracksLink /\ IdleIsDown /\ DrainedOutsideService /\ ConnectingIsEmpty)'
      BY <2>1 DEF Inductive, StartIsFresh, OpenTracksLink, IdleIsDown, DrainedOutsideService,
                  ConnectingIsEmpty
    <2>5. (AcceptanceUnderWay /\ NoFrameCrossesConnections)'
      BY <2>1 DEF Inductive, AcceptanceUnderWay, NoFrameCrossesConnections
    <2>6. (IdleIffScheduled /\ AuthenticatedHere /\ OnlineCarriesNoRetry)'
      BY <2>1 DEF Inductive, IdleIffScheduled, AuthenticatedHere, Serving, OnlineCarriesNoRetry
    <2>7. QED
      BY <2>2, <2>3, <2>4, <2>5, <2>6 DEF Inductive, TypeOK
  <1>9. QED
    BY <1>1, <1>2, <1>3, <1>4, <1>5, <1>6, <1>7, <1>8 DEF Next, Exited

(* The inductive invariant holds in every reachable state.                 *)
LEMMA SpecInductive == Spec => []Inductive
  BY InitInductive, NextInductive, PTL DEF Spec

-----------------------------------------------------------------------------
(* The second layer: the handshake's connection, and the count.            *)

(* A link that broke will be closed, and its failure counted then.         *)
Uncounted == IF link = "broken" THEN 1 ELSE 0

FailuresCounted == attempts + faults.left + Uncounted <= MaxFaults

Handshaking == HandshakeNeedsConnection /\ FailuresCounted

(* Nothing has failed at the start.                                        *)
LEMMA InitHandshaking == Init => Handshaking
  BY BoundsAssumption
  DEF Init, Handshaking, HandshakeNeedsConnection, FailuresCounted, Uncounted

(* A start that fails has spent the fault that it counts.                  *)
LEMMA StartHandshaking ==
    ASSUME Inductive, Handshaking, BotStart \/ Reconnect
    PROVE  Handshaking'
  <1>1. TypeOK /\ client = "IDLE" /\ link = "down"
    BY DEF Inductive, BotStart, Reconnect, StartIsFresh, IdleIffScheduled, IdleIsDown
  <1>2. PICK status \in StartResults :
           /\ ClientStart(status)
           /\ IF status = "OK" THEN UNCHANGED attempts ELSE ScheduleAttempt
    BY DEF BotStart, Reconnect
  <1>3. TransportConnect(status)
    BY <1>1, <1>2 DEF ClientStart
  <1>4. CASE status = "OK"
    <2>1. client' = "CONNECTING" /\ attempts' = attempts /\ link' \in {"down", "connecting"}
      BY <1>1, <1>2, <1>4, ClientStartResult
    <2>2. UNCHANGED faults
      BY <1>3, <1>4 DEF TransportConnect
    <2>3. QED
      BY <1>1, <2>1, <2>2 DEF Handshaking, HandshakeNeedsConnection, FailuresCounted, Uncounted
  <1>5. CASE status # "OK"
    <2>1. Fault("connect_refused") /\ client' = "IDLE" /\ link' = "down"
      BY <1>1, <1>2, <1>3, <1>5, ClientStartResult DEF TransportConnect
    <2>2. faults'.left = faults.left - 1 /\ attempts' = attempts + 1
      BY <1>1, <1>2, <1>5, <2>1, FaultCounts DEF TypeOK, ScheduleAttempt
    <2>3. faults.left \in Nat /\ attempts \in Nat
      BY <1>1 DEF TypeOK, CountersOK, FaultBudgets
    <2>4. QED
      BY <1>1, <2>1, <2>2, <2>3
      DEF Handshaking, HandshakeNeedsConnection, FailuresCounted, Uncounted
  <1>6. QED
    BY <1>4, <1>5

(* A close counts the drop it is, or the broken link it follows.           *)
LEMMA ClosedHandshaking ==
    ASSUME Inductive, Handshaking, LwsClosed
    PROVE  Handshaking'
  <1>1. client' = "IDLE" /\ link' = "down" /\ attempts' \in {attempts, attempts + 1}
    BY DEF LwsClosed, OnTransportClosed, OnDisconnected, ScheduleAttempt
  <1>2. CountersOK /\ faults.left \in Nat /\ attempts \in Nat
    BY DEF Inductive, TypeOK, CountersOK, FaultBudgets
  <1>3. CASE link = "up"
    <2>1. faults'.left = faults.left - 1
      BY <1>2, <1>3, FaultCounts DEF LwsClosed
    <2>2. QED
      BY <1>1, <1>2, <1>3, <2>1, BoundsAssumption
      DEF Handshaking, HandshakeNeedsConnection, FailuresCounted, Uncounted
  <1>4. CASE link = "broken"
    <2>1. UNCHANGED faults
      BY <1>4 DEF LwsClosed
    <2>2. QED
      BY <1>1, <1>2, <1>4, <2>1, BoundsAssumption
      DEF Handshaking, HandshakeNeedsConnection, FailuresCounted, Uncounted
  <1>5. QED
    BY <1>3, <1>4 DEF LwsClosed

(* A write leaves the link alone, or spends a fault on breaking it.        *)
Writes ==
    \/ UNCHANGED <<link, faults>>
    \/ link = "up" /\ link' = "broken" /\ faults'.left = faults.left - 1

(* A delivered frame moves the client only over a connection.              *)
LEMMA DispatchHandshaking ==
    ASSUME Inductive, Handshaking, Dispatch
    PROVE  Handshaking'
  <1>1. TypeOK /\ CountersOK /\ faults.left \in Nat /\ attempts \in Nat
    BY DEF Inductive, TypeOK, CountersOK, FaultBudgets
  <1>2. Handle(Head(frames)) /\ UNCHANGED open
    BY DEF Dispatch
  <1>3. Writes /\ attempts' \in {0, attempts}
    BY <1>1, <1>2, FaultCounts
    DEF Writes, Handle, HandleAuthChallenge, HandleAuthOk, HandleDeviceUnknown, HandleRegisterOk,
        HandleRejection, SendAuth, SendRegisterDevice, Sends, SendFails, SendsElse, WriteBreaks,
        CanSend, OnConnected, retryVars
  <1>4. client' \in {client, "AUTHENTICATED"} \/ CanSend
    BY <1>1, <1>2, HandleAuthOkResult, HandleElseResult
  <1>5. HandshakeNeedsConnection'
    BY <1>2, <1>4 DEF Handshaking, HandshakeNeedsConnection, CanSend
  <1>6. FailuresCounted'
    BY <1>1, <1>3, BoundsAssumption DEF Handshaking, FailuresCounted, Uncounted, Writes
  <1>7. QED
    BY <1>5, <1>6 DEF Handshaking

(* The blocking calls write, and nothing else of what counts here.         *)
LEMMA CallHandshaking ==
    ASSUME Inductive, Handshaking, ApplyNickname \/ DrainAction
    PROVE  Handshaking'
  <1>1. TypeOK /\ CountersOK /\ faults.left \in Nat /\ attempts \in Nat
    BY DEF Inductive, TypeOK, CountersOK, FaultBudgets
  <1>2. Writes /\ UNCHANGED <<client, open, attempts>>
    BY <1>1, FaultCounts
    DEF Writes, ApplyNickname, DrainAction, CallStarts, WriteBreaks, CanSend, transportVars,
        clientVars, retryVars, botVars
  <1>3. QED
    BY <1>1, <1>2, BoundsAssumption
    DEF Handshaking, HandshakeNeedsConnection, FailuresCounted, Uncounted, Writes

(* What the library and the gateway do besides closing.                    *)
LEMMA EnvironmentHandshaking ==
    ASSUME Inductive, Handshaking,
           LwsEstablished \/ LwsConnectionError \/ LwsFragment \/ LwsReceive \/ Gateway
    PROVE  Handshaking'
  <1>1. CountersOK /\ faults.left \in Nat /\ attempts \in Nat
    BY DEF Inductive, TypeOK, CountersOK, FaultBudgets
  <1>2. faults' = faults \/ faults'.left = faults.left - 1
    BY <1>1, FaultCounts
    DEF LwsEstablished, LwsConnectionError, LwsFragment, LwsReceive, Gateway, GatewayAnswers,
        GatewayRevokes, netVars
  <1>3. attempts' = attempts /\ (link' = "broken" => link = "broken")
    BY DEF LwsEstablished, LwsConnectionError, LwsFragment, LwsReceive, Gateway, GatewayAnswers,
           GatewayRevokes, netVars, botVars, retryVars
  <1>4. FailuresCounted'
    BY <1>1, <1>2, <1>3, BoundsAssumption DEF Handshaking, FailuresCounted, Uncounted
  <1>5. CASE LwsConnectionError
    <2>1. link = "connecting" /\ ~open
      BY <1>5 DEF Inductive, OpenTracksLink, LwsConnectionError
    <2>2. UNCHANGED client
      BY <1>5 DEF LwsConnectionError, clientVars
    <2>3. QED
      BY <1>4, <2>1, <2>2 DEF Handshaking, HandshakeNeedsConnection
  <1>6. CASE LwsEstablished
    BY <1>4, <1>6 DEF Handshaking, HandshakeNeedsConnection, LwsEstablished
  <1>7. CASE LwsFragment \/ LwsReceive \/ Gateway
    <2>1. UNCHANGED <<client, open>>
      BY <1>7 DEF LwsFragment, LwsReceive, Gateway, GatewayAnswers, GatewayRevokes, clientVars,
                  transportVars
    <2>2. QED
      BY <1>4, <2>1 DEF Handshaking, HandshakeNeedsConnection
  <1>8. QED
    BY <1>5, <1>6, <1>7

(* Steps that touch neither client, connection, budget nor count.          *)
LEMMA QuietHandshaking ==
    ASSUME Handshaking, UNCHANGED <<client, open, link, faults, attempts>>
    PROVE  Handshaking'
  BY DEF Handshaking, HandshakeNeedsConnection, FailuresCounted, Uncounted

(* Every step keeps the second layer.                                      *)
LEMMA NextHandshaking == Inductive /\ Handshaking /\ [Next]_vars => Handshaking'
  <1> SUFFICES ASSUME Inductive, Handshaking, [Next]_vars PROVE Handshaking'
    OBVIOUS
  <1>1. CASE BotStart \/ Reconnect
    BY <1>1, StartHandshaking
  <1>2. CASE NoReconnect \/ BotExit \/ BotStop \/ BackoffElapses
    <2>1. UNCHANGED <<client, open, link, faults, attempts>>
      BY <1>2 DEF NoReconnect, BotExit, BotStop, BackoffElapses, netVars, transportVars,
                  clientVars, botVars, retryVars
    <2>2. QED
      BY <2>1, QuietHandshaking
  <1>3. CASE LwsReturns \/ ServiceReturns \/ SkipNickname \/ NoAction \/ CallSlice \/ CallReturns
    <2>1. UNCHANGED <<client, open, link, faults, attempts>>
      BY <1>3 DEF LwsReturns, ServiceReturns, SkipNickname, NoAction, CallSlice, CallReturns,
                  netVars, transportVars, clientVars, botVars, retryVars
    <2>2. QED
      BY <2>1, QuietHandshaking
  <1>4. CASE Library
    BY <1>4, ClosedHandshaking, EnvironmentHandshaking DEF Library
  <1>5. CASE Dispatch
    BY <1>5, DispatchHandshaking
  <1>6. CASE ApplyNickname \/ DrainAction
    BY <1>6, CallHandshaking
  <1>7. CASE Gateway
    BY <1>7, EnvironmentHandshaking
  <1>8. CASE UNCHANGED vars
    <2>1. UNCHANGED <<client, open, link, faults, attempts>>
      BY <1>8 DEF vars, netVars, transportVars, clientVars, botVars, retryVars
    <2>2. QED
      BY <2>1, QuietHandshaking
  <1>9. QED
    BY <1>1, <1>2, <1>3, <1>4, <1>5, <1>6, <1>7, <1>8 DEF Next, Loop, Deliver, Work, Exited

(* The second layer holds in every reachable state.                        *)
LEMMA SpecHandshaking == Spec => []Handshaking
  BY InitHandshaking, NextHandshaking, SpecInductive, PTL DEF Spec

-----------------------------------------------------------------------------
(* An idle client always has a reconnection scheduled, and only an idle    *)
(* client has: bot_on_disconnected, maybe_reconnect and bot_start together *)
(* leave no idle bot without a timer.                                      *)
THEOREM SessionIdleIffScheduled == Spec => []IdleIffScheduled
  <1>1. Inductive => IdleIffScheduled
    BY DEF Inductive
  <1>2. QED
    BY <1>1, SpecInductive, PTL

(* No frame left over from a closed connection is still queued when a new  *)
(* connection is up: transport_service drains before it returns.           *)
THEOREM SessionNoFrameCrosses == Spec => []NoFrameCrossesConnections
  <1>1. Inductive => NoFrameCrossesConnections
    BY DEF Inductive
  <1>2. QED
    BY <1>1, SpecInductive, PTL

(* A client that serves over an open transport was accepted by the gateway *)
(* on that very connection, whatever was lost, cut or late before.         *)
THEOREM SessionAuthenticatedHere == Spec => []AuthenticatedHere
  <1>1. Inductive => AuthenticatedHere
    BY DEF Inductive
  <1>2. QED
    BY <1>1, SpecInductive, PTL

(* A bot that is online carries neither a timer nor a count of attempts.   *)
THEOREM SessionOnlineCarriesNoRetry == Spec => []OnlineCarriesNoRetry
  <1>1. Inductive => OnlineCarriesNoRetry
    BY DEF Inductive
  <1>2. QED
    BY <1>1, SpecInductive, PTL

(* A client in the middle of the handshake has an open connection: no      *)
(* handler moves it on for a request it could not write, not even one of   *)
(* a frame that outlived its connection.                                   *)
THEOREM SessionHandshakeNeedsConnection == Spec => []HandshakeNeedsConnection
  <1>1. Handshaking => HandshakeNeedsConnection
    BY DEF Handshaking
  <1>2. QED
    BY <1>1, SpecHandshaking, PTL

(* Each failure is counted once by the three places of bot.c that count,   *)
(* whatever faults may happen and in whatever order.                       *)
THEOREM SessionEachFailureCountedOnce == Spec => []EachFailureCountedOnce
  <1>1. Inductive /\ Handshaking => EachFailureCountedOnce
    <2> SUFFICES ASSUME Inductive, Handshaking PROVE EachFailureCountedOnce
      OBVIOUS
    <2>1. faults.left \in Nat /\ attempts \in Nat
      BY DEF Inductive, TypeOK, CountersOK, FaultBudgets
    <2>2. QED
      BY <2>1, BoundsAssumption DEF Handshaking, FailuresCounted, Uncounted, EachFailureCountedOnce
  <1>2. QED
    BY <1>1, SpecInductive, SpecHandshaking, PTL
=============================================================================
