------------------------------- MODULE Rooms --------------------------------
(***************************************************************************)
(* Visitor rooms.  The client keeps a key per room, tagged with the role   *)
(* this process plays in it (client.c 2662-2670, 2838-2979, parser.c       *)
(* 600-833); the bot keeps a bounded table of the rooms it serves, whose   *)
(* entries it hands out as handles (bot.c 308-456, 548-590).  A room's     *)
(* slot at the gateway belongs to a socket, so it has to be claimed again  *)
(* after every outage.                                                     *)
(*                                                                         *)
(* The gateway, the visitors and the account's other devices are the       *)
(* environment.  What a relay frame says is left out: of the frames only   *)
(* those that claim a room or put an end to it are told apart.             *)
(***************************************************************************)
EXTENDS Naturals, SequencesExt

CONSTANTS
    WidgetRooms,  \* rooms visitors open at this account's widgets
    OwnRooms,     \* rooms this client opens itself, as a visitor or in a channel
    MaxRooms,     \* BOT_MAX_ROOMS
    MaxEvents     \* bound: steps of the environment and of the application

AllRooms == WidgetRooms \cup OwnRooms

ASSUME RoomsAssumption ==
    /\ WidgetRooms \cap OwnRooms = {} /\ IsFiniteSet(AllRooms)
    /\ MaxRooms \in Nat \ {0} /\ MaxEvents \in Nat

VARIABLES
    existing, past,       \* gateway: the rooms there are, and were
    holder,               \* gateway: whose each room's joiner slot is
    toGateway, toClient,  \* frames and events in flight, in order
    online, events,
    roomKeys,             \* evergram_t.room_keys: the tag of each key, "none" without
    rooms, roomCount,     \* evergram_bot_t.rooms, .room_count
    loose, unclaimed,     \* history: see RoomsAgree and Reclaimed
    kept                  \* a handle the application keeps, and the room it was given for

roomGatewayVars == <<existing, past, holder>>
roomLinkVars    == <<toGateway, toClient, online>>
tableVars       == <<rooms, roomCount>>
roomVars == <<roomGatewayVars, roomLinkVars, events, roomKeys, tableVars, loose, unclaimed, kept>>

Tags == {"none", "JOINER", "CREATOR", "CHANNEL"}
RelayFrames == [kind : {"JOINED", "END"}, room : AllRooms]
Notices == [kind : {"requested", "timed_out", "END", "CLAIMED_ELSEWHERE", "CHANNEL_KICKED"},
            room : AllRooms]
NoHandle == [slot |-> 0]
Handles  == [slot : 1 .. MaxRooms, room : AllRooms]

RoomTypeOK ==
    /\ existing \subseteq AllRooms /\ past \subseteq AllRooms
    /\ holder \in [AllRooms -> {"nobody", "here", "elsewhere"}]
    /\ toGateway \in Seq(RelayFrames) /\ toClient \in Seq(Notices)
    /\ online \in BOOLEAN /\ events \in 0 .. MaxEvents
    /\ roomKeys \in [AllRooms -> Tags]
    /\ rooms \in [1 .. MaxRooms -> AllRooms] /\ roomCount \in 0 .. MaxRooms
    /\ loose \subseteq AllRooms /\ unclaimed \subseteq AllRooms
    /\ kept \in Handles \cup {NoHandle}

RoomInit ==
    /\ existing = {} /\ past = {} /\ holder = [r \in AllRooms |-> "nobody"]
    /\ toGateway = <<>> /\ toClient = <<>> /\ online = FALSE /\ events = MaxEvents
    /\ roomKeys = [r \in AllRooms |-> "none"]
    /\ rooms \in [1 .. MaxRooms -> AllRooms] /\ \A i, j \in 1 .. MaxRooms : rooms[i] = rooms[j]
    /\ roomCount = 0 /\ loose = {} /\ unclaimed = {} /\ kept = NoHandle

Event == events > 0 /\ events' = events - 1

Tracked == {rooms[i] : i \in 1 .. roomCount}
SlotOf(r) == CHOOSE i \in 1 .. roomCount : rooms[i] = r

-----------------------------------------------------------------------------
(* Visitors, other devices, the gateway.                                   *)

(* A visitor opens a room: every device of the owner that is there learns. *)
VisitorOpens(r) ==
    /\ Event /\ r \in WidgetRooms \ (existing \cup past)
    /\ existing' = existing \cup {r}
    /\ toClient' = IF online THEN Append(toClient, [kind |-> "requested", room |-> r]) ELSE toClient
    /\ UNCHANGED <<past, holder, toGateway, online, roomKeys, tableVars, loose, unclaimed, kept>>

ClaimedByOtherDevice(r) ==
    /\ Event /\ r \in existing \cap WidgetRooms /\ holder[r] = "nobody"
    /\ holder' = [holder EXCEPT ![r] = "elsewhere"]
    /\ UNCHANGED <<existing, past, roomLinkVars, roomKeys, tableVars, loose, unclaimed, kept>>

(* The room ends: the visitor left, nobody came in time, or the channel    *)
(* put this client out.                                                    *)
RoomEnds(r) ==
    /\ Event /\ r \in existing
    /\ existing' = existing \ {r} /\ past' = past \cup {r}
    /\ holder' = [holder EXCEPT ![r] = "nobody"]
    /\ \E kind \in (IF roomKeys[r] = "CHANNEL" THEN {"CHANNEL_KICKED"} ELSE {"END", "timed_out"}) :
          toClient' = IF online /\ (r \in OwnRooms \/ holder[r] # "elsewhere")
                      THEN Append(toClient, [kind |-> kind, room |-> r]) ELSE toClient
    /\ UNCHANGED <<toGateway, online, roomKeys, tableVars, loose, unclaimed, kept>>

(* A claim is granted where the slot is free, and refused where another    *)
(* device has it; one for a room that is gone is answered with its end.    *)
GatewayHandles ==
    /\ toGateway # <<>>
    /\ LET r == Head(toGateway).room IN
       \/ /\ Head(toGateway).kind = "END"
          /\ existing' = existing \ {r} /\ past' = past \cup {r}
          /\ holder' = [holder EXCEPT ![r] = "nobody"]
          /\ UNCHANGED toClient
       \/ /\ Head(toGateway).kind = "JOINED" /\ r \in existing /\ holder[r] # "elsewhere"
          /\ holder' = [holder EXCEPT ![r] = "here"]
          /\ UNCHANGED <<existing, past, toClient>>
       \/ /\ Head(toGateway).kind = "JOINED" /\ (r \notin existing \/ holder[r] = "elsewhere")
          /\ toClient' = Append(toClient,
                [kind |-> IF r \in existing THEN "CLAIMED_ELSEWHERE" ELSE "END", room |-> r])
          /\ UNCHANGED <<existing, past, holder>>
    /\ toGateway' = Tail(toGateway)
    /\ UNCHANGED <<online, events, roomKeys, tableVars, loose, unclaimed, kept>>

-----------------------------------------------------------------------------
(* The bot's table.  Definitions named Bug... are the definition below     *)
(* them with a plausible mistake: they show that some property notices.    *)

(* remove_room: the last entry takes the place of the one that goes.       *)
Without(r) == [rooms EXCEPT ![SlotOf(r)] = rooms[roomCount]]

(* The application lets go of a handle when its room leaves the table.     *)
LetGoOf(r) == kept' = IF kept # NoHandle /\ kept.room = r THEN NoHandle ELSE kept

BugRemoveKeepsPlaces(r) ==
    IF r \in Tracked
    THEN roomCount' = roomCount - 1 /\ UNCHANGED rooms /\ LetGoOf(r)
    ELSE UNCHANGED <<tableVars, kept>>

RemoveRoom(r) ==
    IF r \in Tracked
    THEN rooms' = Without(r) /\ roomCount' = roomCount - 1 /\ LetGoOf(r)
    ELSE UNCHANGED <<tableVars, kept>>

(* remember_room: a full table forgets the room in its first place, which  *)
(* loses its handle but not its key.                                       *)
BugRememberNeverFull(r) ==
    IF r \in Tracked
    THEN UNCHANGED <<tableVars, kept>> /\ loose' = loose \ {r}
    ELSE /\ rooms' = [rooms EXCEPT ![roomCount + 1] = r] /\ roomCount' = roomCount + 1
         /\ loose' = loose \ {r}
         /\ UNCHANGED kept

RememberRoom(r) ==
    IF r \in Tracked
    THEN UNCHANGED <<tableVars, kept>> /\ loose' = loose \ {r}
    ELSE IF roomCount < MaxRooms
    THEN /\ rooms' = [rooms EXCEPT ![roomCount + 1] = r] /\ roomCount' = roomCount + 1
         /\ loose' = loose \ {r}
         /\ UNCHANGED kept
    ELSE /\ rooms' = [Without(rooms[1]) EXCEPT ![roomCount] = r]
         /\ loose' = (loose \ {r}) \cup {rooms[1]}
         /\ LetGoOf(rooms[1])
         /\ UNCHANGED roomCount

-----------------------------------------------------------------------------
(* What the client is told.                                                *)

Notice(kind) == toClient # <<>> /\ Head(toClient).kind = kind /\ toClient' = Tail(toClient)
Told == Head(toClient).room

(* handle_visitor_room_requested, when the room's key opens: the room is   *)
(* claimed before it is reported.  Otherwise the room is left to others.   *)
RoomRequested ==
    /\ Notice("requested")
    /\ \/ /\ roomKeys' = [roomKeys EXCEPT ![Told] = "JOINER"]
          /\ toGateway' = Append(toGateway, [kind |-> "JOINED", room |-> Told])
          /\ RememberRoom(Told)
       \/ UNCHANGED <<roomKeys, toGateway, tableVars, loose, kept>>
    /\ UNCHANGED <<roomGatewayVars, online, events, unclaimed>>

(* The three frames that end a room here, and the offer that ran out: the  *)
(* key goes first (parser.c), then the bot's entry.                        *)
BugRoomOverKeepsKey ==
    /\ \E kind \in {"END", "CLAIMED_ELSEWHERE", "CHANNEL_KICKED", "timed_out"} : Notice(kind)
    /\ roomKeys' = IF Head(toClient).kind = "timed_out"
                   THEN roomKeys ELSE [roomKeys EXCEPT ![Told] = "none"]
    /\ RemoveRoom(Told)
    /\ loose' = loose \ {Told} /\ unclaimed' = unclaimed \ {Told}
    /\ UNCHANGED <<roomGatewayVars, toGateway, online, events>>

RoomOver ==
    /\ \E kind \in {"END", "CLAIMED_ELSEWHERE", "CHANNEL_KICKED", "timed_out"} : Notice(kind)
    /\ roomKeys' = [roomKeys EXCEPT ![Told] = "none"]
    /\ RemoveRoom(Told)
    /\ loose' = loose \ {Told} /\ unclaimed' = unclaimed \ {Told}
    /\ UNCHANGED <<roomGatewayVars, toGateway, online, events>>

-----------------------------------------------------------------------------
(* What the bot does.                                                      *)

(* evergram_bot_visitor_end: without a connection the frame fails, and the *)
(* key goes all the same.                                                  *)
VisitorEnd(r) ==
    /\ Event /\ r \in Tracked
    /\ toGateway' = IF online THEN Append(toGateway, [kind |-> "END", room |-> r]) ELSE toGateway
    /\ roomKeys' = [roomKeys EXCEPT ![r] = "none"]
    /\ RemoveRoom(r)
    /\ loose' = loose \ {r} /\ unclaimed' = unclaimed \ {r}
    /\ UNCHANGED <<roomGatewayVars, toClient, online>>

(* evergram_bot_visitor_register, with a handle or without: the room is    *)
(* claimed at the next authentication, not now.                            *)
VisitorRegister(r) ==
    /\ Event /\ r \in WidgetRooms
    /\ roomKeys' = [roomKeys EXCEPT ![r] = "JOINER"]
    /\ unclaimed' = unclaimed \cup {r}
    /\ \/ RememberRoom(r)
       \/ loose' = loose \cup ({r} \ Tracked) /\ UNCHANGED <<tableVars, kept>>
    /\ UNCHANGED <<roomGatewayVars, roomLinkVars>>

(* evergram_bot_visitor_forget.                                            *)
VisitorForget(r) ==
    /\ Event /\ r \in Tracked
    /\ RemoveRoom(r)
    /\ loose' = loose \cup {r}
    /\ UNCHANGED <<roomGatewayVars, roomLinkVars, roomKeys, unclaimed>>

(* evergram_visitor_room_create, evergram_visitor_subscribe_channel, once  *)
(* the gateway has agreed.                                                 *)
OpenOwnRoom(r) ==
    /\ Event /\ online /\ r \in OwnRooms \ (existing \cup past) /\ roomKeys[r] = "none"
    /\ \E role \in {"CREATOR", "CHANNEL"} : roomKeys' = [roomKeys EXCEPT ![r] = role]
    /\ existing' = existing \cup {r}
    /\ UNCHANGED <<past, holder, roomLinkVars, tableVars, loose, unclaimed, kept>>

(* A handler keeps the handle it was given.                                *)
KeepHandle(r) ==
    /\ kept = NoHandle /\ r \in Tracked
    /\ kept' = [slot |-> SlotOf(r), room |-> r]
    /\ UNCHANGED <<roomGatewayVars, roomLinkVars, events, roomKeys, tableVars, loose, unclaimed>>

-----------------------------------------------------------------------------
(* The connection.                                                         *)

LoseSocket ==
    /\ Event /\ online
    /\ online' = FALSE /\ toGateway' = <<>> /\ toClient' = <<>>
    /\ holder' = [r \in AllRooms |-> IF holder[r] = "here" THEN "nobody" ELSE holder[r]]
    /\ UNCHANGED <<existing, past, roomKeys, tableVars, loose, unclaimed, kept>>

(* evergram_rooms_rejoin, at every authentication.                         *)
Rejoining(tags) == SetToSeq({r \in AllRooms : roomKeys[r] \in tags})

Rejoin(tags) ==
    /\ ~online
    /\ online' = TRUE /\ unclaimed' = {}
    /\ toGateway' = [i \in DOMAIN Rejoining(tags) |->
                        [kind |-> "JOINED", room |-> Rejoining(tags)[i]]]
    /\ UNCHANGED <<roomGatewayVars, toClient, events, roomKeys, tableVars, loose, kept>>

BugRejoinTracked ==
    /\ ~online
    /\ online' = TRUE /\ unclaimed' = {}
    /\ toGateway' = [i \in 1 .. roomCount |-> [kind |-> "JOINED", room |-> rooms[i]]]
    /\ UNCHANGED <<roomGatewayVars, toClient, events, roomKeys, tableVars, loose, kept>>

BugRejoinAll == Rejoin(Tags \ {"none"})

RoomsAuthenticated == Rejoin({"JOINER"})

RoomNext ==
    \/ \E r \in AllRooms : \/ VisitorOpens(r) \/ ClaimedByOtherDevice(r) \/ RoomEnds(r)
                           \/ VisitorEnd(r) \/ VisitorRegister(r) \/ VisitorForget(r)
                           \/ OpenOwnRoom(r) \/ KeepHandle(r)
    \/ GatewayHandles \/ RoomRequested \/ RoomOver
    \/ LoseSocket \/ RoomsAuthenticated

RoomSpec == RoomInit /\ [][RoomNext]_roomVars

-----------------------------------------------------------------------------
(* Key store and table agree: a room the bot serves has a key, once, and a *)
(* room this process joined has its handle, unless the bot dropped it, was *)
(* registered without one, or lost it to a full table (bot.c 342): its     *)
(* messages then come with a NULL handle.                                  *)
RoomsAgree ==
    /\ \A i, j \in 1 .. roomCount : rooms[i] = rooms[j] => i = j
    /\ \A r \in Tracked : roomKeys[r] = "JOINER"
    /\ \A r \in AllRooms : roomKeys[r] = "JOINER" => r \in Tracked \cup loose

(* client.c 2954: a slot is bound to a socket, so every room this client   *)
(* is the joiner of is claimed again.  When nothing is in flight it holds  *)
(* the slot of each of them that is still open, whatever was lost with the *)
(* last connection; only a room registered since waits for the next one.   *)
Reclaimed ==
    online /\ toGateway = <<>> /\ toClient = <<>> =>
        \A r \in existing : roomKeys[r] = "JOINER" => holder[r] = "here" \/ r \in unclaimed

(* ... and the joiner slot of a room this client created is never taken    *)
(* from its visitor.                                                       *)
CreatorSlotsFree == \A r \in OwnRooms : holder[r] # "here"

(* bot.h 129: a room's handle "is handed to every visitor handler for the *)
(* same room so a bot can keep acting on it across the whole exchange".    *)
(* As long as a room is in the table, a handle kept for it is that room's. *)
HandleNamesItsRoom == kept # NoHandle => rooms[kept.slot] = kept.room
=============================================================================
