------------------------------ MODULE ChatSync ------------------------------
(***************************************************************************)
(* What the client believes about its chats, and how it keeps up with the  *)
(* gateway: the chat store (chats.c), the chat keys (chatkeys.c), the      *)
(* paged delta synchronisation (client.c 1365-1472, parser.c 911-985) and  *)
(* the calls that change a chat (create, rotate, leave).                   *)
(*                                                                         *)
(* The gateway and the other members of the chats are the environment.  A  *)
(* chat is a number, in the order in which the gateway pages through them, *)
(* and a page carries one chat: the finest cut the contract may make.  A   *)
(* chat's version is 0 where this identity is not a member.                *)
(***************************************************************************)
EXTENDS Naturals, Sequences

CONSTANTS
    NumChats,     \* chats are 1 .. NumChats
    MaxPages,     \* EVERGRAM_MAX_SYNC_PAGES
    MaxSteps,     \* bound: changes by others, calls and syncs in one behaviour
    BorrowedIds,  \* may the application pass an id that points into the store
    Hazards       \* what else may go wrong: see HazardKinds

HazardKinds == {"lost", "unopened", "repeated_cursor"}

ASSUME SizesAssumption ==
    /\ NumChats \in Nat \ {0} /\ MaxPages \in Nat \ {0} /\ MaxSteps \in Nat
ASSUME HazardsAssumption == BorrowedIds \in BOOLEAN /\ Hazards \subseteq HazardKinds

Chats    == 1 .. NumChats
Versions == Nat

VARIABLES
    member, generation,    \* gateway: who is in, and each chat's key generation
    toGateway, toClient,   \* messages in flight, in order
    steps,                 \* how many more changes, calls and syncs
    online,                \* evergram_t.state = EG_STATE_AUTHENTICATED
    entries, count,        \* chats_t.entries, .count
    keys,                  \* chatkeys_t: the generation of the key held, 0 for none
    pages,                 \* evergram_t.sync_pages
    call,                  \* evergram_t.call, with what the caller does on success
    dirty, cut, strained, unopened   \* history: see Follow, SyncReaches and Applied

gatewayVars == <<member, generation>>
storeVars   == <<entries, count, keys>>
historyVars == <<dirty, cut, strained, unopened>>
vars == <<gatewayVars, toGateway, toClient, steps, online, storeVars, pages, call, historyVars>>

Version(c) == IF member[c] THEN generation[c] ELSE 0

(* The store: an array whose first count entries are in use.  What lies    *)
(* behind them is what was there before, and a borrowed id may point at it.*)
Entries == [chat : Chats, version : Versions]
Position(c) == {i \in 1 .. count : entries[i].chat = c}
Known(c) == Position(c) # {}
Stored(c) == IF Known(c) THEN entries[CHOOSE i \in Position(c) : TRUE].version ELSE 0
KnownVersions == [c \in Chats |-> [known |-> Known(c), version |-> Stored(c)]]

NoCall == [kind |-> "none"]
(* slot is 0 for an id of the caller's own, and else where it points.      *)
Calls == [kind : {"create", "rotate", "leave"}, chat : Chats, slot : 0 .. NumChats,
          id : 1 .. MaxSteps, status : {"waiting", "ok", "failed"}]
Queries  == [kind : {"query"}, cursor : 0 .. NumChats - 1,
             known : [Chats -> [known : BOOLEAN, version : Versions]]]
Requests == [kind : {"create", "rotate", "leave"}, chat : Chats, id : 1 .. MaxSteps]
Pages    == [kind : {"page"}, chat : Chats, result : {"none", "missing", "record"},
             version : Versions, next : 0 .. NumChats - 1]
Answers  == [kind : {"answer"}, chat : Chats, ok : BOOLEAN, version : Versions,
             id : 1 .. MaxSteps]

TypeOK ==
    /\ member \in [Chats -> BOOLEAN] /\ generation \in [Chats -> Versions]
    /\ toGateway \in Seq(Queries \cup Requests) /\ toClient \in Seq(Pages \cup Answers)
    /\ steps \in 0 .. MaxSteps /\ online \in BOOLEAN
    /\ entries \in [Chats -> Entries] /\ count \in 0 .. NumChats
    /\ keys \in [Chats -> Versions] /\ pages \in 0 .. MaxPages
    /\ call \in Calls \cup {NoCall}
    /\ dirty \subseteq Chats /\ unopened \subseteq Chats
    /\ cut \in BOOLEAN /\ strained \in BOOLEAN

Init ==
    /\ member \in [Chats -> BOOLEAN]
    /\ generation = [c \in Chats |-> IF member[c] THEN 1 ELSE 0]
    /\ toGateway = <<>> /\ toClient = <<>>
    /\ steps = MaxSteps /\ online = FALSE
    /\ entries = [i \in Chats |-> [chat |-> i, version |-> 0]] /\ count = 0
    /\ keys = [c \in Chats |-> 0] /\ pages = 0 /\ call = NoCall
    /\ dirty = {} /\ cut = FALSE /\ strained = FALSE /\ unopened = {}

Step == steps > 0 /\ steps' = steps - 1

-----------------------------------------------------------------------------
(* Definitions named Bug... are the definition below them with a plausible *)
(* mistake: they show that some property notices.                          *)

(* The gateway and the other members.                                      *)

(* Another member rotates the chat's key, adds this identity or takes it   *)
(* out; dirty are the chats so changed since the last sync was asked for.  *)
ChangedByOthers(c) ==
    /\ Step
    /\ \/ member' = [member EXCEPT ![c] = FALSE] /\ member[c] /\ UNCHANGED generation
       \/ /\ generation' = [generation EXCEPT ![c] = @ + 1]
          /\ member' = [member EXCEPT ![c] = TRUE]
    /\ dirty' = dirty \cup {c}
    /\ UNCHANGED <<toGateway, toClient, online, storeVars, pages, call, cut, strained, unopened>>

(* One page: the chat behind the cursor, reported when it is gone or newer *)
(* than known, and a cursor when there is more.                            *)
PageFor(query, next) ==
    LET c == query.cursor + 1 IN
    [kind |-> "page", chat |-> c, version |-> Version(c), next |-> next,
     result |-> IF ~member[c] THEN IF query.known[c].known THEN "missing" ELSE "none"
                ELSE IF query.known[c].version < Version(c) THEN "record" ELSE "none"]

MoreAfter(query) ==
    \E c \in Chats : c > query.cursor + 1 /\ (member[c] \/ query.known[c].known)

GatewayAnswersQuery ==
    /\ toGateway # <<>> /\ Head(toGateway).kind = "query"
    /\ LET query == Head(toGateway)
           next  == IF MoreAfter(query) THEN query.cursor + 1 ELSE 0 IN
       \/ /\ toClient' = Append(toClient, PageFor(query, next))
          /\ UNCHANGED strained
       \/ /\ "repeated_cursor" \in Hazards /\ query.cursor > 0
          /\ toClient' = Append(toClient, PageFor(query, query.cursor))
          /\ strained' = TRUE
    /\ toGateway' = Tail(toGateway)
    /\ UNCHANGED <<gatewayVars, steps, online, storeVars, pages, call, dirty, cut, unopened>>

GatewayAnswersCall ==
    /\ toGateway # <<>> /\ Head(toGateway).kind # "query"
    /\ LET request == Head(toGateway)
           c  == request.chat
           ok == IF request.kind = "create" THEN ~member[c] ELSE member[c]
           grown == IF ok /\ request.kind # "leave" THEN generation[c] + 1 ELSE generation[c] IN
       /\ member' = [member EXCEPT ![c] = IF ok THEN request.kind # "leave" ELSE @]
       /\ generation' = [generation EXCEPT ![c] = grown]
       /\ toClient' = Append(toClient,
              [kind |-> "answer", chat |-> c, ok |-> ok, id |-> request.id,
               version |-> IF ok /\ request.kind # "leave" THEN grown ELSE 0])
       /\ dirty' = IF ok /\ request.kind = "leave" /\ ~(call # NoCall /\ call.id = request.id)
                   THEN dirty \cup {c} ELSE dirty
    /\ toGateway' = Tail(toGateway)
    /\ UNCHANGED <<steps, online, storeVars, pages, call, cut, strained, unopened>>

-----------------------------------------------------------------------------
(* The store and the keys.                                                 *)

(* chats_upsert, then the key sealed for this device, when it opens.       *)
Apply(c, version, opened) ==
    /\ IF Known(c)
       THEN /\ entries' = [i \in Chats |->
                 IF i \in Position(c) THEN [chat |-> c, version |-> version] ELSE entries[i]]
            /\ UNCHANGED count
       ELSE /\ count' = count + 1
            /\ entries' = [entries EXCEPT ![count + 1] = [chat |-> c, version |-> version]]
    /\ keys' = IF opened THEN [keys EXCEPT ![c] = version] ELSE keys
    /\ unopened' = IF opened THEN unopened \ {c} ELSE unopened \cup {c}

OpenOutcomes == IF "unopened" \in Hazards THEN BOOLEAN ELSE {TRUE}

(* chats_remove: what follows the entry moves one down.                    *)
EntriesWithout(c) ==
    [i \in Chats |-> IF i < count /\ \E j \in Position(c) : j <= i
                     THEN entries[i + 1] ELSE entries[i]]

Drop(chatOfEntry, chatOfKey) ==
    /\ entries' = EntriesWithout(chatOfEntry)
    /\ count' = IF Known(chatOfEntry) THEN count - 1 ELSE count
    /\ keys' = [keys EXCEPT ![chatOfKey] = 0]
    /\ unopened' = unopened \ {chatOfEntry}

(* evergram_forget_chat.                                                   *)
BugForgetEntryOnly(c) ==
    /\ entries' = EntriesWithout(c)
    /\ count' = IF Known(c) THEN count - 1 ELSE count
    /\ keys' = keys /\ unopened' = unopened \ {c}

Forget(c) == Drop(c, c)

-----------------------------------------------------------------------------
(* Synchronisation.                                                        *)

InFlight == \/ \E i \in 1 .. Len(toGateway) : toGateway[i].kind = "query"
            \/ \E i \in 1 .. Len(toClient) : toClient[i].kind = "page"

QueryFrom(cursor, known) == [kind |-> "query", cursor |-> cursor, known |-> known]

BugRestartKeepsBudget ==
    /\ UNCHANGED pages
    /\ toGateway' = Append(toGateway, QueryFrom(0, KnownVersions))
    /\ dirty' = {} /\ cut' = FALSE /\ strained' = (toGateway # <<>> \/ toClient # <<>>)

(* evergram_sync_chats, and the sync that follows every authentication.    *)
StartSync ==
    /\ pages' = 1
    /\ toGateway' = Append(toGateway, QueryFrom(0, KnownVersions))
    /\ dirty' = {} /\ cut' = FALSE /\ strained' = (toGateway # <<>> \/ toClient # <<>>)

SyncChats ==
    /\ Step /\ online
    /\ StartSync
    /\ UNCHANGED <<gatewayVars, toClient, online, storeVars, call, unopened>>

(* The cursor of a page: the next one is asked for while the budget lasts. *)
BugContinueOnePageMore(next) ==
    IF next = 0
    THEN UNCHANGED <<toGateway, pages, cut>>
    ELSE IF pages <= MaxPages
         THEN /\ pages' = pages + 1
              /\ toGateway' = Append(toGateway, QueryFrom(next, KnownVersions'))
              /\ UNCHANGED cut
         ELSE /\ cut' = TRUE
              /\ UNCHANGED <<toGateway, pages>>

BugContinueForever(next) ==
    IF next = 0
    THEN UNCHANGED <<toGateway, pages, cut>>
    ELSE /\ toGateway' = Append(toGateway, QueryFrom(next, KnownVersions'))
         /\ UNCHANGED <<cut, pages>>

Continue(next) ==
    IF next = 0
    THEN UNCHANGED <<toGateway, pages, cut>>
    ELSE IF pages < MaxPages
         THEN /\ pages' = pages + 1
              /\ toGateway' = Append(toGateway, QueryFrom(next, KnownVersions'))
              /\ UNCHANGED cut
         ELSE /\ cut' = TRUE
              /\ UNCHANGED <<toGateway, pages>>

(* The queryChatsResponse case of dispatch_message.                        *)
HandlePage(page) ==
    /\ \/ page.result = "missing" /\ Forget(page.chat)
       \/ page.result = "record" /\ \E opened \in OpenOutcomes :
                                        Apply(page.chat, page.version, opened)
       \/ page.result = "none" /\ UNCHANGED <<storeVars, unopened>>
    /\ Continue(page.next)

DispatchPage ==
    /\ online /\ toClient # <<>> /\ Head(toClient).kind = "page"
    /\ HandlePage(Head(toClient))
    /\ toClient' = Tail(toClient)
    /\ UNCHANGED <<gatewayVars, steps, online, call, dirty, strained>>

-----------------------------------------------------------------------------
(* The calls.                                                              *)

(* An id of the caller's own, or a pointer into the entry of that chat.    *)
Slots(kind, c) == IF BorrowedIds /\ kind = "leave" /\ Known(c) THEN Position(c) ELSE {0}

StartCall(kind, c) ==
    /\ Step /\ online /\ call = NoCall
    /\ \E slot \in Slots(kind, c) :
          call' = [kind |-> kind, chat |-> c, slot |-> slot, id |-> steps, status |-> "waiting"]
    /\ toGateway' = Append(toGateway, [kind |-> kind, chat |-> c, id |-> steps])
    /\ UNCHANGED <<gatewayVars, toClient, online, storeVars, pages, historyVars>>

(* The parser applies what an answer carries, whoever still waits for it.  *)
DispatchAnswer ==
    /\ online /\ toClient # <<>> /\ Head(toClient).kind = "answer"
    /\ LET answer == Head(toClient) IN
       /\ IF answer.version > 0
          THEN \E opened \in OpenOutcomes : Apply(answer.chat, answer.version, opened)
          ELSE UNCHANGED <<storeVars, unopened>>
       /\ call' = IF call # NoCall /\ call.id = answer.id
                  THEN [call EXCEPT !.status = IF answer.ok THEN "ok" ELSE "failed"]
                  ELSE call
    /\ toClient' = Tail(toClient)
    /\ UNCHANGED <<gatewayVars, toGateway, steps, online, pages, dirty, cut, strained>>

(* The id the caller's pointer names, in the store as f leaves it.         *)
Named(f) == IF call.slot = 0 THEN call.chat ELSE f[call.slot].chat

(* evergram_chat_leave drops the entry and then the key, reading the id    *)
(* again for the second.  A chat that others brought back while the call   *)
(* was being answered is dropped with it, and dirty until the next sync.   *)
LeaveDropsChat ==
    LET c == Named(entries) IN
    /\ Drop(c, Named(EntriesWithout(c)))
    /\ dirty' = IF member[c] THEN dirty \cup {c} ELSE dirty

(* evergram_call is over: its slice has dispatched all that had arrived.   *)
CallReturns ==
    /\ call # NoCall /\ call.status # "waiting"
    /\ IF call.kind = "leave" /\ call.status = "ok"
       THEN LeaveDropsChat
       ELSE UNCHANGED <<storeVars, dirty, unopened>>
    /\ call' = NoCall
    /\ UNCHANGED <<gatewayVars, toGateway, toClient, steps, online, pages, cut, strained>>

(* The caller gives up: what it asked for may happen all the same.         *)
CallTimesOut ==
    /\ call # NoCall /\ call.status = "waiting"
    /\ call' = NoCall
    /\ dirty' = IF call.kind = "leave" THEN dirty \cup {call.chat} ELSE dirty
    /\ UNCHANGED <<gatewayVars, toGateway, toClient, steps, online, storeVars, pages,
                   cut, strained, unopened>>

-----------------------------------------------------------------------------
(* The connection.                                                         *)

Lose ==
    /\ "lost" \in Hazards /\ Step
    /\ online /\ (call # NoCall => call.status = "waiting")
    /\ online' = FALSE /\ call' = NoCall
    /\ toGateway' = <<>> /\ toClient' = <<>>
    /\ UNCHANGED <<gatewayVars, storeVars, pages, historyVars>>

(* handle_auth_response: the session is up, the chats are synchronised.    *)
Authenticated ==
    /\ ~online
    /\ online' = TRUE
    /\ StartSync
    /\ UNCHANGED <<gatewayVars, toClient, steps, storeVars, call, unopened>>

Next ==
    \/ \E c \in Chats : \/ ChangedByOthers(c)
                        \/ \E kind \in {"create", "rotate", "leave"} : StartCall(kind, c)
    \/ GatewayAnswersQuery \/ GatewayAnswersCall
    \/ SyncChats \/ DispatchPage \/ DispatchAnswer
    \/ CallReturns \/ CallTimesOut
    \/ Lose \/ Authenticated

Spec == Init /\ [][Next]_vars

(* Messages travel and the gateway answers; the loop dispatches, a call    *)
(* returns and a lost connection comes back: evergram_bot_run keeps        *)
(* polling, on one thread.                                                 *)
GatewayRuns == GatewayAnswersQuery \/ GatewayAnswersCall
ClientRuns  == DispatchPage \/ DispatchAnswer \/ CallReturns \/ Authenticated

FairSpec == Spec /\ WF_vars(GatewayRuns) /\ WF_vars(ClientRuns)

-----------------------------------------------------------------------------
(* The key held for a chat is the one of the version stored for it, and no *)
(* key outlives its chat: the delta sync (client.c 1365) asks only for     *)
(* what is newer than the stored version, so a key that fell behind its    *)
(* entry is never asked for again.  The exception is the one parser.c 115  *)
(* makes: it stores the record and ignores that the key did not open.      *)
KeysFollowStore ==
    \A c \in Chats :
        IF Known(c) THEN c \in unopened \/ keys[c] = Stored(c) ELSE keys[c] = 0

(* An id borrowed from the store names its chat for as long as the call it *)
(* was passed to runs, unless the gateway says something of that very chat *)
(* (evergram.h 149): the pages dispatched meanwhile may remove others.     *)
BorrowedIdHolds == call # NoCall /\ Known(call.chat) => Named(entries) = call.chat

(* The chats a sync is answerable for: those nobody changed since it was   *)
(* asked for.  Cut short, it answers for the first MaxPages.  It is        *)
(* strained when earlier requests were unanswered at that moment, or when  *)
(* the gateway repeated a cursor: it may then be cut short anywhere, as    *)
(* two syncs share one budget, and miss that a chat is gone, as an answer  *)
(* on its way brings it after the query that did not list it as known.     *)
Reached(c) ==
    /\ c \notin dirty
    /\ cut => c <= MaxPages
    /\ cut \/ ~member[c] => ~strained

(* When a sync is over the store agrees with the gateway on every chat it  *)
(* reached, whatever calls, changes and earlier syncs ran meanwhile: the   *)
(* pages of parser.c 911 with the cursor of parser.c 970.                  *)
SyncReaches ==
    online /\ ~InFlight /\ toClient = <<>> /\ toGateway = <<>> /\ call = NoCall =>
        \A c \in Chats : Reached(c) => Stored(c) = Version(c)

(* Every sync ends, even against a gateway that repeats its cursor: this   *)
(* is what EVERGRAM_MAX_SYNC_PAGES (internal.h 53) is for.                 *)
SyncsEnd == InFlight ~> ~InFlight
=============================================================================
