------------------------------ MODULE Mailbox ------------------------------
(***************************************************************************)
(* The bot's mailbox (bot.c): frames whose chat key is still unknown are   *)
(* deferred by the parser (parser.c, decrypt_body), held in one array      *)
(* under three caps, and dispatched again once a poll finds their key.     *)
(*                                                                         *)
(* A handler that the drain loop calls may pump the transport: envelopes   *)
(* and keys then arrive, and chats are forgotten, in the middle of the     *)
(* loop.                                                                   *)
(***************************************************************************)
EXTENDS Naturals, FiniteSets, SequencesExt

CONSTANTS
    Chats,
    MaxPerChat,      \* BOT_MAX_PENDING_PER_CHAT
    MaxChats,        \* BOT_MAX_PENDING_CHATS
    MaxTotal,        \* BOT_MAX_PENDING_TOTAL
    Sealed,          \* the envelopes that occur: sealed ones (TRUE), others (FALSE)
    MaxFrames,       \* bound: different frames in one behaviour
    MaxFailures      \* bound: frames for which memory runs out in one behaviour

ASSUME CapsAssumption ==
    MaxPerChat \in Nat \ {0} /\ MaxChats \in Nat \ {0} /\ MaxTotal \in Nat \ {0}
ASSUME ChatsAssumption == IsFiniteSet(Chats)
ASSUME BoundsAssumption == MaxFrames \in Nat /\ MaxFailures \in Nat
ASSUME SealedAssumption == Sealed \subseteq BOOLEAN

VARIABLES
    keys,         \* evergram_t.chat_keys: whether a chat's key is known
    pending,      \* evergram_bot_t.pending
    pc,           \* "service" or, in drain_mailbox, "drain" and "handler"
    index,        \* drain_mailbox's index, from 1
    frames,       \* every frame dispatched so far
    handled,      \* the frames handlers were called for
    dropped,      \* frames bot_defer turned away at a cap
    starved,      \* frames bot_defer found no memory for
    disturbed     \* history: has a handler pumped since the drain loop started

mailboxVars == <<keys, pending, pc, index, frames, handled, dropped, starved, disturbed>>

Frames == [number : 1 .. MaxFrames, chat : Chats, sealed : Sealed]

MailboxTypeOK ==
    /\ keys \in [Chats -> BOOLEAN]
    /\ pending \in Seq(Frames)
    /\ pc \in {"service", "drain", "handler"}
    /\ index \in 1 .. MaxTotal + 1
    /\ frames \subseteq Frames /\ handled \subseteq Frames
    /\ dropped \subseteq Frames /\ starved \subseteq Frames
    /\ disturbed \in BOOLEAN

MailboxInit ==
    /\ keys = [chat \in Chats |-> FALSE]
    /\ pending = <<>> /\ pc = "service" /\ index = 1
    /\ frames = {} /\ handled = {} /\ dropped = {} /\ starved = {}
    /\ disturbed = FALSE

-----------------------------------------------------------------------------
PendingForChat(chat) == {n \in DOMAIN pending : pending[n].chat = chat}
PendingChats == {pending[n].chat : n \in DOMAIN pending}

BugHasRoom(chat) ==
    /\ Len(pending) < MaxTotal
    /\ Cardinality(PendingForChat(chat)) < MaxPerChat
    /\ Cardinality(PendingChats) <= MaxChats \/ chat \in PendingChats

BugHasRoomForOneMore(chat) ==
    /\ Len(pending) <= MaxTotal
    /\ Cardinality(PendingForChat(chat)) < MaxPerChat
    /\ Cardinality(PendingChats) < MaxChats \/ chat \in PendingChats

(* bot_defer's three caps.                                                 *)
HasRoom(chat) ==
    /\ Len(pending) < MaxTotal
    /\ Cardinality(PendingForChat(chat)) < MaxPerChat
    /\ Cardinality(PendingChats) < MaxChats \/ chat \in PendingChats

BugPendingContains(frame) == PendingForChat(frame.chat) # {}

(* The same bytes for the same chat.                                       *)
PendingContains(frame) == \E n \in DOMAIN pending : pending[n] = frame

(* bot_defer: at a cap the frame is dropped; so it is, below every cap,    *)
(* when the array cannot grow or the frame cannot be copied.               *)
Defer(frame) ==
    \/ /\ PendingContains(frame)
       /\ UNCHANGED <<pending, dropped, starved>>
    \/ /\ ~PendingContains(frame) /\ HasRoom(frame.chat)
       /\ pending' = Append(pending, frame)
       /\ UNCHANGED <<dropped, starved>>
    \/ /\ ~PendingContains(frame) /\ HasRoom(frame.chat)
       /\ Cardinality(starved) < MaxFailures
       /\ starved' = starved \cup {frame}
       /\ UNCHANGED <<pending, dropped>>
    \/ /\ ~PendingContains(frame) /\ ~HasRoom(frame.chat)
       /\ dropped' = dropped \cup {frame}
       /\ UNCHANGED <<pending, starved>>

(* decrypt_body asks for a key and there is none.  Deletions, typing and   *)
(* withdrawn reactions carry nothing sealed.                               *)
NeedsKey(frame) == frame.sealed /\ ~keys[frame.chat]

Handle(frame) ==
    /\ handled' = handled \cup {frame}
    /\ UNCHANGED <<dropped, starved>>

(* parser_dispatch for an envelope from the network.                       *)
Dispatch(frame) ==
    \/ NeedsKey(frame) /\ Defer(frame) /\ UNCHANGED handled
    \/ ~NeedsKey(frame) /\ Handle(frame) /\ UNCHANGED pending

(* While evergram_bot_poll pumps, or a handler does from the drain loop.   *)
Pumping ==
    /\ pc \in {"service", "handler"}
    /\ disturbed' = (disturbed \/ pc = "handler")

Arrive(chat, sealed) ==
    /\ Pumping
    /\ Cardinality(frames) < MaxFrames
    /\ LET frame == [number |-> Cardinality(frames) + 1, chat |-> chat, sealed |-> sealed]
       IN frames' = frames \cup {frame} /\ Dispatch(frame)
    /\ UNCHANGED <<keys, pc, index>>

(* The gateway sends a frame again, after a reconnection for instance.     *)
ArriveAgain ==
    /\ Pumping
    /\ \E frame \in frames : Dispatch(frame)
    /\ UNCHANGED <<keys, pc, index, frames>>

(* apply_chat_key, from a ChatInfo or a chat event.                        *)
KeyArrives(chat) ==
    /\ Pumping
    /\ keys' = [keys EXCEPT ![chat] = TRUE]
    /\ UNCHANGED <<pending, pc, index, frames, handled, dropped, starved>>

(* evergram_forget_chat, evergram_chat_leave: the mailbox keeps its frames.*)
ForgetChat(chat) ==
    /\ Pumping
    /\ keys' = [keys EXCEPT ![chat] = FALSE]
    /\ UNCHANGED <<pending, pc, index, frames, handled, dropped, starved>>

-----------------------------------------------------------------------------
BugDrainStart ==
    /\ pc = "service"
    /\ pc' = "drain" /\ index' = 2
    /\ UNCHANGED <<keys, pending, frames, handled, dropped, starved, disturbed>>

DrainStart ==
    /\ pc = "service"
    /\ pc' = "drain" /\ index' = 1
    /\ UNCHANGED <<keys, pending, frames, handled, dropped, starved, disturbed>>

DrainSkip ==
    /\ pc = "drain" /\ index <= Len(pending)
    /\ ~keys[pending[index].chat]
    /\ index' = index + 1
    /\ UNCHANGED <<keys, pending, pc, frames, handled, dropped, starved, disturbed>>

BugRemoved(n) ==
    SubSeq([pending EXCEPT ![n] = pending[Len(pending)]], 1, Len(pending) - 1)

(* pending_remove: what follows moves down, and the index stays.           *)
Removed(n) == RemoveAt(pending, n)

DrainDeliver ==
    /\ pc = "drain" /\ index <= Len(pending)
    /\ keys[pending[index].chat]
    /\ pending' = Removed(index)
    /\ Handle(pending[index])
    /\ pc' = "handler"
    /\ UNCHANGED <<keys, index, frames, disturbed>>

HandlerDone ==
    /\ pc = "handler"
    /\ pc' = "drain"
    /\ UNCHANGED <<keys, pending, index, frames, handled, dropped, starved, disturbed>>

DrainEnd ==
    /\ pc = "drain" /\ index > Len(pending)
    /\ pc' = "service" /\ index' = 1 /\ disturbed' = FALSE
    /\ UNCHANGED <<keys, pending, frames, handled, dropped, starved>>

Poll == DrainStart \/ DrainSkip \/ DrainDeliver \/ HandlerDone \/ DrainEnd

MailboxNext ==
    \/ \E chat \in Chats :
          \/ \E sealed \in Sealed : Arrive(chat, sealed)
          \/ KeyArrives(chat) \/ ForgetChat(chat)
    \/ ArriveAgain
    \/ Poll

MailboxSpec == MailboxInit /\ [][MailboxNext]_mailboxVars

(* The application keeps polling, its handlers return, and they do not     *)
(* feed the loop that calls them with ever more frames.                    *)
FairMailboxSpec == MailboxSpec /\ WF_mailboxVars(Poll) /\ []<>(pc = "service")

-----------------------------------------------------------------------------
(* Properties.                                                             *)

(* README.md: "queues capped at 500/chat, 200 chats, 4000 frames", however *)
(* deferrals, deliveries and forgotten chats alternate (bot_defer).        *)
CapsHold ==
    /\ Len(pending) <= MaxTotal
    /\ Cardinality(PendingChats) <= MaxChats
    /\ \A chat \in Chats : Cardinality(PendingForChat(chat)) <= MaxPerChat

(* A frame that was dispatched reached a handler, is held, or was turned   *)
(* away at a cap or for want of memory; removing frames under a running    *)
(* index loses none (bot_defer, drain_mailbox, pending_remove).            *)
NothingLost ==
    frames \subseteq dropped \cup starved \cup handled \cup {pending[n] : n \in DOMAIN pending}

(* A held frame whose chat key is known is delivered, unless the chat is   *)
(* forgotten again first (evergram_bot_poll, drain_mailbox).               *)
KeyedFramesDelivered ==
    \A chat \in Chats :
        PendingForChat(chat) # {} /\ keys[chat] ~> PendingForChat(chat) = {} \/ ~keys[chat]

(* A chat's frames, in the order in which they stand in the array: the     *)
(* k-th is the one with k of the chat's places up to its own.              *)
QueueOf(chat) ==
    LET places == PendingForChat(chat) IN
    [k \in 1 .. Cardinality(places) |->
        pending[CHOOSE n \in places : Cardinality({m \in places : m <= n}) = k]]

AsQueues == INSTANCE MailboxQueues WITH
    queues  <- [chat \in Chats |-> QueueOf(chat)],
    refused <- dropped

(* The one array behaves as a queue per chat from which, as long as no     *)
(* handler has pumped in the drain loop, only the oldest frame is taken;   *)
(* no frame is turned away at a cap while its chat has room.               *)
ImplementsQueues == AsQueues!Spec
=============================================================================
