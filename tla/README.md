# Verification of evergram-sdk-c

TLA+ models of the Evergram C SDK (`src/src/`), the TLC configurations that
check them on small instances, and proofs by TLAPS of what matters most for
every instance. Line numbers refer to the sources under `src/src/` unless
another path is given.

1. [The system](#the-system) 2. [Modules and the code](#modules-and-the-code)
3. [Runs, bounds and fairness](#runs-bounds-and-fairness) 4. [What the code
does otherwise than it says](#what-the-code-does-otherwise-than-it-says) 5.
[Proofs](#proofs) 6. [Assumptions and what is not
modelled](#assumptions-and-what-is-not-modelled) 7. [What is
left](#what-is-left)

## The system

The SDK is a single-threaded client of a gateway. One thread calls
`evergram_poll` or, through the bot layer, `evergram_bot_poll`; everything else
happens in callbacks below that call. There are no locks; what interleaves is
the thread, the websocket library, the network, the gateway and the clock, and
inside the thread callbacks that run in the middle of other operations.

    evergram_bot_run ── evergram_bot_poll ─┬─ maybe_reconnect ── evergram_start
     (bot.c)                               ├─ evergram_poll ── transport_service
                                           │                     ├─ lws_service ── transport_callback
                                           │                     └─ parser_dispatch ── handlers
                                           ├─ apply_nickname ─┐
                                           ├─ drain_mailbox   │
                                           └─ drain_actions ──┴─ evergram_call ── transport_service

| Component | State it keeps | Operations | What makes it hard | What makes it correct |
|---|---|---|---|---|
| transport (`transport.c`) | `open`, `socket`, receive queue | connect, service, send, library callbacks | callbacks run inside `lws_service`; frames are delivered after the callbacks of the same call | whole frames, in order, of one connection at a time |
| session (`client.c`, `handshake.c`, `parser.c`, `bot.c`) | `state`, `challenge`; `online`, `next_attempt_ms`, `reconnect_attempts`, `nickname_applied` | start, open, closed, challenge, auth, register, reconnect | lost connections at every step, late frames, no deadline on the handshake | the bot comes back; what it believes about the session is so |
| requests (`client.c`, end of `dispatch_message`) | one slot: `pending`, `resolved`, `request_id`, `expected_case`, `response`; `next_request_id` | `evergram_call`, about forty wrappers, `evergram_call_finish` | late answers, 32-bit ids that wrap, handlers that make requests themselves | a call gets its own answer or none, and gives the slot back |
| mailbox (`bot.c`, `decrypt_body`) | one array of held frames, keys by chat | `bot_defer`, `drain_mailbox`, keys learned and forgotten | three caps on one array, removal under a running index, handlers inside the drain loop | nothing lost below the caps, order kept per chat, held frames delivered |
| deferred actions (`bot.c`) | a bounded queue of operations | enqueue from handlers, one executed per poll; promote reads the stored moderator list | failure after removal, stale lists | one that fails holds nobody up; a promotion loses nobody |
| chat store and sync (`chats.c`, `chatkeys.c`) | chats with versions, keys, a page counter | sync by pages, apply, forget, leave | syncs that overlap, versions recorded without a key, borrowed entries | the store converges to what the gateway has |
| pending decisions (`client.c`) | requests and invites reported but undecided | report once, accept, decline | failed decisions, decisions taken elsewhere, asks that cross an answer, bounded tables | each reported, and again only after a decision that failed |
| visitor rooms (`client.c`, `bot.c`) | room keys with roles; a bounded table of handles | create, claim, revoke, rejoin after a reconnection | eviction, roles across reconnections | a room in the table has its key and its role |
| receive queue (`rxqueue.c`) | bytes, offsets, frame marks | append, finish, pop | compaction and growth by offsets | the frames put in, whole and in order |
| identity file (`identity_file.c`) | a file | save through a temporary file, load or generate | crashes between two steps, failed loads | the identity is never lost once saved |
| backoff (`backoff.c`) | none | the delay before a retry | powers of two against a cap, counts that wrap | the doubled delay, capped, and no bit lost |

Codecs (`json.c`, `content.c`, `relay.c`, `base58.c`, `base64.c`), cryptography
(`e2ee.c`, `xrpl.c`, `identity.c`), logging, the generated protobuf code,
examples, tools and tests complete the repository.

How they interact: the transport calls the client back (`on_transport_open`,
`on_transport_closed`, frames through `parser_dispatch`), the client calls the
bot back (`bot_on_connected`, `bot_on_disconnected`, `bot_defer`), and the bot
calls the user. In the other direction the bot calls `evergram_start`,
`evergram_poll` and, between polls, the wrappers around `evergram_call`, which
services the transport itself and so runs every callback again, nested.

The hazards of this code, each at its line, are the list `hazards` of
`PROJECT.json`, with the properties that watch over them.

## Modules and the code

| Module | Models | Uses |
|---|---|---|
| `Session` | transport, connection state machine, handshake, reconnection schedule, the loop of `evergram_bot_run` | |
| `Requests` | `evergram_call`, the slot, the matching of answers, what each wrapper does with the slot | |
| `MailboxQueues` | what the mailbox promises: a queue per chat, first in first out unless disturbed, three caps | |
| `Mailbox` | the array of `bot.c`, the decision of `decrypt_body`, keys | instance of `MailboxQueues` |
| `ChatSync` | chat store, chat keys, paged synchronisation, the calls that change a chat | |
| `Decisions` | tables of pending requests and invites, the queue of deferred operations, promotions | |
| `Rooms` | room keys and their roles, the bot's table of rooms and its handles, claims | |
| `FrameQueue` | what the receive queue promises: complete frames in order, and a tail | |
| `RxQueue` | the buffer and offsets of `rxqueue.c`, the delivery loop of `transport_service`, entered again from a handler | instance of `FrameQueue` |
| `IdentityFile` | loading, generating and saving the identity, with a process that is killed | |
| `Backoff` | the delay of a reconnection, with its widths | |
| `MCCalls` | `Requests`, `ChatSync`, `Decisions` in one run: a behaviour is one of one part, the others rest | the three |
| `MCParts` | `Rooms`, `RxQueue`, `IdentityFile`, `Backoff`, `Mailbox` in one run, in the same way; symmetry of the mailbox's chats | the five |
| `SessionProofs`, `RequestsProofs`, `MailboxProofs`, `ChatSyncProofs`, `DecisionsProofs`, `RxQueueProofs` | proofs about the module of that name | that module |
| `PartsProofs` | proofs about `Rooms`, `IdentityFile`, `Backoff`, and about `MCParts`, which composes them with `RxQueue` and `Mailbox` | `MCParts`, `RxQueueProofs`, `MailboxProofs`, `NumberLemmas` |
| `NumberLemmas` | lemmas: induction over the natural numbers, sets of numbers in increasing order | |

Definitions whose name starts with `Bug` are not part of any specification:
each is the definition below it with one plausible mistake, and replacing the
one by the other makes the property it is listed with fail.

### Session

`pc` is where the one thread is: `poll` (the head of `evergram_bot_poll`), `lws`
(inside `lws_service`), `dispatch` (the delivery loop of `transport_service`),
`nickname` and `action` (the blocking calls of a poll), `slice` (the loop of
`evergram_call`, which goes through `lws` and `dispatch` again).

| Variable | Code |
|---|---|
| `open`, `socket` | `transport_t.open`, `transport_t.socket != NULL` |
| `frames`, `partial` | `transport_t.rx`: complete frames, the bytes of an unfinished one |
| `client`, `challenge` | `evergram_t.state`, `.challenge` |
| `online`, `next_attempt`, `attempts` | `evergram_bot_t`; the timestamp `next_attempt_ms` is reduced to none, waiting, due |
| `link`, `toClient`, `toGateway`, `registered`, `accepted` | the library, the network and the gateway |

Actions are the functions they are named after; each callback of the library is
one action that does all the code does under it, so `LwsClosed` contains
`on_transport_closed` and `bot_on_disconnected`. A frame remembers whether its
connection has closed since (`old`) and whether foreign bytes stand in front of
it (`whole`). A behaviour begins with one of the sets of faults in `FaultSets`
and draws them from a budget, `faults.left`; a property may therefore speak of
the behaviours in which only some kinds occur, as `OutageEnds` does.

### Requests

`pc` is `free`, `calling` (the loop of `evergram_call`) or `reading` (the wrapper
looks at the response until `evergram_call_finish`). `serial` numbers messages
in the model only; the code knows a request by `request_id`, taken by
`evergram_take_request_id`, and by the kind of answer it expects. Properties
compare serials, so they notice when two requests are confused.

Wrappers differ in what they do when `evergram_call` fails. Most finish only
after success (`FinishesOnSuccess`); those for purchases, widgets, decisions,
rooms and channels finish always (`FinishesAlways`), which releases a slot that
may be another call's. `Refused` is this difference. `DeliverEvent` is a handler
that makes a request during a call, `Snapshot` one that does so while the
response is still being read. Once such a request has released the slot, the
next one would go out from inside the call; that is not followed.

### Mailbox

`pending` is the array, `index` that of `drain_mailbox`, from 1, and `pc` says
whether the bot is servicing the transport, draining, or in a handler the drain
loop called. Such a handler may pump the transport (`Pumping`): envelopes and
keys then arrive and chats are forgotten in the middle of the loop, which
`disturbed` records until the loop ends. `Defer` has the three caps and, below
them, the two allocations that may fail (`bot.c:222`, `bot.c:230`; `starved`).
The client stores one key per chat. Deletions, typing and withdrawn reactions
carry nothing sealed and are the frames with `sealed` FALSE.

`MailboxQueues` does not know the array or the index. The refinement mapping
(`QueueOf`) makes the k-th frame of a chat's queue the one whose place has rank
k among the places the chat has in the array; keys and handler calls are
stuttering steps of it. While a handler has pumped in the drain loop a delivery
may take another frame than the oldest: the loop then meets a frame held, and
its key learned, behind its index before it comes round to an older one. A step
that delivers out of order at any other time, refuses a frame although there is
room, or removes two at once is not a step of `MailboxQueues`.

### ChatSync

A chat is a number, in the order in which the gateway pages through them, and a
page carries one chat, the finest cut a contract may make. `entries` and
`count` are the array of `chats.c` with what lies behind its end, since that is
what a borrowed id may come to point at; `keys` is the generation of the key
held. A query carries the versions known when it was sent, so pages, answers
and the queries that follow cross as on the wire. Versions are not bounded: a
chat's grows with every rotation, and the number of steps bounds how often.
`Apply` is `chats_upsert` and the key that comes with the record, `Forget` is
`evergram_forget_chat`, `Continue` the cursor with the budget of pages.
`LeaveDropsChat` reads the caller's id twice, as `evergram_chat_leave` does,
which matters only when the id is borrowed (`BorrowedIds`).

### Decisions

A key is an identity that asks for a chat or a chat an invite is for; the
tables of the code are the two parts of `pending`. `Note` reports every key of a
message that is new and fits. Which of several that do not fit are dropped
depends on the order of the message, hence the choice. `actions` is the bot's
queue, `task` the operation under way, `EndCall` what the wrappers do when it is
over: they forget the key whatever came of it. `ask`, `reports`, `failures`,
`missed` and `settled` are history: messages carry the number of the ask they
speak of, so that a late message about an old ask is told from the new ask of
the same key.

### Rooms

`roomKeys` holds the role each key is tagged with, `rooms` and `roomCount` the
bot's table, whose places are the handles the application gets (`kept` is one
it holds on to, until its room leaves the table: the model's application lets
go of it then, `LetGoOf`). `holder` is whose the joiner's slot is at the
gateway: it belongs to a socket, so `LoseSocket` frees it. Of the relay frames
only those that claim a room or end it are told apart. `loose` are rooms with a
key and without an entry (forgotten, registered without a handle, pushed out of
a full table), `unclaimed` those registered since the last authentication.

### RxQueue, IdentityFile, Backoff

In `RxQueue` a byte is known by its message and its place in it, `ends` are the
end offsets, `completed` the messages whose end was marked, with their lengths,
and `services` the calls of `transport_service` under way, outermost first. The
refinement mapping cuts the buffer at the offsets into the queue and the tail of
`FrameQueue`. `ReceiveFails` is a fragment for which there is no memory: the
connection closes, and what is in the buffer stays. `Connects` is the next
connection; nothing it does touches the buffer.

`IdentityFile` has one action per system call, between any two of which the
process may be killed; the file may be absent, damaged, in today's form or in
the older one whose keys are derived. `Backoff` is one call with every argument
of its type, one step an iteration of the loop, with `Word32` and `Word64` one
more than the largest value of either width.

## Runs, bounds and fairness

| Run | Shows |
|---|---|
| `session` | with three faults of all eight kinds, or of the four a bot recovers from: a down client always has a retry scheduled and only then; frames never cross connections; an authenticated open session was accepted on its own connection; an online bot carries no retry; the handshake goes on only over a connection; each failure is counted once; an outage ends in service, in a stop, or in one of three named dead ends, and there is no fourth; with the four kinds only, every outage ends in service or in a stop |
| `calls` | `Requests`: with late and lost answers and ids that wrap, every call returns, with its own answer or none, and the slot is free afterwards. `ChatSync`: with lost connections, keys that do not open, repeated cursors, overlapping syncs and calls in between, keys follow the stored versions, every sync ends, and then the store agrees with the gateway on every chat the sync was answerable for. `Decisions`: with refusals, timeouts, outages and decisions taken elsewhere, limits are kept, an ask is reported, and again only after a decision that did not settle it, entries at rest mean somebody waits, the queue of operations drains |
| `mailbox_queues` | with handlers that pump the transport and memory that may run out: `Mailbox` implements `MailboxQueues`, no frame disappears but at a cap or for want of memory, keyed chats have their held frames delivered |
| `parts` | `Rooms`: keys and table agree, rooms are claimed again after an outage and no visitor's slot is taken. `RxQueue`: it implements `FrameQueue`, every frame ends with one whole message, and frames are handed over in order. `IdentityFile`: the file is replaced whole, and a running bot is the one it will be. `Backoff`: the delay is the reference's. `Mailbox`: the three caps hold |
| `session_connect_error`, `session_late_frames`, `requests_nested`, `chat_sync_borrowed`, `decisions_reported_again`, `decisions_promotion`, `rooms_handle_moves`, `rxqueue_cut_frames` | violations of what the repository says, [below](#what-the-code-does-otherwise-than-it-says) |

**Bounds.** `MaxFaults` = 3 faults in one behaviour of `Session`: one to break the
session, one to hit the recovery, one to hit the recovery from that. An attempt
is counted only when something failed (`EachFailureCountedOnce`), so the budget
bounds the counter too. `IdMax` = 5 with `FirstId` = 3 and four messages puts the
wrap of the request ids, past 0, in the middle of a behaviour. Caps of 2 per
chat, 2 chats and 3 in total let each cap of the mailbox be the one that refuses:
`parts` has three chats, four frames, sealed or not, and no failing memory for
that. `mailbox_queues`, which also checks liveness and the refinement, has two
chats, three sealed frames and one failure of memory, enough for a removal to
bring two frames of one chat out of order and for a frame to be held behind the
index; `NothingLost`, the caps and the refinement are proved for every number.

`ChatSync` has three chats against a budget of two pages, so a sync is cut
short, may be answered in two pages, and the store can lose an entry in the
middle; two steps by others, calls or syncs besides the sync of every
authentication let two syncs overlap with a change between them, or a call cross
a sync. `Decisions` has tables of one place, two requesters that compete for it
and an invite that does not, two steps (`MaxMoves`) and two faults; an ask, its
decision and another ask need the answer of the first in flight. `parts`: three
rooms of visitors and a table of two (one room is pushed out while another is
moved), one room of the client's own, four events; four messages in fragments
of up to two bytes and a buffer of four; four identities and mishaps; every
argument of an 8-valued `uint32_t`. Sequences and counters are otherwise bounded
by these. With one bound raised at a time (chats and three steps in `ChatSync`,
three steps, or five with one requester, in `Decisions`, six events in `Rooms`)
the properties hold as well; those runs take too long to keep.

**Deadlock** is checked in the runs of `Session` and `Mailbox` and in
`requests_nested`. `Session` stops only in `Exited` and `Requests` only in
`Quiet`, when the bound on messages is used up; both are steps that change
nothing, named for it. In `ChatSync`, `Decisions` and the parts the client may
really be left with nothing to do, when the bounded steps of others are used
up, so the runs with them say `CHECK_DEADLOCK FALSE`.

**Fairness** of `Session`: the loop runs (`evergram_bot_run` never blocks for
longer than its poll), calls meet their deadline (`SF` on `CallReturns`, since
the clock that `evergram_call` compares with advances whether or not frames
keep arriving), the backoff elapses, and the environment does in the end what
it was asked: a connection attempt has an outcome, a broken socket is closed, a
message on a live link is received and answered. The strong fairness of the
library's actions says that `lws_service`, entered again and again with an event
ready, reports it in the end. Nothing is assumed about faults, nor that a
connection stays up once the budget is spent. `Requests`: `WF(CallEnds)`, time
passes and the calling thread runs; the gateway owes no answer. `Mailbox`:
`WF(Poll)` and `[]<>(pc = "service")`, that is the application polls, its handlers
return, and they do not feed the drain loop with frames of keyed chats for ever;
no key need arrive. `ChatSync`: the gateway answers what reached it
(`GatewayRuns`), the loop dispatches what arrived, a call with an answer returns
and a lost connection comes back (`ClientRuns`), which is what `OutageEnds` of
`session` shows of it. `Decisions`: the same as `GatewayMoves` and `BotMoves`, the
second with the head of the queue. No fairness for changes, faults or timeouts.
In `MCCalls` each of these is claimed while the behaviour is one of that part. The
parts of `MCParts` are checked for safety only.

## What the code does otherwise than it says

* **`session_connect_error`** (`transport.c:130`). An attempt that fails after
  it was started is reported as `LWS_CALLBACK_CLIENT_CONNECTION_ERROR`. The
  callback clears `open` and logs; the socket pointer, the client's state
  (CONNECTING) and the bot's schedule stay. `evergram_start` would refuse, and
  nobody calls it: the bot stays away although `include/evergram/bot.h:33` says
  "Later reconnects are automatic."
* **`session_late_frames`** (`transport.c:285`). Frames queued by `lws_service`
  are dispatched after the close callback of the same call. An auth response
  among them makes the client AUTHENTICATED, cancels the retry and sets
  `online` over a closed transport; `include/evergram/bot.h:58` says
  `evergram_bot_is_online` is "True between authentication and the next
  disconnection."
* **`chat_sync_borrowed`** (`chats.c:195`). `chats_remove` moves the entries
  behind the one that goes. An id that the application took from
  `evergram_chat_get` and passed to `evergram_chat_leave` then names another
  chat when a page dispatched during the call removes an earlier one, and once
  more between the removal of the entry and that of the key (`client.c:1628`).
  `include/evergram.h:149` says of the view that it is "Invalidated when that
  chat is updated by the gateway or the client is destroyed."
* **`decisions_promotion`** (`bot.c:1101`). A promotion sends the stored
  moderators and one more, and its answer does not change the store. A second
  promotion before the next sync sends a list without the first.
  `include/evergram/bot.h:88`: "Appends identity to the chat's moderator list,
  preserving the current one."
* **`requests_nested`** (`client.c:716`). A request made by a handler during a
  call is refused with `EVERGRAM_ERR_STATE`, and a wrapper of the kind
  `FinishesAlways` then releases the slot of the call in flight: its answer is
  delivered, matches nothing, and the call times out. `src/internal.h:266`:
  "Sends a request and pumps the transport until its response arrives."
  `src/README.md:145` asks users to keep such calls out of handlers; the proofs
  about the slot say so as a hypothesis (`Gentle`), and `calls` has only
  handlers that keep to it.
* **`decisions_reported_again`** (`client.c:2478`). A wrapper that decides
  forgets the request also when the decision failed, and the next sync reports
  it again. `include/evergram.h:346`: "fires for a live request and again from
  the boot sync for one that was already waiting (once per request, never
  twice)". A comment in `client.c` says this is meant; that it happens only
  then is `ReportedAgainOnlyAfterFailure`.
* **`rooms_handle_moves`** (`bot.c:329`). Handles are pointers into the room
  table, and `remove_room` moves the last entry into the place that becomes
  free. The handle of a room that is still served then names no room, or
  another one. `include/evergram/bot.h:130`: a handle "is handed to every
  visitor handler for the same room so a bot can keep acting on it across the
  whole exchange."
* **`rxqueue_cut_frames`** (`transport.c:140`). Neither closing nor connecting
  clears the receive queue: the bytes of a message that was cut off begin the
  next connection's first frame. `src/transport.h:13`: "the receiver never sees
  partial frames". `FramesWhole` says what is left of that promise; in
  `Session` this is the fault `cut_frame` and a cause of one of the three dead
  ends.

Some behaviour that the models show contradicts no document and has no run:

* The entry of a request settled on another device, or a full table, hides an
  ask until the next sync begins (`missed` in `EveryAskReported`).
* A wallet that cannot be read for a passing reason is replaced by a new one
  (`misread` in `ReplacedWhole`).
* A room pushed out of a full table keeps its key and is claimed again after
  every outage, while its messages come with a NULL handle (`loose`).
* An answer without request id is matched by its kind alone, so the late answer
  of a call that gave up is taken for the next call of that kind (`Numbered` =
  FALSE).
* A frame that outruns a rotated key is emitted without text, because a chat with
  any key never defers: `src/README.md:155` says of the text that it is NULL when
  decryption fails.

## Proofs

TLAPS checks eight proof modules, for every value of the constants that
satisfies the named assumptions of the modules they are about. Seven are about
components. The eighth, `NumberLemmas`, has what two of them need: the
library's induction theorems take the property as an operator, which no
installed prover can instantiate, so `NatSetInduction` says it with the set of
the numbers that have the property, from the library's proof that finite sets
are well-founded under inclusion; and `InOrder` is a finite set of numbers
written in increasing order, by rank, with the proof that there is one such
enumeration and no other.

**Session** (`FaultsAssumption`, `BoundsAssumption`). `Inductive` is the safety
properties with what they rest on. `IdleIffScheduled` and
`NoFrameCrossesConnections` are not inductive: the second needs that frames are
queued only inside `transport_service` (`DrainedOutsideService`), that none is
left while a connection is being made (`ConnectingIsEmpty`), and that an IDLE
client has no link (`IdleIsDown`), since a connection starts only from IDLE.
`HandshakeNeedsConnection` and `EachFailureCountedOnce` are carried by
`Handshaking`: the attempts counted, the faults left and one more for a broken
link not yet reported are never more than `MaxFaults`. `AuthenticatedHere`
needs that an `auth_ok` under way, or queued and not old, was sent after an
acceptance on the same link (`AcceptanceUnderWay`), and that `open` tracks the
link. Each action has its lemma, under it one step per conjunct it can disturb,
and `NextInductive` collects them.

| Theorem | Property |
|---|---|
| `SessionIdleIffScheduled` | `IdleIffScheduled` |
| `SessionNoFrameCrosses` | `NoFrameCrossesConnections` |
| `SessionAuthenticatedHere` | `AuthenticatedHere` |
| `SessionOnlineCarriesNoRetry` | `OnlineCarriesNoRetry` |
| `SessionHandshakeNeedsConnection` | `HandshakeNeedsConnection` |
| `SessionEachFailureCountedOnce` | `EachFailureCountedOnce` |

**Requests** (`KindsAssumption`, `IdsAssumption`). The n-th message has the id
`Assigned` gives it, one round of ids that skips 0; while fewer messages are
sent than there are ids (`MaxRequests <= IdMax`), an id determines its message
(`IdDetermines`). Every answer under way and the call itself carry their assigned
id (`Numbering`), so what matches the slot answers the call that filled it
(`SlotIsCallers`, `OwnAnswer`), across the wrap. That half needs only that the
gateway echoes ids (`Numbered = TRUE`). What the slot does after a refusal needs
also that handlers keep to kinds that leave a refused slot alone (`Gentle`);
`requests_nested` shows that this cannot be dropped.

| Theorem | Property | Under |
|---|---|---|
| `RequestsTypeCorrect` | `RequestTypeOK` | |
| `RequestsOwnAnswer` | `OwnAnswer` | `Numbered` |
| `RequestsSlotFollowsCall` | `SlotFollowsCall` | `Numbered`, `Gentle` |

**Mailbox** (`CapsAssumption`, `BoundsAssumption`, `ChatsAssumption`,
`SealedAssumption`). `MailboxInv` is the
invariants and that the frames seen are finitely many, which bounds their
numbers. The caps need that removing an element makes none of the three counts
larger: `RemoveAtMoves` says what `pending_remove` does to the array, and facts
about subsets and cardinality do the rest.

| Theorem | Property |
|---|---|
| `MailboxAlwaysTyped` | `MailboxTypeOK` |
| `CapsAlwaysHold` | `CapsHold` |
| `NothingEverLost` | `NothingLost` |
| `MailboxImplementsQueues` | `ImplementsQueues` |

The refinement goes step by step: a frame is held or refused in the array when it
is in the queues (`Hold`, `Refuse`), since the caps count the same frames, and
what takes a frame out of the array is `Deliver` of its chat. For the last the
frame at the drain index has to be its chat's first. That is what
`PassedWithoutKey` is for: unless `disturbed`, no chat whose frame the index has
passed has a key, because no key arrives while the loop runs. That
the other chats' queues, and the rest of this one's, are what they were is then
the uniqueness of the enumeration: the places left, moved down, are in order
again.

**ChatSync** (`SizesAssumption`, `HazardsAssumption`). That the store has room for
every chat it is told of is not a matter of types: it needs `Distinct`, that no
chat is in it twice, from which the entries map one to one into the chats, and
an unknown chat leaves a place free. `KeysFollowStore` is proved entry by entry
(`KeysByEntry`), under the hypothesis that no borrowed id is passed to a call
(`OwnIds` carries it); `chat_sync_borrowed` shows why that is needed.

`SyncReaches` speaks of the moment when nothing is in flight; its invariant
`SyncInv` says what everything in flight is good for until then.

* `Behind`: nothing stored, told or asked is newer than the gateway's version, and
  version 0 is an absent chat. `NewestLast`: once a chat's newest version is
  stored or on its way, nothing older follows it, so a late answer cannot undo
  a page.
* `IdsOK`: each call's id travels once, as the request or as its answer, and
  nothing more of a call is in flight when it was answered (`CallAlone`).
* `OneToken`: a sync nothing strained is one message at a time, a query or its
  page, and its page number is the chat's, so a budget of `MaxPages` pages that
  runs out has answered for the first `MaxPages` chats.
* `Served`: for a chat nobody changed since the sync began, the newest version is
  stored or on its way, or a page with a cursor before the chat is, or a query
  that will find it changed (`MemberServed`). For a chat that is gone it is the
  same with the page that reports it missing or the answer to the caller's own
  leave, and whatever would still bring the chat back has such a message behind
  it (`GoneServed`, `ClearedLater`).

With the queues empty and no call under way only the first alternative is left.

| Theorem | Property | Under |
|---|---|---|
| `StoreAlwaysTyped` | `TypeOK` | |
| `KeysAlwaysFollow` | `KeysFollowStore` | `~BorrowedIds` |
| `SyncAlwaysReaches` | `SyncReaches` | `~BorrowedIds` |

**Decisions** (`KeysAssumption`, `LimitsAssumption`). An answer says which
operation it is for, so operations need distinct ids: they are taken downwards
from the steps left, and each is in the queue, under way or in flight once
(`Ids_OK`). A key that this client's decision settled may still be listed by a
message sent before, but only ahead of the answer (`ListedAhead`), so an entry
made from it is gone when the call ends (`PendingHeld`). `Accounts` is
`ReportedAgainOnlyAfterFailure` with what makes it inductive: a key that is not
pending has as many failures as reports, or nobody waits and nothing in flight
lists it (`Quiet`).

| Theorem | Property |
|---|---|
| `DecisionsAlwaysTyped` | `DecisionTypeOK` |
| `OnlyFailuresReportAgain` | `ReportedAgainOnlyAfterFailure` |
| `PendingAlwaysWaits` | `PendingMeansWaiting` |

**Rooms** (`RoomsAssumption`). `RoomInv` adds that claims in flight, offers in
flight and joiner tags are of rooms of visitors (`ClaimsSafe`), since a claim
of a room the client opened could only come from those. `ClaimsStand` is what
becomes of a room's slot while the client is online: it is held, or a claim of
it is on its way, in both cases with nothing behind that would end the room; or
its end is being told; or the room was registered since the last
authentication. After an outage the claims of all joiner tags are on their way
at once, as the sequence of rejoined rooms is an enumeration of the set: one to
one and of the same size, so it covers the set (`RejoiningCovers`).

| Theorem | Property |
|---|---|
| `RoomsAlwaysTyped` | `RoomTypeOK`, a part of `PartsTypeOK` |
| `RoomsAlwaysAgree` | `RoomsAgree` |
| `RoomsAlwaysReclaimed` | `Reclaimed` |
| `CreatorSlotsAlwaysFree` | `CreatorSlotsFree` |

**RxQueue** (`RxQueueAssumption`). `BytesLabelled` says that the last bytes of
the tail are those of the message under way, in order from its first, so that a
frame marked there ends with that message whole. `ServicesInv` how far the
frames handed over are ahead of those popped, for each nesting of
`transport_service`: the head has been handed over exactly while a handler runs
for it, and a handler whose frame an inner loop took finds the queue empty. The
refinement goes step by step: a fragment that completes a frame is `Complete`,
one that does not is `Push`, and moving the bytes and their offsets is `Pop`,
since every frame keeps its bytes.

| Theorem | Property |
|---|---|
| `OffsetsAlwaysInOrder` | `RxTypeOK` and `OffsetsInOrder` |
| `FramesAlwaysWhole` | `FramesWhole` |
| `AlwaysHandedInOrder` | `HandedInOrder` |
| `RxQueueImplementsFrameQueue` | `ImplementsFrameQueue` |

**IdentityFile, Backoff** (`IdentityFileAssumption`, `WordsAssumption`).
`SavingInv` says what the two files hold at each point of saving. `DelayBounded`
bounds the delay inside the loop by twice the cap's word, which is what keeps
the doubling within 64 bits. `DelayFollows` is the loop's invariant: the delay is
the base shifted by the number of doublings done, so where the loop stops, at
the attempt or past the cap, the capped delay is that of the reference. What a
power of two is comes from `NatSetInduction` over the function that defines it.

| Theorem | Property |
|---|---|
| `AlwaysRunsAsSaved` | `RunsAsSaved` |
| `AlwaysReplacedWhole` | `ReplacedWhole` |
| `DelayAlwaysBounded` | `BackoffTypeOK` and `DelayBounded` |
| `DelayAlwaysReference` | `DelayIsReference` |

**The parts together.** Each step of `MCParts` is a step of one part and a stutter
of the others, so the composition implies the specification of each, and what
was proved of a part holds of it there: `PartsAlwaysTyped` (`PartsTypeOK`) and
`PartsKeepTheirProperties`, the other properties of the run `parts`.

**Only model-checked.** Every liveness property (`OutageEnds`,
`OutageEndsOrIsKnown`, `CallsReturn`, `KeyedFramesDelivered`, `SyncsEnd`,
`EveryAskReported`, `QueueDrains`): the prover does not handle fairness and
ENABLED. Every other property of a passing run is proved, some of them under
the hypotheses given with them.

## Assumptions and what is not modelled

* `Session`: the bot has a name, so `apply_nickname` makes its call. The
  library reports the end of every connection that was established as
  `LWS_CALLBACK_CLOSED`, also where a callback ended it (`transport.c:122`).
  That is an assumption about the version of the library: the code handles no
  other close callback, and where another comes instead, no close is noticed.
  `lws_service` failing as a whole and failed allocations are left out. A
  message with foreign bytes in front either does not parse or is read as what
  it is. Whether an action is queued is left open (`DrainAction`, `NoAction`).
  The gateway answers each handshake request once, in order.
* `Requests`: a message that cannot be written still spends its id. An answer
  outstanding for a whole round of 2^32 - 1 ids is out of scope
  (`IdsAssumption`). One handler makes at most one request per delivered frame,
  and where that request released the slot (`requests_nested`) a second one,
  which would then be sent from inside the call, is not followed.
* `Mailbox`: frames are byte-for-byte equal only if the gateway sent one twice;
  a duplicate that arrives at a cap changes nothing in either module. A chat
  that is forgotten keeps its frames, as in the code. A chat has a key or has
  none: that a key is rotated, and a frame then opens or not, is not told
  apart, since `decrypt_body` defers only without any. Memory may fail in
  `bot_defer` (`MaxFailures`: one in `mailbox_queues`, none in `parts`, any
  number in the proofs). The order per chat is claimed only where no handler
  pumped in the drain loop, which `src/README.md:145` forbids.
* `ChatSync`: the gateway reports a chat as newer, gone or not at all, one per
  page, in a fixed order; names, participants and metadata versions are left
  out, and so is memory that runs out while a record is stored. The answer to a
  registration may carry rotated keys (`rotated_sym_keys`) and the one to an
  accepted request a chat; `DispatchAnswer` leaves both to the sync that
  follows. A chat that others bring back while a leave is being answered is
  dropped with it until the next sync (`dirty`).
* `Decisions`: the sync is answered in one page here. Of the thirteen deferred
  operations two are told apart; those that send or change a chat touch nothing
  of this module. Someone who asks again has first been decided on, or has
  withdrawn. A table that cannot grow for want of memory (`client.c:2330`) is
  left out.
* `Rooms`: the gateway grants a claim where the slot is free or this socket's,
  answers one for a room that is gone with its end, and names rooms once. What
  relay frames say, and a channel's moderation, are left out. The application
  lets go of a handle when its room leaves the table (`LetGoOf`).
* `RxQueue`: a fragment that cannot be stored closes the connection. Capacities
  are left out; `rxqueue_clear` is never called. A handler enters
  `transport_service` at most once more, since a call in flight refuses
  another.
* `IdentityFile`: what a process has written is there after it was killed.
  Nothing is synchronised to the disk, so a power cut may lose more than the
  model does; no document promises otherwise.
* Sets of chats, keys and rooms are finite (`ChatsAssumption`,
  `KeysAssumption`, `RoomsAssumption`).
* Not modelled: codecs (`json.c`, `content.c`, `relay.c`, `base58.c`,
  `base64.c`), cryptography (`e2ee.c`, `xrpl.c`, `identity.c`) and logging are
  sequential functions of bytes without a state to explore, covered by the
  repository's own vectors in `src/tests/`; `src/src/proto` is generated, and
  most of the repository's lines. What remains of `client.c` and `bot.c` are
  wrappers that copy an answer to the caller, registration of handlers, and
  argument checks.

## What is left

An abstract reconnection, down, up and given up, refined by `Session`; safety
halves of the liveness properties, such as that a waiting ask is always in a
message under way, in a table, or owed by the next sync, which could be proved; a
composition of `Rooms` with the queue of `Decisions`, since a bot may end a room
from a deferred operation.
