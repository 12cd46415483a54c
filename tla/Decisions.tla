----------------------------- MODULE Decisions ------------------------------
(***************************************************************************)
(* Requests that wait for a decision and the operations a bot defers: the  *)
(* tables of pending chat requests and group invites (client.c 2298-2401,  *)
(* 2440-2597), filled by live events and by every sync (parser.c 544-574,  *)
(* 931-967), and the queue of deferred operations (bot.c 1063-1207), which *)
(* the bot's loop works off one per poll, outside any handler.             *)
(*                                                                         *)
(* A key is the identity that asks for a chat, or the chat an invite is    *)
(* for.  The gateway, the people who ask and the account's other devices   *)
(* are the environment.  Of the operations a bot may queue two are told    *)
(* apart: a decision on a key and the promotion of a member; the others    *)
(* touch nothing of this and wait in the queue as a promotion does.        *)
(***************************************************************************)
EXTENDS Naturals, Sequences, FiniteSets

CONSTANTS
    Requesters, Invites,   \* the keys of the two tables
    Members,               \* members of the one chat whose roles matter
    MaxPending,            \* EVERGRAM_MAX_PENDING_REQUESTS, ..._INVITES
    MaxActions,            \* BOT_MAX_ACTIONS
    MaxMoves,              \* bound: asks, decisions elsewhere, syncs, operations
    MaxFaults              \* bound: refusals, timeouts and lost connections

Keys == Requesters \cup Invites

ASSUME KeysAssumption == Requesters \cap Invites = {} /\ IsFiniteSet(Keys)
ASSUME LimitsAssumption ==
    /\ MaxPending \in Nat \ {0} /\ MaxActions \in Nat \ {0}
    /\ MaxMoves \in Nat /\ MaxFaults \in Nat

VARIABLES
    waiting, moderators,   \* gateway: keys without a decision; the chat's moderators
    outgoing, incoming,    \* messages in flight, in order
    linked,                \* evergram_t.state = EG_STATE_AUTHENTICATED
    moves, faults,         \* how many more
    pending,               \* evergram_t.pending_requests and .pending_invites
    stored,                \* the moderators of the chat store's entry
    actions,               \* evergram_bot_t.actions
    task,                  \* the operation whose evergram_call runs, and its status
    ask, reports, failures,\* history: the number of a key's last ask, how often that
                           \*   was reported, how often deciding on it did not succeed
    missed, settled        \* history: see EveryAskReported and PendingMeansWaiting

askerVars  == <<waiting, moderators>>
linkVars   == <<outgoing, incoming, linked>>
boundVars  == <<moves, faults>>
reportVars == <<ask, reports, failures, missed, settled>>
decisionVars == <<askerVars, linkVars, boundVars, pending, stored, actions, task, reportVars>>

OperationIds == 1 .. MaxMoves
Operations == [kind : {"decide"}, key : Keys, id : OperationIds]
              \cup [kind : {"promote"}, member : Members, id : OperationIds]
NothingRuns == [kind |-> "none"]
Runs == [operation : Operations, status : {"waiting", "ok", "failed"}]

Demands == [kind : {"query"}]
           \cup [kind : {"decide"}, key : Keys, id : OperationIds]
           \cup [kind : {"roles"}, moderators : SUBSET Members, id : OperationIds]
(* Messages carry, for the history, which ask of each key they speak of.   *)
Asks == 0 .. MaxMoves
Arrivals == [kind : {"asked"}, keys : SUBSET Keys, of : [Keys -> Asks]]
            \cup [kind : {"sync"}, keys : SUBSET Keys, of : [Keys -> Asks],
                  moderators : SUBSET Members]
            \cup [kind : {"answer"}, id : OperationIds, ok : BOOLEAN]

Table(k) == IF k \in Requesters THEN Requesters ELSE Invites

(* The two tables and the queue keep their limits, and a call is never     *)
(* under way without the loop being in it.                                 *)
DecisionTypeOK ==
    /\ waiting \subseteq Keys /\ moderators \subseteq Members
    /\ outgoing \in Seq(Demands) /\ incoming \in Seq(Arrivals) /\ linked \in BOOLEAN
    /\ moves \in 0 .. MaxMoves /\ faults \in 0 .. MaxFaults
    /\ pending \subseteq Keys
    /\ \A k \in pending : Cardinality(pending \cap Table(k)) <= MaxPending
    /\ stored \subseteq Members
    /\ actions \in Seq(Operations) /\ Len(actions) <= MaxActions
    /\ task \in Runs \cup {NothingRuns}
    /\ ask \in [Keys -> Asks] /\ reports \in [Keys -> Nat] /\ failures \in [Keys -> Nat]
    /\ missed \subseteq Keys /\ settled \subseteq Keys

DecisionInit ==
    /\ waiting \in SUBSET Keys /\ moderators = {}
    /\ outgoing = <<>> /\ incoming = <<>> /\ linked = FALSE
    /\ moves = MaxMoves /\ faults = MaxFaults
    /\ pending = {} /\ stored = {} /\ actions = <<>> /\ task = NothingRuns
    /\ ask = [k \in Keys |-> 0]
    /\ reports = [k \in Keys |-> 0] /\ failures = [k \in Keys |-> 0]
    /\ missed = {} /\ settled = {}

Move  == moves > 0 /\ moves' = moves - 1 /\ UNCHANGED faults
Fault == faults > 0 /\ faults' = faults - 1 /\ UNCHANGED moves

-----------------------------------------------------------------------------
(* The gateway, the people who ask, the account's other devices.           *)

Ask(k) ==
    /\ Move /\ k \notin waiting
    /\ waiting' = waiting \cup {k} /\ ask' = [ask EXCEPT ![k] = @ + 1]
    /\ incoming' = IF linked
                   THEN Append(incoming, [kind |-> "asked", keys |-> {k}, of |-> ask'])
                   ELSE incoming
    /\ reports' = [reports EXCEPT ![k] = 0] /\ failures' = [failures EXCEPT ![k] = 0]
    /\ missed' = missed \ {k} /\ settled' = settled \ {k}
    /\ UNCHANGED <<moderators, outgoing, linked, pending, stored, actions, task>>

(* Another device of the account decides, or the asker takes it back: the  *)
(* gateway tells this client nothing.                                      *)
DecideElsewhere(k) ==
    /\ Move /\ k \in waiting
    /\ waiting' = waiting \ {k} /\ settled' = settled \cup {k}
    /\ UNCHANGED <<moderators, linkVars, pending, stored, actions, task,
                   ask, reports, failures, missed>>

(* A sync reply lists every key that waits, and the chat's roles.          *)
GatewayAnswersSync ==
    /\ outgoing # <<>> /\ Head(outgoing).kind = "query"
    /\ incoming' = Append(incoming,
                          [kind |-> "sync", keys |-> waiting, of |-> ask,
                           moderators |-> moderators])
    /\ outgoing' = Tail(outgoing)
    /\ UNCHANGED <<askerVars, linked, boundVars, pending, stored, actions, task, reportVars>>

(* A decision settles its key, new roles replace the old ones wholesale;   *)
(* the gateway may refuse either.  Nobody may be waiting for the answer.   *)
GatewayDecides ==
    /\ outgoing # <<>> /\ Head(outgoing).kind # "query"
    /\ LET request == Head(outgoing)
           sound   == request.kind = "decide" => request.key \in waiting
           heard   == task # NothingRuns /\ task.operation.id = request.id IN
       \E agrees \in BOOLEAN :
          /\ agrees => sound
          /\ IF sound /\ ~agrees THEN Fault ELSE UNCHANGED boundVars
          /\ waiting' = IF agrees /\ request.kind = "decide"
                        THEN waiting \ {request.key} ELSE waiting
          /\ settled' = IF agrees /\ request.kind = "decide" /\ ~heard
                        THEN settled \cup {request.key} ELSE settled
          /\ moderators' = IF agrees /\ request.kind = "roles"
                           THEN request.moderators ELSE moderators
          /\ incoming' = Append(incoming,
                                [kind |-> "answer", id |-> request.id, ok |-> agrees])
    /\ outgoing' = Tail(outgoing)
    /\ UNCHANGED <<linked, pending, stored, actions, task, ask, reports, failures, missed>>

-----------------------------------------------------------------------------
(* The tables.  Definitions named Bug... are the definition below them     *)
(* with a plausible mistake: they show that some property notices.         *)

(* evergram_note_chat_request, evergram_note_group_invite, for the keys a  *)
(* message carries: new ones are reported.  In the history an ask counts   *)
(* as missed when it is not reported because an entry of its key is in the *)
(* table already, or because the table is full.                            *)
Full(k) == Cardinality(pending \cap Table(k)) >= MaxPending

TakesIn(new, keys, of) ==
    /\ pending' = pending \cup new
    /\ reports' = [k \in Keys |-> reports[k] + IF k \in new /\ of[k] = ask[k] THEN 1 ELSE 0]
    /\ missed' = missed \cup {k \in keys \ new : /\ of[k] = ask[k] /\ reports[k] = 0
                                                 /\ k \in pending \/ Full(k)'}

BugNoteRepeats(keys, of) ==
    \E new \in SUBSET keys :
       /\ TakesIn(new, keys, of)
       /\ \A k \in new : Cardinality(pending' \cap Table(k)) <= MaxPending
       /\ \A k \in keys \ pending' : Full(k)'

BugNoteFirst(keys, of) ==
    \E new \in SUBSET (keys \ pending) :
       /\ TakesIn(new, keys, of)
       /\ Cardinality(new) <= 1
       /\ \A k \in new : Cardinality(pending' \cap Table(k)) <= MaxPending

BugNoteUnbounded(keys, of) == TakesIn(keys \ pending, keys, of)

(* A key already in its table is not reported again, and a full table      *)
(* drops the rest: which ones the order of the list decides.               *)
Note(keys, of) ==
    \E new \in SUBSET (keys \ pending) :
       /\ TakesIn(new, keys, of)
       /\ \A k \in new : Cardinality(pending' \cap Table(k)) <= MaxPending
       /\ \A k \in keys \ pending' : Full(k)'

DispatchAsked ==
    /\ incoming # <<>> /\ Head(incoming).kind = "asked"
    /\ Note(Head(incoming).keys, Head(incoming).of)
    /\ incoming' = Tail(incoming)
    /\ UNCHANGED <<askerVars, outgoing, linked, boundVars, stored, actions, task,
                   ask, failures, settled>>

DispatchSync ==
    /\ incoming # <<>> /\ Head(incoming).kind = "sync"
    /\ stored' = Head(incoming).moderators
    /\ Note(Head(incoming).keys, Head(incoming).of)
    /\ incoming' = Tail(incoming)
    /\ UNCHANGED <<askerVars, outgoing, linked, boundVars, actions, task,
                   ask, failures, settled>>

DispatchOutcome ==
    /\ incoming # <<>> /\ Head(incoming).kind = "answer"
    /\ LET answer == Head(incoming) IN
       task' = IF task # NothingRuns /\ task.operation.id = answer.id
               THEN [task EXCEPT !.status = IF answer.ok THEN "ok" ELSE "failed"]
               ELSE task
    /\ incoming' = Tail(incoming)
    /\ UNCHANGED <<askerVars, outgoing, linked, boundVars, pending, stored, actions,
                   reportVars>>

-----------------------------------------------------------------------------
(* The queue of operations.                                                *)

(* enqueue_action: a full queue refuses, and the caller is told.           *)
Enqueue(operation) ==
    /\ Move /\ Len(actions) < MaxActions
    /\ actions' = Append(actions, operation)
    /\ UNCHANGED <<askerVars, linkVars, pending, stored, task, reportVars>>

(* What run_action sends; promote_moderator sends the moderators the store *)
(* lists and one more.                                                     *)
RequestOf(operation) ==
    IF operation.kind = "decide"
    THEN operation
    ELSE [kind |-> "roles", id |-> operation.id,
          moderators |-> stored \cup {operation.member}]

(* drain_actions: the operation leaves the queue before it runs.           *)
RunAction ==
    /\ linked /\ task = NothingRuns /\ actions # <<>>
    /\ task' = [operation |-> Head(actions), status |-> "waiting"]
    /\ actions' = Tail(actions)
    /\ outgoing' = Append(outgoing, RequestOf(Head(actions)))
    /\ UNCHANGED <<askerVars, incoming, linked, boundVars, pending, stored, reportVars>>

(* The end of evergram_call and of the wrapper around it, which forgets    *)
(* the key whatever came of the decision.  In the history a key that asked *)
(* again while the answer was on its way was not decided on, even if that  *)
(* ask is settled by now: the entry forgotten may be that of the new ask.  *)
BugEndKeepsEntry(ok) ==
    /\ IF task.operation.kind = "decide"
       THEN failures' = [failures EXCEPT ![task.operation.key] = @ + IF ok THEN 0 ELSE 1]
       ELSE UNCHANGED failures
    /\ task' = NothingRuns /\ UNCHANGED <<pending, actions>>

BugEndRetries(ok) ==
    /\ IF task.operation.kind = "decide"
       THEN LET k == task.operation.key IN
            /\ pending' = pending \ {k}
            /\ failures' = [failures EXCEPT ![k] = IF @ > MaxFaults THEN @ ELSE @ + 1]
       ELSE UNCHANGED <<pending, failures>>
    /\ task' = NothingRuns
    /\ actions' = IF task.status = "failed" THEN <<task.operation>> \o actions ELSE actions

EndCall(ok) ==
    /\ IF task.operation.kind = "decide"
       THEN LET k == task.operation.key IN
            /\ pending' = pending \ {k}
            /\ failures' = [failures EXCEPT ![k] =
                               @ + IF ok /\ k \notin waiting \cup settled THEN 0 ELSE 1]
       ELSE UNCHANGED <<pending, failures>>
    /\ task' = NothingRuns /\ actions' = actions

ActionReturns ==
    /\ task # NothingRuns /\ task.status # "waiting"
    /\ EndCall(task.status = "ok")
    /\ UNCHANGED <<askerVars, linkVars, boundVars, stored, ask, reports, missed, settled>>

(* Given up, the decision may have been taken or may yet be: a message on  *)
(* its way may then report the key as if it still waited.                  *)
ActionTimesOut ==
    /\ Fault
    /\ task # NothingRuns /\ task.status = "waiting"
    /\ EndCall(FALSE)
    /\ settled' = IF task.operation.kind = "decide"
                  THEN settled \cup ({task.operation.key} \ waiting) ELSE settled
    /\ UNCHANGED <<askerVars, linkVars, stored, ask, reports, missed>>

-----------------------------------------------------------------------------
(* The connection.                                                         *)

LoseLink ==
    /\ Fault
    /\ linked /\ (task # NothingRuns => task.status = "waiting")
    /\ linked' = FALSE /\ outgoing' = <<>> /\ incoming' = <<>>
    /\ IF task # NothingRuns THEN EndCall(FALSE) ELSE UNCHANGED <<task, pending, actions, failures>>
    /\ UNCHANGED <<askerVars, stored, ask, reports, missed, settled>>

(* Every authentication starts a sync, and the bot may ask for another:    *)
(* what was missed before is to be brought again.                          *)
LinkUp ==
    /\ ~linked
    /\ linked' = TRUE
    /\ outgoing' = Append(outgoing, [kind |-> "query"])
    /\ missed' = {}
    /\ UNCHANGED <<askerVars, incoming, boundVars, pending, stored, actions, task,
                   ask, reports, failures, settled>>

AskForSync ==
    /\ Move /\ linked
    /\ outgoing' = Append(outgoing, [kind |-> "query"])
    /\ missed' = {}
    /\ UNCHANGED <<askerVars, incoming, linked, pending, stored, actions, task,
                   ask, reports, failures, settled>>

DecisionNext ==
    \/ \E k \in Keys : Ask(k) \/ DecideElsewhere(k)
                       \/ Enqueue([kind |-> "decide", key |-> k, id |-> moves])
    \/ \E m \in Members : Enqueue([kind |-> "promote", member |-> m, id |-> moves])
    \/ GatewayAnswersSync \/ GatewayDecides
    \/ DispatchAsked \/ DispatchSync \/ DispatchOutcome
    \/ RunAction \/ ActionReturns \/ ActionTimesOut
    \/ LoseLink \/ LinkUp \/ AskForSync

DecisionSpec == DecisionInit /\ [][DecisionNext]_decisionVars

(* The gateway answers, and the bot's loop runs.                           *)
GatewayMoves == GatewayAnswersSync \/ GatewayDecides
BotMoves == DispatchAsked \/ DispatchSync \/ DispatchOutcome \/ RunAction \/ ActionReturns
            \/ LinkUp

FairDecisionSpec == DecisionSpec /\ WF_decisionVars(GatewayMoves) /\ WF_decisionVars(BotMoves)

-----------------------------------------------------------------------------
(* evergram.h 346: a request is reported when it is made "and again from   *)
(* the boot sync for one that was already waiting (once per request, never *)
(* twice)".                                                                *)
ReportedOnce == \A k \in Keys : reports[k] <= 1

(* However often events and syncs bring a request, it is reported again    *)
(* only after a decision that did not settle it: the end of a decision     *)
(* forgets the entry even when the decision failed, or was about an        *)
(* earlier ask of the same key (client.c 2476), and each such end lets one *)
(* more report happen.                                                     *)
ReportedAgainOnlyAfterFailure == \A k \in Keys : reports[k] <= 1 + failures[k]

(* When nothing is in flight a pending entry (client.c 2571) is a request  *)
(* that does wait, unless it was settled without this client being told:   *)
(* on another device, or by a decision whose call had already failed.      *)
PendingMeansWaiting ==
    outgoing = <<>> /\ incoming = <<>> /\ task = NothingRuns =>
        pending \subseteq waiting \cup settled

(* Everyone who asks is reported, also after an outage: a live event or    *)
(* the next sync brings the key.  What keeps it from being reported is     *)
(* only that the table is full at that moment (client.c 2321), or still    *)
(* has the entry of an earlier ask (client.c 2313): one settled elsewhere, *)
(* or one whose decision is just being answered.  Whoever was missed for   *)
(* that reason is brought again by every sync that begins later.           *)
EveryAskReported ==
    \A k \in Keys : k \in waiting ~> k \notin waiting \/ reports[k] > 0 \/ k \in missed

(* A queued operation is tried, and those behind it are not held up by one *)
(* that fails (bot.c 1193).                                                *)
QueueDrains == actions # <<>> ~> actions = <<>>

(* bot.h 88: a promotion "appends identity to the chat's moderator list,   *)
(* preserving the current one".                                            *)
PromotionPreserves == [][moderators \subseteq moderators']_decisionVars
=============================================================================
