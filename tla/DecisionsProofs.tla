-------------------------- MODULE DecisionsProofs ---------------------------
(***************************************************************************)
(* Proofs about Decisions, for any requesters, invites, members and        *)
(* limits.  The argument is about order: what a decision settles was       *)
(* listed to the client before the answer to the decision, so whoever has  *)
(* seen the answer will not see the key listed again.  That an answer      *)
(* belongs to the call that waits rests on the ids: they are given out in  *)
(* decreasing order and the queue keeps that order.                        *)
(***************************************************************************)
EXTENDS Decisions, FiniteSetTheorems, TLAPS

LinkTyped ==
    /\ waiting \subseteq Keys /\ moderators \subseteq Members
    /\ outgoing \in Seq(Demands) /\ incoming \in Seq(Arrivals) /\ linked \in BOOLEAN

BotTyped ==
    /\ stored \subseteq Members
    /\ actions \in Seq(Operations) /\ Len(actions) <= MaxActions
    /\ task \in Runs \cup {NothingRuns}

CountTyped ==
    /\ moves \in 0 .. MaxMoves /\ faults \in 0 .. MaxFaults
    /\ ask \in [Keys -> Asks] /\ \A k \in Keys : ask[k] + moves <= MaxMoves
    /\ reports \in [Keys -> Nat] /\ failures \in [Keys -> Nat]
    /\ missed \subseteq Keys /\ settled \subseteq Keys

PendingTyped ==
    /\ pending \subseteq Keys
    /\ \A k \in pending : Cardinality(pending \cap Table(k)) <= MaxPending

Typed == LinkTyped /\ BotTyped /\ CountTyped /\ PendingTyped

(* The ids asked for and answered that are in flight, each of them once.   *)
Requested(s) == {s[j].id : j \in {n \in DOMAIN s : s[n].kind # "query"}}
Answered(s)  == {s[j].id : j \in {n \in DOMAIN s : s[n].kind = "answer"}}
RequestsOnce(s) ==
    \A m, n \in DOMAIN s :
       s[m].kind # "query" /\ s[n].kind # "query" /\ s[m].id = s[n].id => m = n
AnswersOnce(s) ==
    \A m, n \in DOMAIN s :
       s[m].kind = "answer" /\ s[n].kind = "answer" /\ s[m].id = s[n].id => m = n

InFlightOnce ==
    /\ RequestsOnce(outgoing) /\ AnswersOnce(incoming)
    /\ Requested(outgoing) \cap Answered(incoming) = {}

(* A call that has its answer has nothing in flight, and the request with  *)
(* its id is its own.                                                      *)
CallOwnsId ==
    task # NothingRuns =>
       /\ task.status # "waiting" =>
             task.operation.id \notin Requested(outgoing) \cup Answered(incoming)
       /\ \A j \in DOMAIN outgoing :
             outgoing[j].kind = "decide" /\ outgoing[j].id = task.operation.id
             => outgoing[j] = task.operation

Used == Requested(outgoing) \cup Answered(incoming)
        \cup (IF task = NothingRuns THEN {} ELSE {task.operation.id})

IdsDecrease ==
    /\ \A n \in DOMAIN actions : actions[n].id > moves
    /\ \A m, n \in DOMAIN actions : m < n => actions[m].id > actions[n].id
    /\ \A u \in Used : u > moves /\ \A n \in DOMAIN actions : u > actions[n].id

Ids_OK == InFlightOnce /\ CallOwnsId /\ IdsDecrease

Listed(k, n) == n \in DOMAIN incoming /\ incoming[n].kind # "answer" /\ k \in incoming[n].keys
Deciding(k)  == task # NothingRuns /\ task.operation.kind = "decide" /\ task.operation.key = k
Answer(n)    == /\ n \in DOMAIN incoming /\ incoming[n].kind = "answer"
                /\ incoming[n].id = task.operation.id

(* A key that this client's decision settled is listed only ahead of the   *)
(* answer to the decision, and pending only while the call is under way.   *)
ListedAhead ==
    \A k \in Keys \ (waiting \cup settled) : \A n \in DOMAIN incoming :
       Listed(k, n) => Deciding(k) /\ \E p \in DOMAIN incoming : p > n /\ Answer(p)

PendingHeld == \A k \in pending \ (waiting \cup settled) : Deciding(k)

Quiet(k) == k \notin waiting /\ \A n \in DOMAIN incoming : ~Listed(k, n)

Accounts ==
    \A k \in Keys : /\ reports[k] <= 1 + failures[k]
                    /\ k \in pending \/ reports[k] <= failures[k] \/ Quiet(k)

DecisionInv == Typed /\ Ids_OK /\ ListedAhead /\ PendingHeld /\ Accounts

-----------------------------------------------------------------------------
LEMMA Sizes ==
    /\ MaxPending \in Nat /\ MaxPending >= 1 /\ MaxActions \in Nat /\ MaxActions >= 1
    /\ MaxMoves \in Nat /\ MaxFaults \in Nat
    /\ Requesters \cap Invites = {} /\ IsFiniteSet(Keys)
  BY KeysAssumption, LimitsAssumption

LEMMA Fields ==
    /\ \A o \in Operations : /\ o.id \in OperationIds /\ o.kind \in {"decide", "promote"}
                             /\ o.kind = "decide" => o.key \in Keys /\ o \in Demands
                             /\ o.kind = "promote" => o.member \in Members
    /\ \A q \in Demands : /\ q.kind \in {"query", "decide", "roles"}
                          /\ q.kind # "query" => q.id \in OperationIds
                          /\ q.kind = "decide" => q.key \in Keys
                          /\ q.kind = "roles" => q.moderators \subseteq Members
    /\ \A m \in Arrivals : /\ m.kind \in {"asked", "sync", "answer"}
                           /\ m.kind = "answer" => m.id \in OperationIds /\ m.ok \in BOOLEAN
                           /\ m.kind # "answer" => m.keys \subseteq Keys /\ m.of \in [Keys -> Asks]
                           /\ m.kind = "sync" => m.moderators \subseteq Members
    /\ \A c \in Runs : /\ c.operation \in Operations /\ c.status \in {"waiting", "ok", "failed"}
                        /\ c # NothingRuns
  BY DEF Operations, Demands, Arrivals, Runs, NothingRuns

LEMMA Appending ==
    ASSUME NEW S, NEW s \in Seq(S), NEW x \in S
    PROVE  /\ Append(s, x) \in Seq(S) /\ Len(s) \in Nat /\ Len(Append(s, x)) = Len(s) + 1
           /\ DOMAIN s = 1 .. Len(s)
           /\ DOMAIN Append(s, x) = 1 .. Len(s) + 1
           /\ \A n \in DOMAIN s : n \in DOMAIN Append(s, x) /\ Append(s, x)[n] = s[n]
           /\ Append(s, x)[Len(s) + 1] = x
           /\ \A n \in DOMAIN Append(s, x) : n \in DOMAIN s \/ n = Len(s) + 1
  OBVIOUS

LEMMA Tailing ==
    ASSUME NEW S, NEW s \in Seq(S), s # <<>>
    PROVE  /\ Tail(s) \in Seq(S) /\ Len(s) \in Nat /\ Len(s) >= 1 /\ Len(Tail(s)) = Len(s) - 1
           /\ Head(s) \in S /\ Head(s) = s[1] /\ 1 \in DOMAIN s
           /\ DOMAIN s = 1 .. Len(s)
           /\ DOMAIN Tail(s) = 1 .. Len(s) - 1
           /\ \A n \in DOMAIN Tail(s) : n + 1 \in DOMAIN s /\ Tail(s)[n] = s[n + 1]
           /\ \A n \in DOMAIN s : n > 1 => n - 1 \in DOMAIN Tail(s) /\ Tail(s)[n - 1] = s[n]
<1>1. /\ Tail(s) \in Seq(S) /\ Len(s) \in Nat /\ Len(s) >= 1 /\ Len(Tail(s)) = Len(s) - 1
      /\ Head(s) \in S /\ Head(s) = s[1] /\ DOMAIN s = 1 .. Len(s)
      /\ DOMAIN Tail(s) = 1 .. Len(s) - 1
      /\ \A n \in 1 .. Len(s) - 1 : Tail(s)[n] = s[n + 1]
  OBVIOUS
<1>2. ASSUME NEW n \in DOMAIN s, n > 1
      PROVE  n - 1 \in DOMAIN Tail(s) /\ Tail(s)[n - 1] = s[n]
  <2>1. n - 1 \in 1 .. Len(s) - 1 /\ (n - 1) + 1 = n
    BY <1>1, <1>2
  <2> QED BY <1>1, <2>1
<1> QED BY <1>1, <1>2

-----------------------------------------------------------------------------
(* Ids in a queue that grows or shrinks.                                   *)
LEMMA RequestAppended ==
    ASSUME NEW s \in Seq(Demands), NEW x \in Demands
    PROVE  /\ x.kind = "query" => Requested(Append(s, x)) = Requested(s)
           /\ x.kind # "query" => Requested(Append(s, x)) = Requested(s) \cup {x.id}
           /\ RequestsOnce(s) /\ (x.kind = "query" \/ x.id \notin Requested(s))
              => RequestsOnce(Append(s, x))
<1> DEFINE t == Append(s, x)
<1>1. /\ Len(s) \in Nat /\ DOMAIN s = 1 .. Len(s)
      /\ Len(s) + 1 \in DOMAIN t /\ Len(s) + 1 \notin DOMAIN s
      /\ \A n \in DOMAIN s : n \in DOMAIN t /\ t[n] = s[n]
      /\ t[Len(s) + 1] = x
      /\ \A n \in DOMAIN t : n \in DOMAIN s \/ n = Len(s) + 1
  BY Appending
<1> HIDE DEF t
<1>2. x.kind = "query" => Requested(t) = Requested(s)
  BY <1>1 DEF Requested
<1>3. x.kind # "query" => Requested(t) = Requested(s) \cup {x.id}
  BY <1>1 DEF Requested
<1>4. ASSUME RequestsOnce(s), x.kind = "query" \/ x.id \notin Requested(s)
      PROVE  RequestsOnce(t)
  <2>1. \A n \in DOMAIN s : s[n].kind # "query" /\ x.kind # "query" => s[n].id # x.id
    BY <1>4 DEF Requested
  <2> QED BY <1>1, <1>4, <2>1 DEF RequestsOnce
<1> QED BY <1>2, <1>3, <1>4 DEF t

LEMMA AnswerAppended ==
    ASSUME NEW s \in Seq(Arrivals), NEW x \in Arrivals
    PROVE  /\ x.kind # "answer" => Answered(Append(s, x)) = Answered(s)
           /\ x.kind = "answer" => Answered(Append(s, x)) = Answered(s) \cup {x.id}
           /\ AnswersOnce(s) /\ (x.kind # "answer" \/ x.id \notin Answered(s))
              => AnswersOnce(Append(s, x))
<1> DEFINE t == Append(s, x)
<1>1. /\ Len(s) \in Nat /\ DOMAIN s = 1 .. Len(s)
      /\ Len(s) + 1 \in DOMAIN t /\ Len(s) + 1 \notin DOMAIN s
      /\ \A n \in DOMAIN s : n \in DOMAIN t /\ t[n] = s[n]
      /\ t[Len(s) + 1] = x
      /\ \A n \in DOMAIN t : n \in DOMAIN s \/ n = Len(s) + 1
  BY Appending
<1> HIDE DEF t
<1>2. x.kind # "answer" => Answered(t) = Answered(s)
  BY <1>1 DEF Answered
<1>3. x.kind = "answer" => Answered(t) = Answered(s) \cup {x.id}
  BY <1>1 DEF Answered
<1>4. ASSUME AnswersOnce(s), x.kind # "answer" \/ x.id \notin Answered(s)
      PROVE  AnswersOnce(t)
  <2>1. \A n \in DOMAIN s : s[n].kind = "answer" /\ x.kind = "answer" => s[n].id # x.id
    BY <1>4 DEF Answered
  <2> QED BY <1>1, <1>4, <2>1 DEF AnswersOnce
<1> QED BY <1>2, <1>3, <1>4 DEF t

LEMMA RequestTaken ==
    ASSUME NEW s \in Seq(Demands), s # <<>>, RequestsOnce(s)
    PROVE  /\ RequestsOnce(Tail(s)) /\ Requested(Tail(s)) \subseteq Requested(s)
           /\ Head(s).kind # "query" =>
                 Head(s).id \in Requested(s) /\ Head(s).id \notin Requested(Tail(s))
<1> DEFINE t == Tail(s)
<1>1. /\ Head(s) = s[1] /\ 1 \in DOMAIN s
      /\ \A n \in DOMAIN t : n + 1 \in DOMAIN s /\ t[n] = s[n + 1] /\ n + 1 # 1 /\ n \in Nat
  BY Tailing
<1> HIDE DEF t
<1>2. Requested(t) \subseteq Requested(s)
  BY <1>1 DEF Requested
<1>3. RequestsOnce(t)
  <2> SUFFICES ASSUME NEW m \in DOMAIN t, NEW n \in DOMAIN t, t[m].kind # "query",
                      t[n].kind # "query", t[m].id = t[n].id
               PROVE  m = n
    BY DEF RequestsOnce
  <2>1. m + 1 = n + 1
    BY <1>1 DEF RequestsOnce
  <2> QED BY <1>1, <2>1
<1>4. ASSUME Head(s).kind # "query"
      PROVE  Head(s).id \in Requested(s) /\ Head(s).id \notin Requested(t)
  <2>1. Head(s).id \in Requested(s)
    BY <1>1, <1>4 DEF Requested
  <2>2. ASSUME NEW n \in DOMAIN t, t[n].kind # "query"
        PROVE  t[n].id # Head(s).id
    BY <1>1, <1>4, <2>2 DEF RequestsOnce
  <2> QED BY <2>1, <2>2 DEF Requested
<1> QED BY <1>2, <1>3, <1>4 DEF t

LEMMA AnswerTaken ==
    ASSUME NEW s \in Seq(Arrivals), s # <<>>, AnswersOnce(s)
    PROVE  /\ AnswersOnce(Tail(s)) /\ Answered(Tail(s)) \subseteq Answered(s)
           /\ Head(s).kind = "answer" =>
                 Head(s).id \in Answered(s) /\ Head(s).id \notin Answered(Tail(s))
<1> DEFINE t == Tail(s)
<1>1. /\ Head(s) = s[1] /\ 1 \in DOMAIN s
      /\ \A n \in DOMAIN t : n + 1 \in DOMAIN s /\ t[n] = s[n + 1] /\ n + 1 # 1 /\ n \in Nat
  BY Tailing
<1> HIDE DEF t
<1>2. Answered(t) \subseteq Answered(s)
  BY <1>1 DEF Answered
<1>3. AnswersOnce(t)
  <2> SUFFICES ASSUME NEW m \in DOMAIN t, NEW n \in DOMAIN t, t[m].kind = "answer",
                      t[n].kind = "answer", t[m].id = t[n].id
               PROVE  m = n
    BY DEF AnswersOnce
  <2>1. m + 1 = n + 1
    BY <1>1 DEF AnswersOnce
  <2> QED BY <1>1, <2>1
<1>4. ASSUME Head(s).kind = "answer"
      PROVE  Head(s).id \in Answered(s) /\ Head(s).id \notin Answered(t)
  <2>1. Head(s).id \in Answered(s)
    BY <1>1, <1>4 DEF Answered
  <2>2. ASSUME NEW n \in DOMAIN t, t[n].kind = "answer"
        PROVE  t[n].id # Head(s).id
    BY <1>1, <1>4, <2>2 DEF AnswersOnce
  <2> QED BY <2>1, <2>2 DEF Answered
<1> QED BY <1>2, <1>3, <1>4 DEF t

-----------------------------------------------------------------------------
(* Ids.                                                                    *)
LEMMA UsedTyped ==
    ASSUME Typed
    PROVE  Used \subseteq OperationIds /\ \A n \in DOMAIN actions : actions[n].id \in OperationIds
<1>1. /\ \A j \in DOMAIN outgoing : outgoing[j] \in Demands
      /\ \A j \in DOMAIN incoming : incoming[j] \in Arrivals
      /\ \A j \in DOMAIN actions : actions[j] \in Operations
  BY DEF Typed, LinkTyped, BotTyped
<1>2. Requested(outgoing) \subseteq OperationIds /\ Answered(incoming) \subseteq OperationIds
  BY <1>1, Fields DEF Requested, Answered
<1>3. task # NothingRuns => task.operation.id \in OperationIds
  BY Fields DEF Typed, BotTyped
<1> QED BY <1>1, <1>2, <1>3, Fields DEF Used

LEMMA DecreaseKept ==
    ASSUME Typed, IdsDecrease, Used' \subseteq Used, actions' = actions,
           moves' \in Nat, moves' <= moves
    PROVE  IdsDecrease'
<1>1. moves \in Nat /\ Used \subseteq Nat /\ \A n \in DOMAIN actions : actions[n].id \in Nat
  BY UsedTyped, Sizes DEF OperationIds, Typed, CountTyped
<1>2. \A n \in DOMAIN actions : actions[n].id > moves'
  BY <1>1 DEF IdsDecrease
<1>3. \A u \in Used' : u > moves' /\ \A n \in DOMAIN actions : u > actions[n].id
  BY <1>1 DEF IdsDecrease
<1> QED BY <1>2, <1>3 DEF IdsDecrease

LEMMA IdsKept ==
    ASSUME Typed, Ids_OK, RequestsOnce(outgoing)', AnswersOnce(incoming)',
           Requested(outgoing)' \subseteq Requested(outgoing),
           Answered(incoming)' \subseteq Answered(incoming),
           \A j \in DOMAIN outgoing' :
              \/ outgoing'[j].kind = "query"
              \/ \E n \in DOMAIN outgoing : outgoing[n] = outgoing'[j],
           task' = task \/ task' = NothingRuns, actions' = actions, moves' \in Nat, moves' <= moves
    PROVE  Ids_OK'
<1>1. InFlightOnce'
  BY DEF Ids_OK, InFlightOnce
<1>2. CallOwnsId'
  <2>1. CASE task' = NothingRuns
    BY <2>1 DEF CallOwnsId
  <2>2. CASE task' = task /\ task # NothingRuns
    <3>1. task'.status # "waiting" =>
             task'.operation.id \notin Requested(outgoing)' \cup Answered(incoming)'
      BY <2>2 DEF Ids_OK, CallOwnsId
    <3>2. ASSUME NEW j \in DOMAIN outgoing', outgoing'[j].kind = "decide",
                 outgoing'[j].id = task'.operation.id
          PROVE  outgoing'[j] = task'.operation
      BY <2>2, <3>2 DEF Ids_OK, CallOwnsId
    <3> QED BY <3>1, <3>2 DEF CallOwnsId
  <2> QED BY <2>1, <2>2
<1>3. Used' \subseteq Used
  BY DEF Used
<1> QED BY <1>1, <1>2, <1>3, DecreaseKept DEF Ids_OK

LEMMA GatewaySame ==
    ASSUME Ids_OK, outgoing' = outgoing
    PROVE  /\ RequestsOnce(outgoing)' /\ Requested(outgoing)' = Requested(outgoing)
           /\ \A j \in DOMAIN outgoing' :
                 \/ outgoing'[j].kind = "query"
                 \/ \E n \in DOMAIN outgoing : outgoing[n] = outgoing'[j]
  BY DEF Ids_OK, InFlightOnce, RequestsOnce, Requested

LEMMA GatewayAsked ==
    ASSUME LinkTyped, Ids_OK, outgoing' = Append(outgoing, [kind |-> "query"])
    PROVE  /\ outgoing' \in Seq(Demands)
           /\ RequestsOnce(outgoing)' /\ Requested(outgoing)' = Requested(outgoing)
           /\ \A j \in DOMAIN outgoing' :
                 \/ outgoing'[j].kind = "query"
                 \/ \E n \in DOMAIN outgoing : outgoing[n] = outgoing'[j]
<1>1. /\ [kind |-> "query"] \in Demands /\ [kind |-> "query"].kind = "query"
      /\ outgoing \in Seq(Demands)
  BY DEF Demands, LinkTyped
<1>2. outgoing' \in Seq(Demands)
  BY <1>1
<1>3. RequestsOnce(outgoing') /\ Requested(outgoing') = Requested(outgoing)
  BY <1>1, RequestAppended DEF Ids_OK, InFlightOnce
<1>4. \A j \in DOMAIN outgoing' :
         \/ outgoing'[j].kind = "query"
         \/ \E n \in DOMAIN outgoing : outgoing[n] = outgoing'[j]
  BY <1>1, Appending
<1> QED BY <1>2, <1>3, <1>4

LEMMA GatewayTakes ==
    ASSUME LinkTyped, Ids_OK, outgoing # <<>>, outgoing' = Tail(outgoing)
    PROVE  /\ outgoing' \in Seq(Demands) /\ Head(outgoing) \in Demands
           /\ 1 \in DOMAIN outgoing /\ outgoing[1] = Head(outgoing)
           /\ RequestsOnce(outgoing)' /\ Requested(outgoing)' \subseteq Requested(outgoing)
           /\ Head(outgoing).kind # "query" =>
                 /\ Head(outgoing).id \in Requested(outgoing)
                 /\ Head(outgoing).id \notin Requested(outgoing)'
           /\ \A j \in DOMAIN outgoing' :
                 \/ outgoing'[j].kind = "query"
                 \/ \E n \in DOMAIN outgoing : outgoing[n] = outgoing'[j]
<1>1. outgoing \in Seq(Demands)
  BY DEF LinkTyped
<1>2. /\ outgoing' \in Seq(Demands) /\ Head(outgoing) \in Demands
      /\ 1 \in DOMAIN outgoing /\ outgoing[1] = Head(outgoing)
      /\ \A j \in DOMAIN outgoing' : j + 1 \in DOMAIN outgoing /\ outgoing[j + 1] = outgoing'[j]
  BY <1>1, Tailing
<1>3. /\ RequestsOnce(outgoing') /\ Requested(outgoing') \subseteq Requested(outgoing)
      /\ Head(outgoing).kind # "query" =>
            Head(outgoing).id \in Requested(outgoing) /\ Head(outgoing).id \notin Requested(outgoing')
  BY <1>1, RequestTaken DEF Ids_OK, InFlightOnce
<1> QED BY <1>2, <1>3

LEMMA ClientSame ==
    ASSUME Ids_OK, incoming' = incoming
    PROVE  AnswersOnce(incoming)' /\ Answered(incoming)' = Answered(incoming)
  BY DEF Ids_OK, InFlightOnce, AnswersOnce, Answered

LEMMA ClientTakes ==
    ASSUME LinkTyped, Ids_OK, incoming # <<>>, incoming' = Tail(incoming)
    PROVE  /\ incoming' \in Seq(Arrivals) /\ Head(incoming) \in Arrivals
           /\ 1 \in DOMAIN incoming /\ incoming[1] = Head(incoming)
           /\ AnswersOnce(incoming)' /\ Answered(incoming)' \subseteq Answered(incoming)
           /\ Head(incoming).kind = "answer" =>
                 /\ Head(incoming).id \in Answered(incoming)
                 /\ Head(incoming).id \notin Answered(incoming)'
<1>1. incoming \in Seq(Arrivals)
  BY DEF LinkTyped
<1>2. /\ incoming' \in Seq(Arrivals) /\ Head(incoming) \in Arrivals
      /\ 1 \in DOMAIN incoming /\ incoming[1] = Head(incoming)
  BY <1>1, Tailing
<1>3. /\ AnswersOnce(incoming') /\ Answered(incoming') \subseteq Answered(incoming)
      /\ Head(incoming).kind = "answer" =>
            Head(incoming).id \in Answered(incoming) /\ Head(incoming).id \notin Answered(incoming')
  BY <1>1, AnswerTaken DEF Ids_OK, InFlightOnce
<1> QED BY <1>2, <1>3

LEMMA ClientLists ==
    ASSUME LinkTyped, Ids_OK, NEW m \in Arrivals, m.kind # "answer", incoming' = Append(incoming, m)
    PROVE  /\ incoming' \in Seq(Arrivals)
           /\ AnswersOnce(incoming)' /\ Answered(incoming)' = Answered(incoming)
<1>1. incoming \in Seq(Arrivals)
  BY DEF LinkTyped
<1>2. incoming' \in Seq(Arrivals)
  BY <1>1
<1>3. AnswersOnce(incoming') /\ Answered(incoming') = Answered(incoming)
  BY <1>1, AnswerAppended DEF Ids_OK, InFlightOnce
<1> QED BY <1>2, <1>3

-----------------------------------------------------------------------------
(* What is listed to the client.                                           *)

(* Nothing new is listed and no key is newly settled by this client.       *)
LEMMA ListingSame ==
    ASSUME ListedAhead, incoming' = incoming, task' = task,
           waiting \cup settled \subseteq waiting' \cup settled'
    PROVE  ListedAhead' /\ \A k : Quiet(k) /\ k \notin waiting' => Quiet(k)'
<1>1. \A k, n : Listed(k, n)' <=> Listed(k, n)
  BY DEF Listed
<1>2. \A k \in Keys \ (waiting' \cup settled') : k \in Keys \ (waiting \cup settled)
  OBVIOUS
<1>3. ListedAhead'
  BY <1>1, <1>2 DEF ListedAhead, Deciding, Answer
<1> QED BY <1>1, <1>3 DEF Quiet

LEMMA ListingAppended ==
    ASSUME LinkTyped, ListedAhead, NEW m \in Arrivals, m.kind # "answer", m.keys \subseteq waiting',
           incoming' = Append(incoming, m), task' = task,
           waiting \cup settled \subseteq waiting' \cup settled'
    PROVE  ListedAhead' /\ \A k : Quiet(k) /\ k \notin waiting' => Quiet(k)'
<1>1. /\ \A n \in DOMAIN incoming : n \in DOMAIN incoming' /\ incoming'[n] = incoming[n]
      /\ \A n \in DOMAIN incoming' : n \in DOMAIN incoming \/ (n = Len(incoming) + 1 /\ incoming'[n] = m)
  BY Appending DEF LinkTyped
<1>2. ASSUME NEW k, NEW n \in DOMAIN incoming', Listed(k, n)', k \notin waiting'
      PROVE  n \in DOMAIN incoming /\ Listed(k, n)
  BY <1>1, <1>2 DEF Listed
<1>3. ASSUME NEW k \in Keys \ (waiting' \cup settled'), NEW n \in DOMAIN incoming', Listed(k, n)'
      PROVE  Deciding(k)' /\ \E p \in DOMAIN incoming' : p > n /\ Answer(p)'
  <2>1. k \in Keys \ (waiting \cup settled)
    OBVIOUS
  <2>2. n \in DOMAIN incoming /\ Listed(k, n)
    BY <1>2, <1>3
  <2>3. Deciding(k) /\ \E p \in DOMAIN incoming : p > n /\ Answer(p)
    BY <2>1, <2>2 DEF ListedAhead
  <2> QED BY <1>1, <2>3 DEF Deciding, Answer
<1>4. \A k : Quiet(k) /\ k \notin waiting' => Quiet(k)'
  BY <1>2 DEF Quiet
<1> QED BY <1>3, <1>4 DEF ListedAhead

(* The first message is taken.                                             *)
LEMMA ListingTaken ==
    ASSUME LinkTyped, ListedAhead, incoming # <<>>, incoming' = Tail(incoming),
           UNCHANGED <<waiting, settled>>,
           task # NothingRuns => task' # NothingRuns /\ task'.operation = task.operation
    PROVE  ListedAhead' /\ \A k : Quiet(k) => Quiet(k)'
<1>1. /\ Len(incoming) \in Nat /\ DOMAIN incoming = 1 .. Len(incoming)
      /\ DOMAIN incoming' = 1 .. Len(incoming) - 1
      /\ \A n \in DOMAIN incoming' : n + 1 \in DOMAIN incoming /\ incoming'[n] = incoming[n + 1]
      /\ \A n \in DOMAIN incoming : n > 1 => n - 1 \in DOMAIN incoming' /\ incoming'[n - 1] = incoming[n]
  BY Tailing DEF LinkTyped
<1>2. \A k : \A n \in DOMAIN incoming' : Listed(k, n)' => Listed(k, n + 1)
  BY <1>1 DEF Listed
<1>3. ASSUME NEW k \in Keys \ (waiting' \cup settled'), NEW n \in DOMAIN incoming', Listed(k, n)'
      PROVE  Deciding(k)' /\ \E p \in DOMAIN incoming' : p > n /\ Answer(p)'
  <2>1. Deciding(k)
    BY <1>1, <1>2, <1>3 DEF ListedAhead
  <2>2. PICK p \in DOMAIN incoming : p > n + 1 /\ Answer(p)
    BY <1>1, <1>2, <1>3 DEF ListedAhead
  <2>3. p - 1 \in DOMAIN incoming' /\ p - 1 > n /\ incoming'[p - 1] = incoming[p]
    BY <1>1, <2>2
  <2>4. Deciding(k)' /\ task'.operation = task.operation
    BY <2>1 DEF Deciding
  <2>5. Answer(p - 1)'
    BY <2>2, <2>3, <2>4 DEF Answer
  <2> QED BY <2>3, <2>4, <2>5
<1>4. \A k : Quiet(k) => Quiet(k)'
  BY <1>1, <1>2 DEF Quiet
<1> QED BY <1>3, <1>4 DEF ListedAhead

-----------------------------------------------------------------------------
(* The books.                                                              *)

LEMMA AccountsSame ==
    ASSUME Accounts, UNCHANGED <<pending, reports, failures>>, \A k : Quiet(k) => Quiet(k)'
    PROVE  Accounts'
  BY DEF Accounts

LEMMA HeldSame ==
    ASSUME PendingHeld, pending' = pending, waiting \cup settled \subseteq waiting' \cup settled',
           task # NothingRuns => task' # NothingRuns /\ task'.operation = task.operation
    PROVE  PendingHeld'
  BY DEF PendingHeld, Deciding

LEMMA TypedParts ==
    ASSUME LinkTyped', BotTyped', CountTyped', PendingTyped', Ids_OK', ListedAhead', PendingHeld',
           Accounts'
    PROVE  DecisionInv'
  BY DEF DecisionInv, Typed

LEMMA PendingSame ==
    ASSUME PendingTyped, pending' = pending
    PROVE  PendingTyped'
  BY DEF PendingTyped, Table

LEMMA BotSame ==
    ASSUME BotTyped, UNCHANGED <<stored, actions, task>>
    PROVE  BotTyped'
  BY DEF BotTyped

LEMMA CountsSame ==
    ASSUME CountTyped, UNCHANGED <<ask, reports, failures, settled>>, missed' \subseteq Keys,
           moves' = moves \/ (moves > 0 /\ moves' = moves - 1),
           faults' = faults \/ (faults > 0 /\ faults' = faults - 1)
    PROVE  CountTyped' /\ moves' \in Nat /\ moves' <= moves
<1>1. moves' \in 0 .. MaxMoves /\ moves' \in Nat /\ moves' <= moves /\ moves \in Nat
  BY Sizes DEF CountTyped
<1>2. faults' \in 0 .. MaxFaults
  BY Sizes DEF CountTyped
<1>3. \A k \in Keys : ask[k] + moves' <= MaxMoves
  <2> TAKE k \in Keys
  <2>1. ask[k] \in Nat /\ ask[k] + moves <= MaxMoves
    BY Sizes DEF CountTyped, Asks
  <2> QED BY <1>1, <2>1, Sizes
<1> QED BY <1>1, <1>2, <1>3 DEF CountTyped

-----------------------------------------------------------------------------
(* One lemma per action, or group of actions alike.                        *)

LEMMA AskStep ==
    ASSUME DecisionInv, NEW k \in Keys, Ask(k)
    PROVE  DecisionInv'
<1>1. /\ Typed /\ LinkTyped /\ CountTyped /\ Ids_OK /\ ListedAhead /\ PendingHeld /\ Accounts
  BY DEF DecisionInv, Typed
<1>2. /\ moves > 0 /\ moves' = moves - 1 /\ faults' = faults
      /\ waiting' = waiting \cup {k} /\ settled' = settled \ {k}
      /\ ask' = [ask EXCEPT ![k] = @ + 1]
      /\ reports' = [reports EXCEPT ![k] = 0] /\ failures' = [failures EXCEPT ![k] = 0]
      /\ missed' = missed \ {k}
      /\ UNCHANGED <<moderators, outgoing, linked, pending, stored, actions, task>>
  BY DEF Ask, Move
<1>3. CountTyped' /\ moves' \in Nat /\ moves' <= moves
  <2>1. /\ moves \in Nat /\ moves <= MaxMoves /\ ask \in [Keys -> Nat]
        /\ \A x \in Keys : ask[x] + moves <= MaxMoves
    BY <1>1, Sizes DEF CountTyped, Asks
  <2>2. moves' \in 0 .. MaxMoves /\ moves' \in Nat /\ moves' <= moves
    BY <1>2, <2>1, Sizes
  <2>3. ask[k] + 1 \in Asks
    BY <1>2, <2>1, Sizes DEF Asks
  <2>4. ask' \in [Keys -> Asks]
    BY <1>1, <1>2, <2>3 DEF CountTyped
  <2>5. \A x \in Keys : ask'[x] + moves' <= MaxMoves
    <3> TAKE x \in Keys
    <3>1. ask'[x] = ask[x] \/ ask'[x] = ask[x] + 1
      BY <1>2, <2>1
    <3>2. ask[x] \in Nat /\ ask[x] + moves <= MaxMoves
      BY <2>1
    <3> QED BY <1>2, <2>1, <3>1, <3>2, Sizes
  <2>6. reports' \in [Keys -> Nat] /\ failures' \in [Keys -> Nat]
    BY <1>1, <1>2 DEF CountTyped
  <2> QED BY <1>1, <1>2, <2>2, <2>4, <2>5, <2>6 DEF CountTyped
<1>4. PICK m \in Arrivals : /\ m.kind # "answer" /\ m.keys \subseteq waiting'
                            /\ incoming' = Append(incoming, m) \/ incoming' = incoming
  <2>1. [kind |-> "asked", keys |-> {k}, of |-> ask'] \in Arrivals
    BY <1>3 DEF CountTyped, Arrivals
  <2> QED BY <1>2, <2>1 DEF Ask
<1>5. /\ incoming' \in Seq(Arrivals) /\ AnswersOnce(incoming)'
      /\ Answered(incoming)' = Answered(incoming)
  BY <1>1, <1>4, ClientLists, ClientSame DEF LinkTyped
<1>6. Ids_OK'
  BY <1>1, <1>2, <1>3, <1>5, GatewaySame, IdsKept
<1>7. ListedAhead' /\ \A x : Quiet(x) /\ x \notin waiting' => Quiet(x)'
  BY <1>1, <1>2, <1>4, ListingAppended, ListingSame
<1>8. PendingHeld'
  BY <1>1, <1>2, HeldSame
<1>9. Accounts'
  <2> SUFFICES ASSUME NEW x \in Keys
               PROVE  /\ reports'[x] <= 1 + failures'[x]
                      /\ x \in pending' \/ reports'[x] <= failures'[x] \/ Quiet(x)'
    BY DEF Accounts
  <2>1. CASE x = k
    <3>1. reports'[x] = 0 /\ failures'[x] = 0
      BY <1>1, <1>2, <2>1 DEF CountTyped
    <3> QED BY <3>1
  <2>2. CASE x # k
    <3>1. reports'[x] = reports[x] /\ failures'[x] = failures[x] /\ (x \in waiting' => x \in waiting)
      BY <1>1, <1>2, <2>2 DEF CountTyped
    <3>2. Quiet(x) => Quiet(x)'
      BY <1>7, <3>1 DEF Quiet
    <3> QED BY <1>1, <1>2, <3>1, <3>2 DEF Accounts
  <2> QED BY <2>1, <2>2
<1>10. LinkTyped' /\ BotTyped' /\ PendingTyped'
  BY <1>2, <1>5, BotSame, PendingSame DEF DecisionInv, Typed, LinkTyped
<1> QED BY <1>3, <1>6, <1>7, <1>8, <1>9, <1>10, TypedParts

LEMMA ElsewhereStep ==
    ASSUME DecisionInv, NEW k \in Keys, DecideElsewhere(k)
    PROVE  DecisionInv'
<1>1. /\ Typed /\ LinkTyped /\ CountTyped /\ Ids_OK /\ ListedAhead /\ PendingHeld /\ Accounts
  BY DEF DecisionInv, Typed
<1>2. /\ moves > 0 /\ moves' = moves - 1 /\ faults' = faults
      /\ waiting' = waiting \ {k} /\ settled' = settled \cup {k}
      /\ UNCHANGED <<moderators, outgoing, incoming, linked, pending, stored, actions, task, ask,
                     reports, failures, missed>>
  BY DEF DecideElsewhere, Move, linkVars
<1>3. moves' \in 0 .. MaxMoves /\ moves' \in Nat /\ moves' <= moves /\ moves \in Nat
  BY <1>1, <1>2, Sizes DEF CountTyped
<1>4. CountTyped'
  <2>1. \A x \in Keys : ask[x] + moves' <= MaxMoves
    <3> TAKE x \in Keys
    <3>1. ask[x] \in Nat /\ ask[x] + moves <= MaxMoves
      BY <1>1, Sizes DEF CountTyped, Asks
    <3> QED BY <1>3, <3>1, Sizes
  <2> QED BY <1>1, <1>2, <1>3, <2>1 DEF CountTyped
<1>5. Ids_OK'
  BY <1>1, <1>2, <1>3, GatewaySame, ClientSame, IdsKept
<1>6. ListedAhead' /\ \A x : Quiet(x) => Quiet(x)'
  <2>1. \A x : Quiet(x) => x \notin waiting'
    BY <1>2 DEF Quiet
  <2> QED BY <1>1, <1>2, <2>1, ListingSame
<1>7. PendingHeld' /\ Accounts'
  BY <1>1, <1>2, <1>6, HeldSame, AccountsSame
<1>8. LinkTyped' /\ BotTyped' /\ PendingTyped'
  BY <1>2, BotSame, PendingSame DEF DecisionInv, Typed, LinkTyped
<1> QED BY <1>4, <1>5, <1>6, <1>7, <1>8, TypedParts

LEMMA AnswersSyncStep ==
    ASSUME DecisionInv, GatewayAnswersSync
    PROVE  DecisionInv'
<1>1. /\ Typed /\ LinkTyped /\ CountTyped /\ Ids_OK /\ ListedAhead /\ PendingHeld /\ Accounts
  BY DEF DecisionInv, Typed
<1>2. /\ outgoing # <<>> /\ outgoing' = Tail(outgoing)
      /\ UNCHANGED <<waiting, moderators, linked, moves, faults, pending, stored, actions, task,
                     ask, reports, failures, missed, settled>>
  BY DEF GatewayAnswersSync, askerVars, boundVars, reportVars
<1>3. PICK m \in Arrivals : /\ m.kind # "answer" /\ m.keys \subseteq waiting'
                            /\ incoming' = Append(incoming, m)
  <2>1. [kind |-> "sync", keys |-> waiting, of |-> ask, moderators |-> moderators] \in Arrivals
    BY <1>1 DEF LinkTyped, CountTyped, Arrivals
  <2> QED BY <1>2, <2>1 DEF GatewayAnswersSync
<1>4. /\ incoming' \in Seq(Arrivals) /\ AnswersOnce(incoming)'
      /\ Answered(incoming)' = Answered(incoming)
  BY <1>1, <1>3, ClientLists
<1>5. CountTyped' /\ moves' \in Nat /\ moves' <= moves
  BY <1>1, <1>2, CountsSame DEF CountTyped
<1>6. Ids_OK' /\ outgoing' \in Seq(Demands)
  BY <1>1, <1>2, <1>4, <1>5, GatewayTakes, IdsKept
<1>7. ListedAhead' /\ \A x : Quiet(x) => Quiet(x)'
  <2>1. \A x : Quiet(x) => x \notin waiting'
    BY <1>2 DEF Quiet
  <2> QED BY <1>1, <1>2, <1>3, <2>1, ListingAppended
<1>8. PendingHeld' /\ Accounts'
  BY <1>1, <1>2, <1>7, HeldSame, AccountsSame
<1>9. LinkTyped' /\ BotTyped' /\ PendingTyped'
  BY <1>2, <1>4, <1>6, BotSame, PendingSame DEF DecisionInv, Typed, LinkTyped
<1> QED BY <1>5, <1>6, <1>7, <1>8, <1>9, TypedParts

(* The answer goes behind everything that lists its key.                   *)
LEMMA AnswersCallStep ==
    ASSUME DecisionInv, GatewayDecides
    PROVE  DecisionInv'
<1>1. /\ Typed /\ LinkTyped /\ CountTyped /\ Ids_OK /\ ListedAhead /\ PendingHeld /\ Accounts
  BY DEF DecisionInv, Typed
<1>2. /\ outgoing # <<>> /\ Head(outgoing).kind # "query" /\ outgoing' = Tail(outgoing)
      /\ UNCHANGED <<linked, pending, stored, actions, task, ask, reports, failures, missed>>
  BY DEF GatewayDecides
<1>3. /\ outgoing' \in Seq(Demands) /\ Head(outgoing) \in Demands
      /\ 1 \in DOMAIN outgoing /\ outgoing[1] = Head(outgoing)
      /\ RequestsOnce(outgoing)' /\ Requested(outgoing)' \subseteq Requested(outgoing)
      /\ Head(outgoing).id \in Requested(outgoing)
      /\ Head(outgoing).id \notin Requested(outgoing)'
      /\ \A j \in DOMAIN outgoing' :
            \/ outgoing'[j].kind = "query"
            \/ \E n \in DOMAIN outgoing : outgoing[n] = outgoing'[j]
  BY <1>1, <1>2, GatewayTakes
<1>4. PICK request \in Demands : request = Head(outgoing)
  BY <1>3
<1>5. PICK agrees \in BOOLEAN :
         LET sound == request.kind = "decide" => request.key \in waiting
             heard == task # NothingRuns /\ task.operation.id = request.id IN
         /\ IF sound /\ ~agrees THEN Fault ELSE UNCHANGED boundVars
         /\ waiting' = IF agrees /\ request.kind = "decide"
                       THEN waiting \ {request.key} ELSE waiting
         /\ settled' = IF agrees /\ request.kind = "decide" /\ ~heard
                       THEN settled \cup {request.key} ELSE settled
         /\ moderators' = IF agrees /\ request.kind = "roles"
                          THEN request.moderators ELSE moderators
         /\ incoming' = Append(incoming, [kind |-> "answer", id |-> request.id, ok |-> agrees])
  BY <1>4 DEF GatewayDecides
<1>6. PICK m \in Arrivals : m.kind = "answer" /\ m.id = request.id /\ incoming' = Append(incoming, m)
  <2>1. request.id \in OperationIds
    BY <1>2, <1>4, Fields
  <2>2. [kind |-> "answer", id |-> request.id, ok |-> agrees] \in Arrivals
    BY <2>1 DEF Arrivals
  <2> QED BY <1>5, <2>2
<1>7. /\ Len(incoming) \in Nat /\ incoming' \in Seq(Arrivals)
      /\ DOMAIN incoming = 1 .. Len(incoming)
      /\ \A n \in DOMAIN incoming : n \in DOMAIN incoming' /\ incoming'[n] = incoming[n]
      /\ Len(incoming) + 1 \in DOMAIN incoming' /\ incoming'[Len(incoming) + 1] = m
      /\ \A n \in DOMAIN incoming' : n \in DOMAIN incoming \/ n = Len(incoming) + 1
  BY <1>1, <1>6, Appending DEF LinkTyped
<1>8. AnswersOnce(incoming)' /\ Answered(incoming)' = Answered(incoming) \cup {request.id}
  <2>1. request.id \notin Answered(incoming)
    BY <1>1, <1>3, <1>4 DEF Ids_OK, InFlightOnce
  <2>2. AnswersOnce(incoming') /\ Answered(incoming') = Answered(incoming) \cup {request.id}
    BY <1>1, <1>6, <2>1, AnswerAppended DEF LinkTyped, Ids_OK, InFlightOnce
  <2> QED BY <2>2
<1>9. CountTyped' /\ moves' \in Nat /\ moves' <= moves
  <2>1. moves' = moves /\ (faults' = faults \/ (faults > 0 /\ faults' = faults - 1))
    <3>1. Fault \/ UNCHANGED boundVars
      BY <1>5
    <3> QED BY <3>1 DEF Fault, boundVars
  <2>2. settled' \subseteq Keys
    <3>1. request.kind = "decide" => request.key \in Keys
      BY Fields
    <3>2. settled' = settled \/ (request.kind = "decide" /\ settled' = settled \cup {request.key})
      BY <1>5
    <3> QED BY <1>1, <3>1, <3>2 DEF CountTyped
  <2>3. moves' \in Nat /\ moves' <= moves /\ faults' \in 0 .. MaxFaults
    BY <1>1, <2>1, Sizes DEF CountTyped
  <2> QED BY <1>1, <1>2, <2>1, <2>2, <2>3 DEF CountTyped
<1>10. Ids_OK'
  <2>1. InFlightOnce'
    BY <1>1, <1>3, <1>4, <1>8 DEF Ids_OK, InFlightOnce
  <2>2. /\ Requested(outgoing)' \cup Answered(incoming)'
             \subseteq Requested(outgoing) \cup Answered(incoming)
    BY <1>3, <1>4, <1>8
  <2>3. CallOwnsId'
    <3>1. CASE task = NothingRuns
      BY <1>2, <3>1 DEF CallOwnsId
    <3>2. CASE task # NothingRuns
      <4>1. \A j \in DOMAIN outgoing' :
               outgoing'[j].kind = "decide" /\ outgoing'[j].id = task.operation.id
               => outgoing'[j] = task.operation
        BY <1>1, <1>3, <3>2 DEF Ids_OK, CallOwnsId
      <4>2. task.status # "waiting" =>
               task.operation.id \notin Requested(outgoing)' \cup Answered(incoming)'
        BY <1>1, <2>2, <3>2 DEF Ids_OK, CallOwnsId
      <4> QED BY <1>2, <4>1, <4>2 DEF CallOwnsId
    <3> QED BY <3>1, <3>2
  <2>4. Used' \subseteq Used
    BY <1>2, <2>2 DEF Used
  <2> QED BY <1>1, <1>2, <1>9, <2>1, <2>3, <2>4, DecreaseKept DEF Ids_OK
<1>11. waiting' \subseteq waiting /\ settled \subseteq settled'
  BY <1>5
<1>12. ASSUME NEW k \in Keys, k \notin waiting' \cup settled', k \in waiting \cup settled
       PROVE  Deciding(k) /\ request.id = task.operation.id
  <2>1. k \in waiting /\ k \notin waiting'
    BY <1>11, <1>12
  <2>2. agrees /\ request.kind = "decide" /\ k = request.key
    BY <1>5, <2>1
  <2>3. task # NothingRuns /\ task.operation.id = request.id
    BY <1>5, <1>12, <2>2
  <2>4. task.operation = request
    BY <1>1, <1>3, <1>4, <2>2, <2>3 DEF Ids_OK, CallOwnsId
  <2> QED BY <2>2, <2>3, <2>4 DEF Deciding
<1>13. \A k, n : Listed(k, n)' <=> Listed(k, n)
  BY <1>6, <1>7 DEF Listed
<1>14. ListedAhead'
  <2> SUFFICES ASSUME NEW k \in Keys, k \notin waiting' \cup settled', NEW n \in DOMAIN incoming',
                      Listed(k, n)'
               PROVE  Deciding(k)' /\ \E p \in DOMAIN incoming' : p > n /\ Answer(p)'
    BY DEF ListedAhead
  <2>1. n \in DOMAIN incoming /\ Listed(k, n)
    BY <1>13 DEF Listed
  <2>2. CASE k \in waiting \cup settled
    <3>1. Deciding(k) /\ request.id = task.operation.id
      BY <1>12, <2>2
    <3>2. \E p \in DOMAIN incoming' : p > n /\ Answer(p)'
      <4>1. PICK p \in DOMAIN incoming' : p = Len(incoming) + 1
        BY <1>7
      <4>2. p > n
        BY <1>7, <2>1, <4>1
      <4>3. incoming'[p].kind = "answer" /\ incoming'[p].id = task'.operation.id
        BY <1>2, <1>6, <1>7, <3>1, <4>1
      <4> QED BY <4>2, <4>3 DEF Answer
    <3> QED BY <1>2, <3>1, <3>2 DEF Deciding
  <2>3. CASE k \notin waiting \cup settled
    <3>1. Deciding(k) /\ \E p \in DOMAIN incoming : p > n /\ Answer(p)
      BY <1>1, <2>1, <2>3 DEF ListedAhead
    <3> QED BY <1>2, <1>7, <3>1 DEF Deciding, Answer
  <2> QED BY <2>2, <2>3
<1>15. PendingHeld'
  BY <1>1, <1>2, <1>12 DEF PendingHeld, Deciding, PendingTyped, Typed
<1>16. Accounts'
  <2>1. \A x : Quiet(x) => Quiet(x)'
    BY <1>7, <1>11, <1>13 DEF Quiet, Listed
  <2> QED BY <1>1, <1>2, <2>1, AccountsSame
<1>17. LinkTyped' /\ BotTyped' /\ PendingTyped'
  <2>1. moderators' \subseteq Members
    BY <1>1, <1>5, Fields DEF LinkTyped
  <2> QED BY <1>1, <1>2, <1>3, <1>7, <1>11, <2>1, BotSame, PendingSame DEF Typed, LinkTyped
<1> QED BY <1>9, <1>10, <1>14, <1>15, <1>16, <1>17, TypedParts

-----------------------------------------------------------------------------
(* evergram_note_...: the limits hold table by table.                      *)
LEMMA NoteKeeps ==
    ASSUME PendingTyped, CountTyped, Accounts, NEW keys \in SUBSET Keys, NEW of, Note(keys, of),
           UNCHANGED <<failures, waiting, settled>>,
           \A k : Quiet(k) => Quiet(k)', \A k \in keys : ~Quiet(k)
    PROVE  /\ PendingTyped' /\ reports' \in [Keys -> Nat] /\ missed' \subseteq Keys
           /\ Accounts' /\ pending' \subseteq pending \cup keys
<1>1. PICK new \in SUBSET (keys \ pending) :
         /\ pending' = pending \cup new
         /\ \A k \in new : Cardinality(pending' \cap Table(k)) <= MaxPending
         /\ reports' = [k \in Keys |-> reports[k] + IF k \in new /\ of[k] = ask[k] THEN 1 ELSE 0]
         /\ missed' \subseteq missed \cup keys
  BY DEF Note, TakesIn
<1>2. pending' \subseteq Keys /\ pending' \subseteq pending \cup keys
  BY <1>1 DEF PendingTyped
<1>3. ASSUME NEW k \in pending'
      PROVE  Cardinality(pending' \cap Table(k)) <= MaxPending
  <2>1. CASE \E m \in new : Table(m) = Table(k)
    <3>1. PICK m \in new : Table(m) = Table(k)
      BY <2>1
    <3>2. Cardinality(pending' \cap Table(m)) <= MaxPending
      BY <1>1
    <3> QED BY <3>1, <3>2
  <2>2. CASE ~\E m \in new : Table(m) = Table(k)
    <3>1. \A x \in new : x \notin Table(k)
      <4> SUFFICES ASSUME NEW x \in new, x \in Table(k) PROVE Table(x) = Table(k)
        BY <2>2
      <4> QED BY Sizes DEF Table
    <3>2. pending' \cap Table(k) = pending \cap Table(k) /\ k \in pending
      BY <1>1, <2>2, <3>1
    <3>3. Cardinality(pending \cap Table(k)) <= MaxPending
      BY <3>2 DEF PendingTyped
    <3> QED BY <3>2, <3>3
  <2> QED BY <2>1, <2>2
<1>4. PendingTyped'
  BY <1>2, <1>3 DEF PendingTyped, Table
<1>5. \A k \in Keys : /\ reports[k] \in Nat /\ failures[k] \in Nat
                      /\ reports'[k] = reports[k] \/ (k \in new /\ reports'[k] = reports[k] + 1)
  BY <1>1 DEF CountTyped
<1>6. reports' \in [Keys -> Nat]
  BY <1>1 DEF CountTyped
<1>7. missed' \subseteq Keys
  BY <1>1 DEF CountTyped
<1>8. Accounts'
  <2> SUFFICES ASSUME NEW k \in Keys
               PROVE  /\ reports'[k] <= 1 + failures'[k]
                      /\ k \in pending' \/ reports'[k] <= failures'[k] \/ Quiet(k)'
    BY DEF Accounts
  <2>1. CASE k \in new
    <3>1. k \in pending' /\ k \notin pending /\ ~Quiet(k)
      BY <1>1, <2>1
    <3>2. reports[k] <= failures[k]
      BY <3>1 DEF Accounts
    <3> QED BY <1>5, <3>1, <3>2
  <2>2. CASE k \notin new
    <3>1. reports'[k] = reports[k] /\ (k \in pending => k \in pending')
      BY <1>1, <1>5, <2>2
    <3> QED BY <3>1 DEF Accounts
  <2> QED BY <2>1, <2>2
<1> QED BY <1>2, <1>4, <1>6, <1>7, <1>8

LEMMA DispatchListStep ==
    ASSUME DecisionInv, DispatchAsked \/ DispatchSync
    PROVE  DecisionInv'
<1>1. /\ Typed /\ LinkTyped /\ CountTyped /\ PendingTyped /\ Ids_OK /\ ListedAhead /\ PendingHeld
      /\ Accounts
  BY DEF DecisionInv, Typed
<1>2. /\ incoming # <<>> /\ Head(incoming).kind # "answer" /\ incoming' = Tail(incoming)
      /\ Note(Head(incoming).keys, Head(incoming).of)
      /\ stored' = stored \/ (Head(incoming).kind = "sync" /\ stored' = Head(incoming).moderators)
      /\ UNCHANGED <<waiting, moderators, outgoing, linked, moves, faults, actions, task, ask,
                     failures, settled>>
  BY DEF DispatchAsked, DispatchSync, askerVars, boundVars
<1>3. /\ incoming' \in Seq(Arrivals) /\ Head(incoming) \in Arrivals
      /\ 1 \in DOMAIN incoming /\ incoming[1] = Head(incoming)
      /\ AnswersOnce(incoming)' /\ Answered(incoming)' \subseteq Answered(incoming)
  BY <1>1, <1>2, ClientTakes
<1>4. PICK m \in Arrivals : m = Head(incoming)
  BY <1>3
<1>5. m.keys \in SUBSET Keys /\ (m.kind = "sync" => m.moderators \subseteq Members)
      /\ \A k \in m.keys : Listed(k, 1)
  BY <1>2, <1>3, <1>4, Fields DEF Listed
<1>6. ListedAhead' /\ \A k : Quiet(k) => Quiet(k)'
  BY <1>1, <1>2, ListingTaken
<1>7. /\ PendingTyped' /\ reports' \in [Keys -> Nat] /\ missed' \subseteq Keys
      /\ Accounts' /\ pending' \subseteq pending \cup m.keys
  <2>1. \A k \in m.keys : ~Quiet(k)
    BY <1>3, <1>5 DEF Quiet
  <2> QED BY <1>1, <1>2, <1>4, <1>5, <1>6, <2>1, NoteKeeps
<1>8. PendingHeld'
  <2> SUFFICES ASSUME NEW k \in pending', k \notin waiting \cup settled PROVE Deciding(k)
    BY <1>2 DEF PendingHeld, Deciding
  <2>1. CASE k \in pending
    BY <1>1, <2>1 DEF PendingHeld
  <2>2. CASE k \in m.keys
    BY <1>1, <1>3, <1>5, <2>2 DEF ListedAhead
  <2> QED BY <1>7, <2>1, <2>2
<1>9. CountTyped' /\ moves' \in Nat /\ moves' <= moves
  BY <1>1, <1>2, <1>7, Sizes DEF CountTyped
<1>10. Ids_OK'
  BY <1>1, <1>2, <1>3, <1>9, GatewaySame, IdsKept
<1>11. LinkTyped' /\ BotTyped'
  <2>1. stored' \subseteq Members
    BY <1>1, <1>2, <1>4, <1>5 DEF Typed, BotTyped
  <2> QED BY <1>1, <1>2, <1>3, <2>1 DEF Typed, LinkTyped, BotTyped
<1> QED BY <1>6, <1>7, <1>8, <1>9, <1>10, <1>11, TypedParts

LEMMA DispatchAnswerStep ==
    ASSUME DecisionInv, DispatchOutcome
    PROVE  DecisionInv'
<1>1. /\ Typed /\ LinkTyped /\ BotTyped /\ CountTyped /\ PendingTyped /\ Ids_OK /\ ListedAhead
      /\ PendingHeld /\ Accounts
  BY DEF DecisionInv, Typed
<1>2. /\ incoming # <<>> /\ Head(incoming).kind = "answer" /\ incoming' = Tail(incoming)
      /\ UNCHANGED <<waiting, moderators, outgoing, linked, moves, faults, pending, stored, actions,
                     ask, reports, failures, missed, settled>>
  BY DEF DispatchOutcome, askerVars, boundVars, reportVars
<1>3. /\ incoming' \in Seq(Arrivals) /\ AnswersOnce(incoming)'
      /\ Answered(incoming)' \subseteq Answered(incoming)
      /\ Head(incoming).id \in Answered(incoming) /\ Head(incoming).id \notin Answered(incoming)'
  BY <1>1, <1>2, ClientTakes
<1>4. \/ task' = task
      \/ /\ task # NothingRuns /\ task.operation.id = Head(incoming).id
         /\ \E status \in {"ok", "failed"} : task' = [task EXCEPT !.status = status]
  BY DEF DispatchOutcome
<1>5. /\ task' \in Runs \cup {NothingRuns} /\ (task = NothingRuns <=> task' = NothingRuns)
      /\ task # NothingRuns => task'.operation = task.operation
  <2>1. CASE task' = task
    BY <1>1, <2>1 DEF BotTyped
  <2>2. CASE task # NothingRuns /\ \E status \in {"ok", "failed"} : task' = [task EXCEPT !.status = status]
    <3>1. task \in Runs
      BY <1>1, <2>2 DEF BotTyped
    <3>2. task' \in Runs /\ task'.operation = task.operation
      BY <2>2, <3>1 DEF Runs
    <3> QED BY <2>2, <3>2, Fields
  <2> QED BY <1>4, <2>1, <2>2
<1>6. Ids_OK'
  <2>1. InFlightOnce'
    BY <1>1, <1>2, <1>3, GatewaySame DEF Ids_OK, InFlightOnce
  <2>2. CallOwnsId'
    <3> SUFFICES ASSUME task # NothingRuns
                 PROVE  /\ task'.status # "waiting" =>
                              task.operation.id \notin Requested(outgoing) \cup Answered(incoming)'
                        /\ \A j \in DOMAIN outgoing :
                              outgoing[j].kind = "decide" /\ outgoing[j].id = task.operation.id
                              => outgoing[j] = task.operation
      BY <1>1, <1>2, <1>5, GatewaySame DEF CallOwnsId
    <3>1. CASE task' = task
      BY <1>1, <1>3, <3>1 DEF Ids_OK, CallOwnsId
    <3>2. CASE task.operation.id = Head(incoming).id
      BY <1>1, <1>3, <3>2 DEF Ids_OK, CallOwnsId, InFlightOnce
    <3> QED BY <1>4, <3>1, <3>2
  <2>3. Used' \subseteq Used
    BY <1>1, <1>2, <1>3, <1>5, GatewaySame DEF Used
  <2>4. moves' \in Nat /\ moves' <= moves
    BY <1>1, <1>2 DEF CountTyped
  <2> QED BY <1>1, <1>2, <2>1, <2>2, <2>3, <2>4, DecreaseKept DEF Ids_OK
<1>7. ListedAhead' /\ \A k : Quiet(k) => Quiet(k)'
  BY <1>1, <1>2, <1>5, ListingTaken
<1>8. PendingHeld' /\ Accounts'
  BY <1>1, <1>2, <1>5, <1>7, HeldSame, AccountsSame
<1>9. LinkTyped' /\ BotTyped' /\ CountTyped' /\ PendingTyped'
  BY <1>1, <1>2, <1>3, <1>5, PendingSame DEF LinkTyped, BotTyped, CountTyped
<1> QED BY <1>6, <1>7, <1>8, <1>9, TypedParts

-----------------------------------------------------------------------------
(* enqueue_action: the queue's ids decrease, and the newest is the least.  *)
LEMMA EnqueueStep ==
    ASSUME DecisionInv, NEW o \in [kind : {"decide"}, key : Keys, id : {moves}]
                          \cup [kind : {"promote"}, member : Members, id : {moves}],
           Enqueue(o)
    PROVE  DecisionInv'
<1>1. /\ Typed /\ LinkTyped /\ BotTyped /\ CountTyped /\ PendingTyped /\ Ids_OK /\ ListedAhead
      /\ PendingHeld /\ Accounts
  BY DEF DecisionInv, Typed
<1>2. /\ moves > 0 /\ moves' = moves - 1 /\ faults' = faults /\ Len(actions) < MaxActions
      /\ actions' = Append(actions, o)
      /\ UNCHANGED <<waiting, moderators, outgoing, incoming, linked, pending, stored, task, ask,
                     reports, failures, missed, settled>>
  BY DEF Enqueue, Move, askerVars, linkVars, reportVars
<1>3. moves \in OperationIds /\ o.id = moves
  BY <1>1, <1>2, Sizes DEF CountTyped, OperationIds
<1>4. o \in Operations
  BY <1>3 DEF Operations
<1>5. CountTyped' /\ moves' \in Nat /\ moves' <= moves
  BY <1>1, <1>2, CountsSame DEF CountTyped
<1>6. /\ actions' \in Seq(Operations) /\ Len(actions) \in Nat /\ Len(actions') = Len(actions) + 1
      /\ DOMAIN actions = 1 .. Len(actions)
      /\ \A n \in DOMAIN actions : n \in DOMAIN actions' /\ actions'[n] = actions[n]
      /\ actions'[Len(actions) + 1] = o
      /\ \A n \in DOMAIN actions' : n \in DOMAIN actions \/ n = Len(actions) + 1
  <2>1. actions \in Seq(Operations)
    BY <1>1 DEF BotTyped
  <2> QED BY <1>2, <1>4, <2>1, Appending
<1>7. Requested(outgoing)' = Requested(outgoing) /\ Answered(incoming)' = Answered(incoming)
      /\ Used' = Used /\ InFlightOnce' /\ CallOwnsId'
  BY <1>1, <1>2, GatewaySame, ClientSame DEF Ids_OK, InFlightOnce, CallOwnsId, Used
<1>8. IdsDecrease'
  <2>1. moves \in Nat /\ Used \subseteq Nat /\ \A n \in DOMAIN actions : actions[n].id \in Nat
    BY <1>1, <1>3, UsedTyped DEF OperationIds
  <2>2. \A n \in DOMAIN actions' : actions'[n].id > moves'
    BY <1>1, <1>2, <1>3, <1>6, <2>1 DEF Ids_OK, IdsDecrease
  <2>3. ASSUME NEW m \in DOMAIN actions', NEW n \in DOMAIN actions', m < n
        PROVE  actions'[m].id > actions'[n].id
    <3>1. m \in DOMAIN actions
      BY <1>6, <2>3
    <3>2. CASE n \in DOMAIN actions
      BY <1>1, <1>6, <2>3, <3>1, <3>2 DEF Ids_OK, IdsDecrease
    <3>3. CASE n = Len(actions) + 1
      BY <1>1, <1>3, <1>6, <3>1, <3>3 DEF Ids_OK, IdsDecrease
    <3> QED BY <1>6, <3>2, <3>3
  <2>4. ASSUME NEW u \in Used'
        PROVE  u > moves' /\ \A n \in DOMAIN actions' : u > actions'[n].id
    <3>1. u \in Used /\ u \in Nat /\ u > moves /\ \A n \in DOMAIN actions : u > actions[n].id
      BY <1>1, <1>7, <2>1 DEF Ids_OK, IdsDecrease
    <3> QED BY <1>2, <1>3, <1>6, <2>1, <3>1
  <2> QED BY <2>2, <2>3, <2>4 DEF IdsDecrease
<1>9. Ids_OK'
  BY <1>7, <1>8 DEF Ids_OK
<1>10. ListedAhead' /\ \A k : Quiet(k) => Quiet(k)'
  <2>1. \A k : Quiet(k) => k \notin waiting'
    BY <1>2 DEF Quiet
  <2> QED BY <1>1, <1>2, <2>1, ListingSame
<1>11. PendingHeld' /\ Accounts'
  BY <1>1, <1>2, <1>10, HeldSame, AccountsSame
<1>12. BotTyped'
  <2>1. Len(actions') <= MaxActions
    BY <1>2, <1>6, Sizes
  <2> QED BY <1>1, <1>2, <1>6, <2>1 DEF BotTyped
<1>13. LinkTyped' /\ PendingTyped'
  BY <1>1, <1>2, PendingSame DEF LinkTyped
<1> QED BY <1>5, <1>9, <1>10, <1>11, <1>12, <1>13, TypedParts

(* drain_actions: the oldest operation has the greatest id of the queue,   *)
(* and one less than all in flight.                                        *)
LEMMA RunStep ==
    ASSUME DecisionInv, RunAction
    PROVE  DecisionInv'
<1>1. /\ Typed /\ LinkTyped /\ BotTyped /\ CountTyped /\ PendingTyped /\ Ids_OK /\ ListedAhead
      /\ PendingHeld /\ Accounts
  BY DEF DecisionInv, Typed
<1>2. /\ task = NothingRuns /\ actions # <<>> /\ actions' = Tail(actions)
      /\ UNCHANGED <<waiting, moderators, incoming, linked, moves, faults, pending, stored, ask,
                     reports, failures, missed, settled>>
  BY DEF RunAction, askerVars, boundVars, reportVars
<1>3. /\ actions' \in Seq(Operations) /\ Head(actions) \in Operations
      /\ Len(actions') = Len(actions) - 1 /\ Len(actions) \in Nat
      /\ 1 \in DOMAIN actions /\ actions[1] = Head(actions)
      /\ \A n \in DOMAIN actions' : /\ n + 1 \in DOMAIN actions /\ actions'[n] = actions[n + 1]
                                    /\ n \in Nat /\ n >= 1
  <2>1. actions \in Seq(Operations)
    BY <1>1 DEF BotTyped
  <2> QED BY <1>2, <2>1, Tailing
<1>4. PICK o \in Operations : o = Head(actions)
  BY <1>3
<1>5. PICK q \in Demands : /\ outgoing' = Append(outgoing, q) /\ q.kind # "query" /\ q.id = o.id
                           /\ q.kind = "decide" => q = o
  <2>1. RequestOf(o) \in Demands
    <3>1. CASE o.kind = "decide"
      BY <3>1, Fields DEF RequestOf
    <3>2. CASE o.kind # "decide"
      <4>1. o.member \in Members /\ o.id \in OperationIds
        BY <3>2, Fields
      <4>2. stored \cup {o.member} \in SUBSET Members
        BY <1>1, <4>1 DEF BotTyped
      <4> QED BY <3>2, <4>1, <4>2 DEF RequestOf, Demands
    <3> QED BY <3>1, <3>2
  <2>2. RequestOf(o).kind # "query" /\ RequestOf(o).id = o.id
        /\ (RequestOf(o).kind = "decide" => RequestOf(o) = o)
    BY Fields DEF RequestOf
  <2> QED BY <1>4, <2>1, <2>2 DEF RunAction
<1>6. task' = [operation |-> o, status |-> "waiting"] /\ task' \in Runs /\ task' # NothingRuns
      /\ task'.operation = o /\ task'.status = "waiting"
  <2>1. task' = [operation |-> o, status |-> "waiting"]
    BY <1>4 DEF RunAction
  <2>2. task' \in Runs
    BY <2>1 DEF Runs
  <2> QED BY <2>1, <2>2, Fields
<1>7. o.id \notin Used
  <2>1. Used \subseteq Nat /\ o.id \in Nat
    BY <1>1, <1>3, <1>4, UsedTyped DEF OperationIds
  <2> QED BY <1>1, <1>3, <1>4, <2>1 DEF Ids_OK, IdsDecrease
<1>8. /\ RequestsOnce(outgoing)' /\ Requested(outgoing)' = Requested(outgoing) \cup {o.id}
      /\ AnswersOnce(incoming)' /\ Answered(incoming)' = Answered(incoming)
  <2>1. o.id \notin Requested(outgoing)
    BY <1>7 DEF Used
  <2>2. RequestsOnce(outgoing') /\ Requested(outgoing') = Requested(outgoing) \cup {o.id}
    BY <1>1, <1>5, <2>1, RequestAppended DEF LinkTyped, Ids_OK, InFlightOnce
  <2> QED BY <1>1, <1>2, <2>2, ClientSame
<1>9. InFlightOnce'
  <2>1. o.id \notin Answered(incoming)
    BY <1>7 DEF Used
  <2> QED BY <1>1, <1>8, <2>1 DEF Ids_OK, InFlightOnce
<1>10. outgoing' \in Seq(Demands)
       /\ \A j \in DOMAIN outgoing' : outgoing'[j] = q \/ (j \in DOMAIN outgoing /\ outgoing'[j] = outgoing[j])
  BY <1>1, <1>5, Appending DEF LinkTyped
<1>11. CallOwnsId'
  <2> SUFFICES ASSUME NEW j \in DOMAIN outgoing', outgoing'[j].kind = "decide",
                      outgoing'[j].id = o.id
               PROVE  outgoing'[j] = o
    BY <1>6 DEF CallOwnsId
  <2>1. CASE outgoing'[j] = q
    BY <1>5, <2>1
  <2>2. CASE j \in DOMAIN outgoing /\ outgoing'[j] = outgoing[j]
    <3>1. o.id \in Requested(outgoing)
      BY <2>2 DEF Requested
    <3> QED BY <1>7, <3>1 DEF Used
  <2> QED BY <1>10, <2>1, <2>2
<1>12. IdsDecrease'
  <2>1. Used' = Used \cup {o.id}
    BY <1>2, <1>6, <1>8 DEF Used
  <2>2. \A n \in DOMAIN actions' : actions'[n].id > moves' /\ o.id > actions'[n].id
    BY <1>1, <1>2, <1>3, <1>4 DEF Ids_OK, IdsDecrease
  <2>3. o.id > moves'
    BY <1>1, <1>2, <1>3, <1>4 DEF Ids_OK, IdsDecrease
  <2>4. \A m, n \in DOMAIN actions' : m < n => actions'[m].id > actions'[n].id
    <3> SUFFICES ASSUME NEW m \in DOMAIN actions', NEW n \in DOMAIN actions', m < n
                 PROVE  actions'[m].id > actions'[n].id
      OBVIOUS
    <3>1. m + 1 < n + 1
      BY <1>3
    <3> QED BY <1>1, <1>3, <3>1 DEF Ids_OK, IdsDecrease
  <2>5. \A u \in Used : u > moves' /\ \A n \in DOMAIN actions' : u > actions'[n].id
    BY <1>1, <1>2, <1>3 DEF Ids_OK, IdsDecrease
  <2> QED BY <2>1, <2>2, <2>3, <2>4, <2>5 DEF IdsDecrease
<1>13. Ids_OK'
  BY <1>9, <1>11, <1>12 DEF Ids_OK
<1>14. \A k : ~Deciding(k)
  BY <1>2 DEF Deciding
<1>15. \A k, n : Listed(k, n)' <=> Listed(k, n)
  BY <1>2 DEF Listed
<1>16. ListedAhead' /\ PendingHeld'
  BY <1>1, <1>2, <1>14, <1>15 DEF ListedAhead, PendingHeld
<1>17. Accounts'
  <2>1. \A k : Quiet(k) => Quiet(k)'
    BY <1>2, <1>15 DEF Quiet
  <2> QED BY <1>1, <1>2, <2>1, AccountsSame
<1>18. BotTyped'
  <2>1. Len(actions') <= MaxActions
    BY <1>1, <1>3, Sizes DEF BotTyped
  <2> QED BY <1>1, <1>2, <1>3, <1>6, <2>1 DEF BotTyped
<1>19. LinkTyped' /\ CountTyped' /\ PendingTyped'
  BY <1>1, <1>2, <1>10, PendingSame DEF LinkTyped, CountTyped
<1> QED BY <1>13, <1>16, <1>17, <1>18, <1>19, TypedParts

-----------------------------------------------------------------------------
(* The end of a call: its key leaves the table, and a report more becomes  *)
(* possible unless the key is quiet for good.                              *)
LEMMA EndKeeps ==
    ASSUME Typed, Accounts, task # NothingRuns, NEW ok \in BOOLEAN, EndCall(ok), reports' = reports,
           \A k : Quiet(k) => Quiet(k)',
           \A k \in Keys : ok /\ Deciding(k) /\ k \notin waiting \cup settled => Quiet(k)'
    PROVE  /\ Accounts' /\ PendingTyped' /\ failures' \in [Keys -> Nat]
           /\ task' = NothingRuns /\ actions' = actions /\ pending' \subseteq pending
           /\ \A k \in pending' : ~Deciding(k)
<1>1. task' = NothingRuns /\ actions' = actions
  BY DEF EndCall
<1>2. \A k \in Keys : reports[k] \in Nat /\ failures[k] \in Nat
  BY DEF Typed, CountTyped
<1>3. CASE task.operation.kind # "decide"
  <2>1. UNCHANGED <<pending, failures>> /\ \A k : ~Deciding(k)
    BY <1>3 DEF EndCall, Deciding
  <2>2. Accounts' /\ PendingTyped' /\ failures' \in [Keys -> Nat]
    BY <2>1, AccountsSame, PendingSame DEF Typed, CountTyped
  <2> QED BY <1>1, <2>1, <2>2
<1>4. CASE task.operation.kind = "decide"
  <2>1. PICK k \in Keys : k = task.operation.key
    BY <1>4, Fields DEF Typed, BotTyped
  <2>2. /\ pending' = pending \ {k}
        /\ failures' = [failures EXCEPT ![k] =
                          @ + IF ok /\ k \notin waiting \cup settled THEN 0 ELSE 1]
    BY <1>4, <2>1 DEF EndCall
  <2>3. Deciding(k) /\ \A x : Deciding(x) => x = k
    BY <1>4, <2>1 DEF Deciding
  <2>4. failures' \in [Keys -> Nat]
    BY <1>2, <2>2 DEF Typed, CountTyped
  <2>5. /\ \A x \in Keys : x # k => failures'[x] = failures[x]
        /\ ~(ok /\ k \notin waiting \cup settled) => failures'[k] = failures[k] + 1
        /\ ok /\ k \notin waiting \cup settled => failures'[k] = failures[k]
    BY <1>2, <2>2 DEF Typed, CountTyped
  <2>6. PendingTyped'
    <3>1. ASSUME NEW x \in pending'
          PROVE  Cardinality(pending' \cap Table(x)) <= MaxPending
      <4> DEFINE old == pending \cap Table(x)
                 new == pending' \cap Table(x)
      <4>1. pending \subseteq Keys /\ x \in pending /\ new \in SUBSET old /\ old \in SUBSET Keys
        BY <2>2 DEF Typed, PendingTyped
      <4>2. Cardinality(old) <= MaxPending
        BY <4>1 DEF Typed, PendingTyped
      <4> HIDE DEF old, new
      <4>3. IsFiniteSet(old)
        BY <4>1, Sizes, FS_Subset
      <4>4. IsFiniteSet(new) /\ Cardinality(new) <= Cardinality(old)
        BY <4>1, <4>3, FS_Subset
      <4>5. Cardinality(old) \in Nat /\ Cardinality(new) \in Nat
        BY <4>3, <4>4, FS_CardinalityType
      <4>6. Cardinality(new) <= MaxPending
        BY <4>2, <4>4, <4>5, Sizes
      <4> QED BY <4>6 DEF new
    <3> QED BY <2>2, <3>1 DEF Typed, PendingTyped, Table
  <2>7. Accounts'
    <3> SUFFICES ASSUME NEW x \in Keys
                 PROVE  /\ reports[x] <= 1 + failures'[x]
                        /\ x \in pending' \/ reports[x] <= failures'[x] \/ Quiet(x)'
      BY DEF Accounts
    <3>1. CASE x # k
      BY <2>2, <2>5, <3>1 DEF Accounts
    <3>2. CASE x = k /\ ok /\ k \notin waiting \cup settled
      <4>1. Quiet(k)' /\ reports[k] <= 1 + failures[k]
        BY <2>3, <3>2 DEF Accounts
      <4> QED BY <2>5, <3>2, <4>1
    <3>3. CASE x = k /\ ~(ok /\ k \notin waiting \cup settled)
      <4>1. reports[k] <= 1 + failures[k] /\ failures'[k] = failures[k] + 1
        BY <2>5, <3>3 DEF Accounts
      <4>2. reports[k] <= failures'[k] /\ reports[k] <= 1 + failures'[k]
        BY <1>2, <4>1
      <4> QED BY <3>3, <4>2
    <3> QED BY <3>1, <3>2, <3>3
  <2> QED BY <1>1, <2>2, <2>3, <2>4, <2>6, <2>7
<1> QED BY <1>3, <1>4

(* A call that had its answer: nothing of its key is still to come.        *)
LEMMA ReturnStep ==
    ASSUME DecisionInv, ActionReturns
    PROVE  DecisionInv'
<1>1. /\ Typed /\ LinkTyped /\ BotTyped /\ CountTyped /\ PendingTyped /\ Ids_OK /\ ListedAhead
      /\ PendingHeld /\ Accounts
  BY DEF DecisionInv, Typed
<1>2. /\ task # NothingRuns /\ task.status # "waiting" /\ EndCall(task.status = "ok")
      /\ UNCHANGED <<waiting, moderators, outgoing, incoming, linked, moves, faults, stored, ask,
                     reports, missed, settled>>
  BY DEF ActionReturns, askerVars, linkVars, boundVars
<1>3. \A k, n : Listed(k, n)' <=> Listed(k, n)
  BY <1>2 DEF Listed
<1>4. ASSUME NEW k \in Keys, k \notin waiting \cup settled, NEW n \in DOMAIN incoming, Listed(k, n)
      PROVE  FALSE
  <2>1. PICK p \in DOMAIN incoming : Answer(p)
    BY <1>1, <1>4 DEF ListedAhead
  <2>2. task.operation.id \in Answered(incoming)
    BY <2>1 DEF Answer, Answered
  <2> QED BY <1>1, <1>2, <2>2 DEF Ids_OK, CallOwnsId
<1>5. ListedAhead' /\ \A k : Quiet(k) => Quiet(k)'
  BY <1>2, <1>3, <1>4 DEF ListedAhead, Quiet
<1>6. \A k \in Keys : k \notin waiting \cup settled => Quiet(k)'
  BY <1>2, <1>3, <1>4 DEF Quiet
<1>7. /\ Accounts' /\ PendingTyped' /\ failures' \in [Keys -> Nat]
      /\ task' = NothingRuns /\ actions' = actions /\ pending' \subseteq pending
      /\ \A k \in pending' : ~Deciding(k)
  <2>1. PICK ok \in BOOLEAN : ok = (task.status = "ok")
    OBVIOUS
  <2> QED BY <1>1, <1>2, <1>5, <1>6, <2>1, EndKeeps
<1>8. PendingHeld'
  BY <1>1, <1>2, <1>7 DEF PendingHeld
<1>9. CountTyped' /\ moves' \in Nat /\ moves' <= moves
  BY <1>1, <1>2, <1>7, Sizes DEF CountTyped
<1>10. Ids_OK'
  BY <1>1, <1>2, <1>7, <1>9, GatewaySame, ClientSame, IdsKept
<1>11. LinkTyped' /\ BotTyped'
  BY <1>1, <1>2, <1>7 DEF LinkTyped, BotTyped
<1> QED BY <1>5, <1>7, <1>8, <1>9, <1>10, <1>11, TypedParts

LEMMA TimeoutStep ==
    ASSUME DecisionInv, ActionTimesOut
    PROVE  DecisionInv'
<1>1. /\ Typed /\ LinkTyped /\ BotTyped /\ CountTyped /\ PendingTyped /\ Ids_OK /\ ListedAhead
      /\ PendingHeld /\ Accounts
  BY DEF DecisionInv, Typed
<1>2. /\ task # NothingRuns /\ EndCall(FALSE)
      /\ faults > 0 /\ faults' = faults - 1 /\ moves' = moves
      /\ settled' = IF task.operation.kind = "decide"
                    THEN settled \cup ({task.operation.key} \ waiting) ELSE settled
      /\ UNCHANGED <<waiting, moderators, outgoing, incoming, linked, stored, ask, reports, missed>>
  BY DEF ActionTimesOut, Fault, askerVars, linkVars
<1>3. \A k, n : Listed(k, n)' <=> Listed(k, n)
  BY <1>2 DEF Listed
<1>4. settled \subseteq settled' /\ settled' \subseteq Keys
      /\ \A k : Deciding(k) => k \in waiting \cup settled'
  <2>1. task.operation.kind = "decide" => task.operation.key \in Keys
    BY <1>1, <1>2, Fields DEF BotTyped
  <2> QED BY <1>1, <1>2, <2>1 DEF CountTyped, Deciding
<1>5. ListedAhead' /\ \A k : Quiet(k) => Quiet(k)'
  <2>1. \A k \in Keys \ (waiting \cup settled') : \A n \in DOMAIN incoming : ~Listed(k, n)
    BY <1>1, <1>4 DEF ListedAhead
  <2> QED BY <1>2, <1>3, <2>1 DEF ListedAhead, Quiet
<1>6. /\ Accounts' /\ PendingTyped' /\ failures' \in [Keys -> Nat]
      /\ task' = NothingRuns /\ actions' = actions /\ pending' \subseteq pending
  BY <1>1, <1>2, <1>5, EndKeeps
<1>7. PendingHeld'
  BY <1>1, <1>2, <1>4, <1>6 DEF PendingHeld
<1>8. CountTyped' /\ moves' \in Nat /\ moves' <= moves
  <2>1. moves' \in Nat /\ moves' <= moves /\ faults' \in 0 .. MaxFaults
    BY <1>1, <1>2, Sizes DEF CountTyped
  <2> QED BY <1>1, <1>2, <1>4, <1>6, <2>1 DEF CountTyped
<1>9. Ids_OK'
  BY <1>1, <1>2, <1>6, <1>8, GatewaySame, ClientSame, IdsKept
<1>10. LinkTyped' /\ BotTyped'
  BY <1>1, <1>2, <1>6 DEF LinkTyped, BotTyped
<1> QED BY <1>5, <1>6, <1>7, <1>8, <1>9, <1>10, TypedParts

LEMMA LoseStep ==
    ASSUME DecisionInv, LoseLink
    PROVE  DecisionInv'
<1>1. /\ Typed /\ LinkTyped /\ BotTyped /\ CountTyped /\ PendingTyped /\ Ids_OK /\ ListedAhead
      /\ PendingHeld /\ Accounts
  BY DEF DecisionInv, Typed
<1>2. /\ outgoing' = <<>> /\ incoming' = <<>> /\ linked' = FALSE
      /\ faults > 0 /\ faults' = faults - 1 /\ moves' = moves
      /\ UNCHANGED <<waiting, moderators, stored, ask, reports, missed, settled>>
  BY DEF LoseLink, Fault, askerVars
<1>3. DOMAIN outgoing' = {} /\ DOMAIN incoming' = {}
  BY <1>2
<1>4. ListedAhead' /\ \A k : Quiet(k) => Quiet(k)'
  BY <1>2, <1>3 DEF ListedAhead, Quiet
<1>5. /\ Accounts' /\ PendingTyped' /\ failures' \in [Keys -> Nat]
      /\ task' = NothingRuns /\ actions' = actions /\ pending' \subseteq pending
      /\ \A k \in pending' : ~Deciding(k)
  <2>1. CASE task = NothingRuns
    <3>1. UNCHANGED <<task, pending, actions, failures>>
      BY <2>1 DEF LoseLink
    <3> QED BY <1>1, <1>2, <1>4, <2>1, <3>1, AccountsSame, PendingSame DEF CountTyped, Deciding
  <2>2. CASE task # NothingRuns
    <3>1. EndCall(FALSE)
      BY <2>2 DEF LoseLink
    <3> QED BY <1>1, <1>2, <1>4, <2>2, <3>1, EndKeeps
  <2> QED BY <2>1, <2>2
<1>6. PendingHeld'
  BY <1>1, <1>2, <1>5 DEF PendingHeld
<1>7. CountTyped' /\ moves' \in Nat /\ moves' <= moves
  <2>1. moves' \in Nat /\ moves' <= moves /\ faults' \in 0 .. MaxFaults
    BY <1>1, <1>2, Sizes DEF CountTyped
  <2> QED BY <1>1, <1>2, <1>5, <2>1 DEF CountTyped
<1>8. Ids_OK'
  <2>1. Requested(outgoing)' = {} /\ Answered(incoming)' = {}
    BY <1>3 DEF Requested, Answered
  <2>2. RequestsOnce(outgoing)' /\ AnswersOnce(incoming)'
    BY <1>3 DEF RequestsOnce, AnswersOnce
  <2> QED BY <1>1, <1>3, <1>5, <1>7, <2>1, <2>2, IdsKept
<1>9. LinkTyped' /\ BotTyped'
  <2>1. outgoing' \in Seq(Demands) /\ incoming' \in Seq(Arrivals)
    BY <1>2
  <2> QED BY <1>1, <1>2, <1>5, <2>1 DEF LinkTyped, BotTyped
<1> QED BY <1>4, <1>5, <1>6, <1>7, <1>8, <1>9, TypedParts

LEMMA SyncStep ==
    ASSUME DecisionInv, LinkUp \/ AskForSync
    PROVE  DecisionInv'
<1>1. /\ Typed /\ LinkTyped /\ BotTyped /\ CountTyped /\ PendingTyped /\ Ids_OK /\ ListedAhead
      /\ PendingHeld /\ Accounts
  BY DEF DecisionInv, Typed
<1>2. /\ outgoing' = Append(outgoing, [kind |-> "query"]) /\ linked' \in BOOLEAN
      /\ moves' = moves \/ (moves > 0 /\ moves' = moves - 1)
      /\ UNCHANGED <<waiting, moderators, incoming, faults, pending, stored, actions, task, ask,
                     reports, failures, settled>>
      /\ missed' \subseteq Keys
  BY DEF LinkUp, AskForSync, Move, DecisionInv, Typed, LinkTyped, askerVars, boundVars
<1>3. CountTyped' /\ moves' \in Nat /\ moves' <= moves
  BY <1>1, <1>2, CountsSame
<1>4. Ids_OK' /\ outgoing' \in Seq(Demands)
  BY <1>1, <1>2, <1>3, GatewayAsked, ClientSame, IdsKept
<1>5. ListedAhead' /\ \A k : Quiet(k) => Quiet(k)'
  <2>1. \A k : Quiet(k) => k \notin waiting'
    BY <1>2 DEF Quiet
  <2> QED BY <1>1, <1>2, <2>1, ListingSame
<1>6. PendingHeld' /\ Accounts'
  BY <1>1, <1>2, <1>5, HeldSame, AccountsSame
<1>7. LinkTyped' /\ BotTyped' /\ PendingTyped'
  BY <1>1, <1>2, <1>4, BotSame, PendingSame DEF LinkTyped
<1> QED BY <1>3, <1>4, <1>5, <1>6, <1>7, TypedParts

LEMMA StutterStep ==
    ASSUME DecisionInv, UNCHANGED decisionVars
    PROVE  DecisionInv'
<1>1. /\ Typed /\ LinkTyped /\ BotTyped /\ CountTyped /\ PendingTyped /\ Ids_OK /\ ListedAhead
      /\ PendingHeld /\ Accounts
  BY DEF DecisionInv, Typed
<1>2. UNCHANGED <<waiting, moderators, outgoing, incoming, linked, moves, faults, pending, stored,
                  actions, task, ask, reports, failures, missed, settled>>
  BY DEF decisionVars, askerVars, linkVars, boundVars, reportVars
<1>3. CountTyped' /\ moves' \in Nat /\ moves' <= moves
  BY <1>1, <1>2, CountsSame DEF CountTyped
<1>4. Ids_OK'
  BY <1>1, <1>2, <1>3, GatewaySame, ClientSame, IdsKept
<1>5. ListedAhead' /\ \A k : Quiet(k) => Quiet(k)'
  <2>1. \A k : Quiet(k) => k \notin waiting'
    BY <1>2 DEF Quiet
  <2> QED BY <1>1, <1>2, <2>1, ListingSame
<1>6. PendingHeld' /\ Accounts'
  BY <1>1, <1>2, <1>5, HeldSame, AccountsSame
<1>7. LinkTyped' /\ BotTyped' /\ PendingTyped'
  BY <1>1, <1>2, BotSame, PendingSame DEF LinkTyped
<1> QED BY <1>3, <1>4, <1>5, <1>6, <1>7, TypedParts

-----------------------------------------------------------------------------
LEMMA InitHolds == DecisionInit => DecisionInv
<1> SUFFICES ASSUME DecisionInit PROVE DecisionInv
  OBVIOUS
<1>1. /\ outgoing = <<>> /\ incoming = <<>> /\ actions = <<>> /\ task = NothingRuns /\ pending = {}
      /\ moves = MaxMoves /\ ask = [k \in Keys |-> 0]
      /\ reports = [k \in Keys |-> 0] /\ failures = [k \in Keys |-> 0]
  BY DEF DecisionInit
<1>2. DOMAIN outgoing = {} /\ DOMAIN incoming = {} /\ DOMAIN actions = {}
      /\ outgoing \in Seq(Demands) /\ incoming \in Seq(Arrivals)
      /\ actions \in Seq(Operations) /\ Len(actions) = 0
  BY <1>1
<1>3. LinkTyped
  <2>1. linked \in BOOLEAN
    BY Zenon DEF DecisionInit
  <2> QED BY <1>2, <2>1 DEF DecisionInit, LinkTyped
<1>4. BotTyped /\ PendingTyped
  BY <1>1, <1>2, Sizes DEF DecisionInit, BotTyped, PendingTyped
<1>5. CountTyped
  BY <1>1, Sizes DEF DecisionInit, CountTyped, Asks
<1>6. Requested(outgoing) = {} /\ Answered(incoming) = {} /\ Used = {}
  BY <1>1, <1>2 DEF Requested, Answered, Used
<1>7. Ids_OK
  BY <1>1, <1>2, <1>6
     DEF Ids_OK, InFlightOnce, CallOwnsId, IdsDecrease, RequestsOnce, AnswersOnce
<1>8. ListedAhead /\ PendingHeld /\ Accounts
  BY <1>1, <1>2 DEF ListedAhead, PendingHeld, Accounts
<1> QED BY <1>3, <1>4, <1>5, <1>7, <1>8 DEF DecisionInv, Typed

LEMMA EnqueueAlternatives ==
    ASSUME DecisionInv,
           \/ \E k \in Keys : Enqueue([kind |-> "decide", key |-> k, id |-> moves])
           \/ \E m \in Members : Enqueue([kind |-> "promote", member |-> m, id |-> moves])
    PROVE  DecisionInv'
<1>1. PICK o \in [kind : {"decide"}, key : Keys, id : {moves}]
                 \cup [kind : {"promote"}, member : Members, id : {moves}] : Enqueue(o)
  OBVIOUS
<1> QED BY <1>1, EnqueueStep

LEMMA EveryStepKeeps == DecisionInv /\ [DecisionNext]_decisionVars => DecisionInv'
  BY AskStep, ElsewhereStep, EnqueueAlternatives, AnswersSyncStep, AnswersCallStep,
     DispatchListStep, DispatchAnswerStep, RunStep, ReturnStep, TimeoutStep, LoseStep, SyncStep,
     StutterStep DEF DecisionNext

LEMMA InvAlways == DecisionSpec => []DecisionInv
  BY InitHolds, EveryStepKeeps, PTL DEF DecisionSpec

(* The tables of pending requests and invites and the queue of deferred    *)
(* operations keep their limits (client.c 2298, bot.c 1063), and all else  *)
(* has its type.                                                           *)
THEOREM DecisionsAlwaysTyped == DecisionSpec => []DecisionTypeOK
<1>1. DecisionInv => DecisionTypeOK
  BY DEF DecisionInv, Typed, LinkTyped, BotTyped, CountTyped, PendingTyped, DecisionTypeOK
<1> QED BY <1>1, InvAlways, PTL

(* A request is reported again only after a decision on it that failed, or *)
(* that was on an earlier ask of the same key (client.c 2298-2401, 2476).  *)
THEOREM OnlyFailuresReportAgain == DecisionSpec => []ReportedAgainOnlyAfterFailure
<1>1. DecisionInv => ReportedAgainOnlyAfterFailure
  BY DEF DecisionInv, Accounts, ReportedAgainOnlyAfterFailure
<1> QED BY <1>1, InvAlways, PTL

(* A pending entry that nothing is in flight about is a request that waits *)
(* or that was settled behind this client's back (client.c 2571).          *)
THEOREM PendingAlwaysWaits == DecisionSpec => []PendingMeansWaiting
<1>1. DecisionInv => PendingMeansWaiting
  BY DEF DecisionInv, PendingHeld, Deciding, PendingMeansWaiting
<1> QED BY <1>1, InvAlways, PTL
=============================================================================
