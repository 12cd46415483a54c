------------------------------ MODULE MCCalls -------------------------------
(***************************************************************************)
(* What runs inside and around evergram_call, checked in one run: the call *)
(* and its slot, the chat sync, and the deferred operations.  A behaviour  *)
(* is one of one part, the others stay at rest.                            *)
(***************************************************************************)
EXTENDS Requests, ChatSync, Decisions

VARIABLE part

calls == <<part, requestVars, vars, decisionVars>>

CallsInit ==
    /\ part \in {"requests", "chats", "decisions"}
    /\ RequestInit
    /\ Init
    /\ part # "chats" => member = CHOOSE m \in [Chats -> BOOLEAN] : TRUE
    /\ DecisionInit
    /\ part # "decisions" => waiting = {}

CallsNext ==
    \/ part = "requests" /\ RequestNext /\ UNCHANGED <<part, vars, decisionVars>>
    \/ part = "chats" /\ Next /\ UNCHANGED <<part, requestVars, decisionVars>>
    \/ part = "decisions" /\ DecisionNext /\ UNCHANGED <<part, requestVars, vars>>

(* The fairness of each part, while the behaviour is one of that part.     *)
FairCallsSpec ==
    /\ CallsInit /\ [][CallsNext]_calls
    /\ WF_requestVars(part = "requests" /\ CallEnds)
    /\ WF_vars(part = "chats" /\ GatewayRuns)
    /\ WF_vars(part = "chats" /\ ClientRuns)
    /\ WF_decisionVars(part = "decisions" /\ GatewayMoves)
    /\ WF_decisionVars(part = "decisions" /\ BotMoves)
=============================================================================
