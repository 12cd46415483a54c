------------------------------ MODULE MCParts -------------------------------
(***************************************************************************)
(* The parts of the program that share no state, checked in one run: a     *)
(* behaviour is one of one part, the others stay at rest.                  *)
(***************************************************************************)
EXTENDS Rooms, RxQueue, IdentityFile, Backoff, Mailbox

VARIABLE part

parts == <<part, roomVars, rxVars, identityVars, backoffVars, mailboxVars>>

PartsInit ==
    /\ part \in {"rooms", "receive queue", "identity file", "backoff", "mailbox"}
    /\ RoomInit
    /\ part # "rooms" => rooms[1] = CHOOSE r \in AllRooms : TRUE
    /\ RxInit
    /\ IdentityInit
    /\ part # "identity file" => path = Absent /\ temporary = Absent
    /\ BackoffInit
    /\ part # "backoff" => attempt = 0 /\ base_ms = 0 /\ cap_ms = 0 /\ jitter_ms = 0
    /\ MailboxInit

PartsNext ==
    \/ /\ part = "rooms" /\ RoomNext
       /\ UNCHANGED <<part, rxVars, identityVars, backoffVars, mailboxVars>>
    \/ /\ part = "receive queue" /\ RxNext
       /\ UNCHANGED <<part, roomVars, identityVars, backoffVars, mailboxVars>>
    \/ /\ part = "identity file" /\ IdentityNext
       /\ UNCHANGED <<part, roomVars, rxVars, backoffVars, mailboxVars>>
    \/ /\ part = "backoff" /\ BackoffNext
       /\ UNCHANGED <<part, roomVars, rxVars, identityVars, mailboxVars>>
    \/ /\ part = "mailbox" /\ MailboxNext
       /\ UNCHANGED <<part, roomVars, rxVars, identityVars, backoffVars>>

PartsSpec == PartsInit /\ [][PartsNext]_parts

(* Every variable of every part has its type.                              *)
PartsTypeOK == RoomTypeOK /\ RxTypeOK /\ IdentityTypeOK /\ BackoffTypeOK

(* Chats are interchangeable: nothing orders or names them.                *)
ChatSymmetry == Permutations(Chats)
=============================================================================
