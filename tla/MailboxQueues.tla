---------------------------- MODULE MailboxQueues ----------------------------
(***************************************************************************)
(* What the bot's mailbox promises, whatever array it is kept in: a queue  *)
(* per chat, first in first out unless handlers disturb the delivery,      *)
(* three caps shared by all of them, and no frame refused while there is   *)
(* room for it.  A frame there is no memory for is in none of this.        *)
(***************************************************************************)
EXTENDS Naturals, FiniteSets, SequencesExt

CONSTANTS
    Chats,
    Frames,
    MaxPerChat,    \* BOT_MAX_PENDING_PER_CHAT
    MaxChats,      \* BOT_MAX_PENDING_CHATS
    MaxTotal       \* BOT_MAX_PENDING_TOTAL

VARIABLES
    queues,      \* the frames held for each chat, oldest first
    refused,     \* the frames turned away
    disturbed    \* input: may a delivery take another frame than the oldest

Total == Cardinality(UNION {{chat} \X DOMAIN queues[chat] : chat \in Chats})
Busy  == {chat \in Chats : queues[chat] # <<>>}

HasRoom(chat) ==
    /\ Total < MaxTotal
    /\ Len(queues[chat]) < MaxPerChat
    /\ chat \in Busy \/ Cardinality(Busy) < MaxChats

Init == queues = [chat \in Chats |-> <<>>] /\ refused = {}

Hold(chat) ==
    /\ HasRoom(chat)
    /\ \E frame \in Frames : queues' = [queues EXCEPT ![chat] = Append(@, frame)]
    /\ UNCHANGED refused

Refuse(chat) ==
    /\ ~HasRoom(chat)
    /\ \E frame \in Frames : refused' = refused \cup {frame}
    /\ UNCHANGED queues

Deliver(chat) ==
    /\ \E n \in DOMAIN queues[chat] :
          /\ n = 1 \/ disturbed
          /\ queues' = [queues EXCEPT ![chat] = RemoveAt(@, n)]
    /\ UNCHANGED refused

Next == \E chat \in Chats : Hold(chat) \/ Refuse(chat) \/ Deliver(chat)

Spec == Init /\ [][Next]_<<queues, refused>>
=============================================================================
