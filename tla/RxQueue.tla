------------------------------ MODULE RxQueue ------------------------------
(***************************************************************************)
(* The receive queue (rxqueue.c) and the function that fills and empties   *)
(* it, transport_service (transport.c 271-295): all frames live in one     *)
(* buffer, told apart by their end offsets, which move when a frame is     *)
(* popped.  The head stays in the queue while its handler runs, and a      *)
(* handler may enter transport_service again, through a blocking call.     *)
(*                                                                         *)
(* A byte is known by the message it belongs to and its place in it.       *)
(* `consumed' is 0 between the operations of the queue, and left out.      *)
(***************************************************************************)
EXTENDS Naturals, Sequences

CONSTANTS
    MaxMessages,  \* bound: messages the gateway sends
    MaxFragment,  \* bound: bytes in one fragment
    MaxBytes      \* bound: bytes in the buffer

ASSUME RxQueueAssumption == MaxMessages \in Nat /\ MaxFragment \in Nat /\ MaxBytes \in Nat

VARIABLES
    buf, ends,        \* rxqueue_t.buf up to .len, .ends up to .frame_count
    open,             \* transport_t.open
    sent, receiving,  \* the last message begun; whether more of it is to come
    received,         \* how many bytes of that one have come
    services,         \* the calls of transport_service under way, outermost first
    completed,        \* history: the messages whose end was marked, and their lengths
    handed,           \* history: what on_message was given
    cut               \* history: messages whose connection closed under them

rxVars == <<buf, ends, open, sent, receiving, received, services, completed, handed, cut>>

Messages == 1 .. MaxMessages
Bytes    == [of : Messages, nth : Nat]
Wholes   == [of : Messages, length : Nat]
Handings == [frame : Nat, depth : Nat]

RxTypeOK ==
    /\ buf \in Seq(Bytes) /\ ends \in Seq(Nat)
    /\ open \in BOOLEAN /\ sent \in 0 .. MaxMessages
    /\ receiving \in BOOLEAN /\ received \in Nat
    /\ services \in Seq({"lws", "handler"})
    /\ completed \in Seq(Wholes) /\ handed \in Seq(Handings)
    /\ cut \subseteq Messages

RxInit ==
    /\ buf = <<>> /\ ends = <<>>
    /\ open = FALSE /\ sent = 0 /\ receiving = FALSE /\ received = 0
    /\ services = <<>>
    /\ completed = <<>> /\ handed = <<>> /\ cut = {}

-----------------------------------------------------------------------------
(* The operations of the queue.  Definitions named Bug... are the          *)
(* definition below them with a plausible mistake: they show that some     *)
(* property notices.                                                       *)

(* Where the i-th frame starts; the unfinished one comes last.             *)
Start(i) == IF i = 1 THEN 0 ELSE ends[i - 1]
Frame(i) == SubSeq(buf, Start(i) + 1, ends[i])
Unmarked == Start(Len(ends) + 1)

(* How many frames have been completed.                                    *)
done == Len(completed)

Push(bytes) == buf' = buf \o bytes

(* The end of a message is marked, unless there are no bytes to mark.      *)
EndFrame(length, message) ==
    IF length <= Unmarked
    THEN UNCHANGED <<ends, completed>>
    ELSE ends' = Append(ends, length) /\ completed' = Append(completed, message)

BugPopDropsTail ==
    IF ends = <<>>
    THEN UNCHANGED <<buf, ends>>
    ELSE /\ buf' = SubSeq(buf, ends[1] + 1, ends[Len(ends)])
         /\ ends' = [i \in 1 .. Len(ends) - 1 |-> ends[i + 1] - ends[1]]

(* The bytes behind the head move to the front, and the offsets with them. *)
Pop ==
    IF ends = <<>>
    THEN UNCHANGED <<buf, ends>>
    ELSE /\ buf' = SubSeq(buf, ends[1] + 1, Len(buf))
         /\ ends' = [i \in 1 .. Len(ends) - 1 |-> ends[i + 1] - ends[1]]

-----------------------------------------------------------------------------
(* lws_service: the library reports fragments and closed connections.      *)

InLws == services # <<>> /\ services[Len(services)] = "lws"

(* A fragment of the message under way, or of a new one.                   *)
Current == IF receiving THEN sent ELSE sent + 1
Fragments ==
    {[k \in 1 .. n |-> [of |-> Current, nth |-> received + k]] : n \in 0 .. MaxFragment}
Arrives(bytes) == InLws /\ open /\ Current <= MaxMessages /\ Len(buf \o bytes) <= MaxBytes

BugReceiveIgnoresFailure(bytes, final) ==
    /\ Arrives(bytes)
    /\ sent' = Current /\ receiving' = ~final
    /\ received' = IF final THEN 0 ELSE received + Len(bytes)
    /\ Push(bytes)
    /\ \/ IF final
          THEN EndFrame(Len(buf \o bytes), [of |-> Current, length |-> received + Len(bytes)])
          ELSE UNCHANGED <<ends, completed>>
       \/ final /\ UNCHANGED <<ends, completed>>
    /\ UNCHANGED <<open, services, handed, cut>>

(* LWS_CALLBACK_CLIENT_RECEIVE.                                            *)
Receive(bytes, final) ==
    /\ Arrives(bytes)
    /\ sent' = Current /\ receiving' = ~final
    /\ received' = IF final THEN 0 ELSE received + Len(bytes)
    /\ Push(bytes)
    /\ IF final
       THEN EndFrame(Len(buf \o bytes), [of |-> Current, length |-> received + Len(bytes)])
       ELSE UNCHANGED <<ends, completed>>
    /\ UNCHANGED <<open, services, handed, cut>>

(* ... when memory for the bytes, or for the offset of the frame they      *)
(* complete, cannot be had: the connection is closed.  What is in the      *)
(* buffer stays.                                                           *)
ReceiveFails(bytes, final) ==
    /\ Arrives(bytes)
    /\ open' = FALSE
    /\ sent' = Current /\ receiving' = FALSE /\ received' = 0
    /\ \/ bytes # <<>> /\ UNCHANGED buf
       \/ final /\ Len(buf \o bytes) > Unmarked /\ Push(bytes)
    /\ cut' = cut \cup {sent'}
    /\ UNCHANGED <<ends, services, completed, handed>>

(* LWS_CALLBACK_CLOSED, whatever has come of the message under way.        *)
Closes ==
    /\ InLws /\ open
    /\ open' = FALSE /\ receiving' = FALSE /\ received' = 0
    /\ cut' = IF receiving THEN cut \cup {sent} ELSE cut
    /\ UNCHANGED <<buf, ends, sent, services, completed, handed>>

(* transport_connect, from outside lws_service: what is received from now  *)
(* on is of another connection, and begins with a message of its own.      *)
Connects ==
    /\ ~InLws /\ ~open
    /\ open' = TRUE
    /\ UNCHANGED <<buf, ends, sent, receiving, received, services, completed, handed, cut>>

-----------------------------------------------------------------------------
(* transport_service.                                                      *)

Outer == SubSeq(services, 1, Len(services) - 1)

(* Called by the poll, or by a handler that waits for an answer.  A call   *)
(* in flight refuses another (client.c 790), so no deeper than that.       *)
Service ==
    /\ services = <<>> \/ services = <<"handler">>
    /\ services' = Append(services, "lws")
    /\ UNCHANGED <<buf, ends, open, sent, receiving, received, completed, handed, cut>>

(* The loop: on_message is given the head, or there is none and the        *)
(* function returns.                                                       *)
HandsNext(left) ==
    IF left = 0
    THEN services' = Outer /\ UNCHANGED handed
    ELSE /\ services' = Append(Outer, "handler")
         /\ handed' = Append(handed, [frame |-> done - left + 1, depth |-> Len(services)])

LwsServiceReturns ==
    /\ InLws
    /\ HandsNext(Len(ends))
    /\ UNCHANGED <<buf, ends, open, sent, receiving, received, completed, cut>>

BugHandlerReturnsOnce ==
    /\ services # <<>> /\ ~InLws
    /\ Pop
    /\ services' = Outer
    /\ UNCHANGED <<open, sent, receiving, received, completed, handed, cut>>

HandlerReturns ==
    /\ services # <<>> /\ ~InLws
    /\ Pop
    /\ HandsNext(Len(ends'))
    /\ UNCHANGED <<open, sent, receiving, received, completed, cut>>

RxNext ==
    \/ \E bytes \in Fragments, final \in BOOLEAN : Receive(bytes, final) \/ ReceiveFails(bytes, final)
    \/ Closes \/ Connects
    \/ Service \/ LwsServiceReturns \/ HandlerReturns

RxSpec == RxInit /\ [][RxNext]_rxVars

-----------------------------------------------------------------------------
(* The offsets cut the buffer into non-empty frames and a tail.            *)
OffsetsInOrder ==
    /\ \A i \in 1 .. Len(ends) : 0 < ends[i] /\ ends[i] <= Len(buf)
    /\ \A i, j \in 1 .. Len(ends) : i < j => ends[i] < ends[j]

(* Behind bytes of messages that were cut off the bytes between two        *)
(* offsets are those of this message, from its first to its last.          *)
EndsWith(from, to, message) ==
    LET front == to - message.length IN
    /\ from <= front
    /\ \A p \in (from + 1) .. to :
          IF p <= front THEN buf[p].of \in cut
          ELSE buf[p] = [of |-> message.of, nth |-> p - front]

(* The message whose end the i-th offset marks.                            *)
Completed(i) == completed[done - Len(ends) + i]

(* However the fragments came and wherever memory ran out, a frame holds   *)
(* one whole message: all of its bytes, in order, and the last ones of the *)
(* frame.  What stands before them was left by messages whose connection   *)
(* ended under them: nothing clears those bytes (transport.c 119, 140).    *)
FramesWhole == \A i \in 1 .. Len(ends) : EndsWith(Start(i), ends[i], Completed(i))

(* transport.h 13: "the receiver never sees partial frames", so that a     *)
(* frame has no bytes but those of its message.                            *)
NeverPartial == \A i \in 1 .. Len(ends) : ends[i] - Start(i) = Completed(i).length

(* Every frame that left the queue was handed to on_message, in order and  *)
(* without gaps; a second time only by a service entered from its own      *)
(* handler (transport.c 285).  That one empties the queue, so that the pop *)
(* of the outer loop, which was meant for the same frame, takes no other.  *)
HandedInOrder ==
    /\ \A k \in 1 .. done - Len(ends) : \E i \in DOMAIN handed : handed[i].frame = k
    /\ \A i \in 1 .. Len(handed) - 1 :
          \/ handed[i + 1].frame = handed[i].frame + 1
          \/ handed[i + 1].frame = handed[i].frame /\ handed[i].depth < handed[i + 1].depth

(* rxqueue.c implements the queue of frames.                               *)
Queue == INSTANCE FrameQueue WITH
    queue <- [i \in 1 .. Len(ends) |-> Frame(i)],
    tail  <- SubSeq(buf, Unmarked + 1, Len(buf))

ImplementsFrameQueue == Queue!Spec
=============================================================================
