---------------------------- MODULE FrameQueue -----------------------------
(***************************************************************************)
(* What the receive queue promises (rxqueue.h): the complete frames, in    *)
(* the order in which they were completed, and behind them the bytes of    *)
(* the one being received.  The buffer and its offsets are not here.       *)
(***************************************************************************)
EXTENDS Naturals, Sequences

VARIABLES queue, tail   \* the complete frames; the unfinished one

Init == queue = <<>> /\ tail = <<>>

Continues(longer, shorter) ==
    Len(shorter) <= Len(longer) /\ SubSeq(longer, 1, Len(shorter)) = shorter

Push == Continues(tail', tail) /\ UNCHANGED queue

(* A frame is complete, the bytes of its last fragment included.           *)
Complete ==
    /\ queue' # <<>>
    /\ LET frame == queue'[Len(queue')] IN
       /\ frame # <<>> /\ Continues(frame, tail)
       /\ queue' = Append(queue, frame)
    /\ tail' = <<>>

Pop == queue # <<>> /\ queue' = Tail(queue) /\ UNCHANGED tail

Next == Push \/ Complete \/ Pop

Spec == Init /\ [][Next]_<<queue, tail>>
=============================================================================
