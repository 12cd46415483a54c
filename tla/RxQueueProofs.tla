--------------------------- MODULE RxQueueProofs ---------------------------
(***************************************************************************)
(* Proofs about RxQueue, for every number and length of the messages.      *)
(*                                                                         *)
(* To the buffer and its offsets a step does one of four things: it adds   *)
(* bytes (Grows), adds bytes and marks a frame's end (Completes), removes  *)
(* the head (Pops), or nothing (Keeps).  What each of them does to the     *)
(* sequence of frames the offsets stand for is one lemma.                  *)
(***************************************************************************)
EXTENDS RxQueue, SequenceTheorems, TLAPS

-----------------------------------------------------------------------------
(* Slices of sequences.                                                    *)

LEMMA Slice ==
    ASSUME NEW S, NEW s \in Seq(S), NEW a \in Nat, NEW b \in Nat, a <= b, b <= Len(s)
    PROVE  /\ SubSeq(s, a + 1, b) \in Seq(S)
           /\ Len(SubSeq(s, a + 1, b)) = b - a
           /\ \A n \in 1 .. b - a : SubSeq(s, a + 1, b)[n] = s[a + n]
<1>1. a + 1 \in Int /\ b \in Int /\ \A n \in a + 1 .. b : s[n] \in S
  OBVIOUS
<1>2. /\ SubSeq(s, a + 1, b) \in Seq(S)
      /\ Len(SubSeq(s, a + 1, b)) = IF a + 1 <= b THEN b - (a + 1) + 1 ELSE 0
      /\ \A n \in 1 .. b - (a + 1) + 1 : SubSeq(s, a + 1, b)[n] = s[a + 1 + n - 1]
  BY <1>1, SubSeqProperties
<1> QED BY <1>2

LEMMA AsFunction ==
    ASSUME NEW S, NEW s \in Seq(S)
    PROVE  s = [i \in 1 .. Len(s) |-> s[i]]
  OBVIOUS

(* What follows a slice does not change it.                                *)
LEMMA SliceOfConcat ==
    ASSUME NEW S, NEW s \in Seq(S), NEW t \in Seq(S),
           NEW a \in Nat, NEW b \in Nat, a <= b, b <= Len(s)
    PROVE  SubSeq(s \o t, a + 1, b) = SubSeq(s, a + 1, b)
<1>1. /\ s \o t \in Seq(S) /\ Len(s \o t) = Len(s) + Len(t)
      /\ \A n \in 1 .. Len(s) : (s \o t)[n] = s[n]
  BY ConcatProperties
<1>2. b <= Len(s \o t)
  BY <1>1
<1>3. /\ SubSeq(s \o t, a + 1, b) \in Seq(S) /\ Len(SubSeq(s \o t, a + 1, b)) = b - a
      /\ \A n \in 1 .. b - a : SubSeq(s \o t, a + 1, b)[n] = (s \o t)[a + n]
  BY <1>1, <1>2, Slice
<1>4. /\ SubSeq(s, a + 1, b) \in Seq(S) /\ Len(SubSeq(s, a + 1, b)) = b - a
      /\ \A n \in 1 .. b - a : SubSeq(s, a + 1, b)[n] = s[a + n]
  BY Slice
<1>5. \A n \in 1 .. b - a : (s \o t)[a + n] = s[a + n]
  BY <1>1
<1> QED BY <1>3, <1>4, <1>5, SeqEqual

(* The rest of a sequence grows at its end when the sequence does.         *)
LEMMA RestOfConcat ==
    ASSUME NEW S, NEW s \in Seq(S), NEW t \in Seq(S), NEW a \in Nat, a <= Len(s)
    PROVE  /\ Len(SubSeq(s, a + 1, Len(s))) <= Len(SubSeq(s \o t, a + 1, Len(s \o t)))
           /\ SubSeq(SubSeq(s \o t, a + 1, Len(s \o t)), 1, Len(SubSeq(s, a + 1, Len(s))))
                 = SubSeq(s, a + 1, Len(s))
<1> DEFINE longer == SubSeq(s \o t, a + 1, Len(s \o t))
           shorter == SubSeq(s, a + 1, Len(s))
<1>1. /\ s \o t \in Seq(S) /\ Len(s \o t) = Len(s) + Len(t)
      /\ \A n \in 1 .. Len(s) : (s \o t)[n] = s[n]
      /\ Len(s) \in Nat /\ Len(t) \in Nat /\ Len(s \o t) \in Nat
  BY ConcatProperties
<1>2. /\ longer \in Seq(S) /\ Len(longer) = Len(s \o t) - a
      /\ \A n \in 1 .. Len(s \o t) - a : longer[n] = (s \o t)[a + n]
  BY <1>1, Slice
<1>3. /\ shorter \in Seq(S) /\ Len(shorter) = Len(s) - a
      /\ \A n \in 1 .. Len(s) - a : shorter[n] = s[a + n]
  BY <1>1, Slice
<1>4. Len(shorter) \in Nat /\ Len(shorter) <= Len(longer)
  BY <1>1, <1>2, <1>3
<1>5. /\ SubSeq(longer, 0 + 1, Len(shorter)) \in Seq(S)
      /\ Len(SubSeq(longer, 0 + 1, Len(shorter))) = Len(shorter) - 0
      /\ \A n \in 1 .. Len(shorter) - 0 : SubSeq(longer, 0 + 1, Len(shorter))[n] = longer[0 + n]
  BY <1>2, <1>4, Slice
<1>6. \A n \in 1 .. Len(shorter) : longer[n] = shorter[n]
  BY <1>1, <1>2, <1>3
<1>7. SubSeq(longer, 1, Len(shorter)) = shorter
  BY <1>3, <1>4, <1>5, <1>6, SeqEqual
<1> QED BY <1>4, <1>7

(* A slice found again after the first c elements have gone.               *)
LEMMA SliceOfRest ==
    ASSUME NEW S, NEW s \in Seq(S), NEW c \in Nat, NEW a \in Nat, NEW b \in Nat,
           c <= a, a <= b, b <= Len(s)
    PROVE  SubSeq(SubSeq(s, c + 1, Len(s)), (a - c) + 1, b - c) = SubSeq(s, a + 1, b)
<1> DEFINE rest == SubSeq(s, c + 1, Len(s))
<1>1. Len(s) \in Nat /\ a - c \in Nat /\ b - c \in Nat /\ a - c <= b - c /\ b - c <= Len(s) - c
  OBVIOUS
<1>2. /\ rest \in Seq(S) /\ Len(rest) = Len(s) - c
      /\ \A n \in 1 .. Len(s) - c : rest[n] = s[c + n]
  BY <1>1, Slice
<1> HIDE DEF rest
<1>3. /\ SubSeq(rest, (a - c) + 1, b - c) \in Seq(S)
      /\ Len(SubSeq(rest, (a - c) + 1, b - c)) = (b - c) - (a - c)
      /\ \A n \in 1 .. (b - c) - (a - c) : SubSeq(rest, (a - c) + 1, b - c)[n] = rest[(a - c) + n]
  BY <1>1, <1>2, Slice
<1>4. /\ SubSeq(s, a + 1, b) \in Seq(S) /\ Len(SubSeq(s, a + 1, b)) = b - a
      /\ \A n \in 1 .. b - a : SubSeq(s, a + 1, b)[n] = s[a + n]
  BY Slice
<1>5. \A n \in 1 .. b - a : rest[(a - c) + n] = s[a + n]
  BY <1>1, <1>2
<1>6. SubSeq(rest, (a - c) + 1, b - c) = SubSeq(s, a + 1, b)
  <2> DEFINE left == SubSeq(rest, (a - c) + 1, b - c)
             right == SubSeq(s, a + 1, b)
  <2>1. (b - c) - (a - c) = b - a
    OBVIOUS
  <2>2. left \in Seq(S) /\ right \in Seq(S) /\ Len(left) = b - a /\ Len(right) = b - a
    BY <1>3, <1>4, <2>1
  <2>3. \A n \in 1 .. b - a : left[n] = right[n]
    BY <1>3, <1>4, <1>5, <2>1
  <2> HIDE DEF left, right
  <2>4. left = right
    BY <2>2, <2>3, SeqEqual
  <2> QED BY <2>4 DEF left, right
<1> QED BY <1>6 DEF rest

LEMMA LastElement ==
    ASSUME NEW S, NEW s \in Seq(S), s # <<>>
    PROVE  s[Len(s)] \in S /\ Len(s) \in Nat /\ Len(s) \in 1 .. Len(s)
  OBVIOUS

(* Sequences of one and of two elements.                                   *)
LEMMA AppendToOne ==
    ASSUME NEW S, NEW s \in Seq(S), NEW b \in S, Len(s) = 1
    PROVE  /\ Append(s, b) \in Seq(S) /\ Len(Append(s, b)) = 2
           /\ Append(s, b)[2] = b /\ Append(s, b)[1] = s[1]
<1>1. /\ Append(s, b) \in Seq(S) /\ Len(Append(s, b)) = Len(s) + 1
      /\ Append(s, b)[Len(s) + 1] = b /\ \A i \in 1 .. Len(s) : Append(s, b)[i] = s[i]
  OBVIOUS
<1>2. Len(s) + 1 = 2 /\ 1 \in 1 .. Len(s)
  OBVIOUS
<1> QED BY <1>1, <1>2

LEMMA OneAndTwo ==
    ASSUME NEW S, NEW a \in S, NEW b \in S
    PROVE  Append(<<a>>, b) = <<a, b>> /\ SubSeq(<<a, b>>, 1, 1) = <<a>>
<1> DEFINE one == <<a>>
           two == <<a, b>>
           longer == Append(one, b)
           shorter == SubSeq(two, 1, 1)
<1>1. /\ one \in Seq(S) /\ Len(one) = 1 /\ one[1] = a
      /\ two \in Seq(S) /\ Len(two) = 2 /\ two[1] = a /\ two[2] = b
  OBVIOUS
<1> HIDE DEF one, two
<1>2. longer \in Seq(S) /\ Len(longer) = 2 /\ longer[2] = b /\ longer[1] = a
  BY <1>1, AppendToOne
<1>3. shorter \in Seq(S) /\ Len(shorter) = 1 /\ shorter[1] = a
  BY <1>1, SubSeqProperties
<1> HIDE DEF longer, shorter
<1>4. (\A i \in 1 .. 2 : i = 1 \/ i = 2) /\ (\A i \in 1 .. 1 : i = 1)
  OBVIOUS
<1>5. longer = two /\ shorter = one
  BY <1>1, <1>2, <1>3, <1>4, SeqEqual
<1> QED BY <1>5 DEF longer, shorter, one, two

-----------------------------------------------------------------------------
(* The queue.                                                              *)

Keeps == UNCHANGED <<buf, ends>>

Grows(bytes) == buf' = buf \o bytes /\ ends' = ends

Completes(bytes) ==
    /\ Len(buf \o bytes) > Unmarked
    /\ buf' = buf \o bytes /\ ends' = Append(ends, Len(buf \o bytes))

Pops == ends # <<>> /\ Pop

BufferOK == buf \in Seq(Bytes) /\ ends \in Seq(Nat) /\ OffsetsInOrder

FramesNow == [i \in 1 .. Len(ends) |-> Frame(i)]
TailNow   == SubSeq(buf, Unmarked + 1, Len(buf))

(* Every frame lies in the buffer and has bytes.                           *)
LEMMA FrameBounds ==
    ASSUME BufferOK
    PROVE  /\ \A i \in 1 .. Len(ends) :
                 /\ Start(i) \in Nat /\ ends[i] \in Nat
                 /\ Start(i) < ends[i] /\ ends[i] <= Len(buf)
           /\ Unmarked \in Nat /\ Unmarked <= Len(buf)
           /\ Len(buf) \in Nat /\ Len(ends) \in Nat
  BY DEF BufferOK, OffsetsInOrder, Start, Unmarked

(* Adding bytes keeps the offsets and the frames and lengthens the tail.   *)
LEMMA GrowsSimulates ==
    ASSUME BufferOK, NEW bytes \in Seq(Bytes), Grows(bytes)
    PROVE  BufferOK' /\ FramesNow' = FramesNow /\ Queue!Continues(TailNow', TailNow)
<1>1. /\ buf' \in Seq(Bytes) /\ Len(buf') = Len(buf) + Len(bytes)
      /\ Len(bytes) \in Nat /\ Len(buf) \in Nat
  BY ConcatProperties DEF BufferOK, Grows
<1>2. BufferOK'
  BY <1>1 DEF BufferOK, OffsetsInOrder, Grows
<1>3. ASSUME NEW i \in 1 .. Len(ends)
      PROVE  SubSeq(buf', Start(i) + 1, ends[i]) = SubSeq(buf, Start(i) + 1, ends[i])
  <2>1. /\ Start(i) \in Nat /\ ends[i] \in Nat /\ Start(i) <= ends[i] /\ ends[i] <= Len(buf)
    BY FrameBounds
  <2> QED BY <2>1, SliceOfConcat DEF BufferOK, Grows
<1>4. FramesNow' = FramesNow
  <2>1. ends' = ends /\ \A i \in 1 .. Len(ends) : Start(i)' = Start(i)
    BY DEF Grows, Start
  <2>2. \A i \in 1 .. Len(ends) : Frame(i)' = Frame(i)
    BY <1>3, <2>1 DEF Frame
  <2> QED BY <2>1, <2>2 DEF FramesNow
<1>5. Queue!Continues(TailNow', TailNow)
  <2>1. Unmarked' = Unmarked /\ Unmarked \in Nat /\ Unmarked <= Len(buf)
    BY FrameBounds DEF Grows, Unmarked, Start
  <2>2. TailNow' = SubSeq(buf \o bytes, Unmarked + 1, Len(buf \o bytes))
    BY <2>1 DEF TailNow, Grows
  <2>3. TailNow = SubSeq(buf, Unmarked + 1, Len(buf)) /\ buf \in Seq(Bytes)
    BY DEF TailNow, BufferOK
  <2>4. Len(TailNow) <= Len(TailNow') /\ SubSeq(TailNow', 1, Len(TailNow)) = TailNow
    <3> HIDE DEF TailNow
    <3> QED BY <2>1, <2>2, <2>3, RestOfConcat
  <2> QED BY <2>4 DEF Queue!Continues
<1> QED BY <1>2, <1>4, <1>5

(* Marking an end turns the tail, with the new bytes, into the last frame. *)
LEMMA CompletesSimulates ==
    ASSUME BufferOK, NEW bytes \in Seq(Bytes), Completes(bytes)
    PROVE  BufferOK' /\ Queue!Complete
<1> DEFINE length == Len(buf \o bytes)
           frame  == SubSeq(buf \o bytes, Unmarked + 1, length)
<1>1. /\ buf \o bytes \in Seq(Bytes) /\ length = Len(buf) + Len(bytes)
      /\ Len(bytes) \in Nat /\ Len(buf) \in Nat /\ length \in Nat
  BY ConcatProperties DEF BufferOK
<1>2. Unmarked \in Nat /\ Unmarked <= Len(buf) /\ Unmarked < length /\ Len(ends) \in Nat
  BY FrameBounds DEF Completes
<1>3. /\ ends' \in Seq(Nat) /\ Len(ends') = Len(ends) + 1
      /\ ends'[Len(ends) + 1] = length
      /\ \A i \in 1 .. Len(ends) : ends'[i] = ends[i]
  BY <1>1, AppendProperties DEF BufferOK, Completes
<1> HIDE DEF length, frame
<1>4. BufferOK'
  <2>1. buf' \in Seq(Bytes) /\ Len(buf') = length
    BY <1>1 DEF Completes, length
  <2>2. ASSUME NEW i \in 1 .. Len(ends)
        PROVE  ends[i] \in Nat /\ 0 < ends[i] /\ ends[i] <= Unmarked
    <3>1. ends[i] \in Nat /\ 0 < ends[i] /\ Len(ends) \in 1 .. Len(ends) /\ ends[Len(ends)] \in Nat
      BY <1>2 DEF BufferOK, OffsetsInOrder
    <3>2. Unmarked = ends[Len(ends)]
      BY <3>1 DEF Unmarked, Start
    <3>3. i = Len(ends) \/ i < Len(ends)
      BY <1>2
    <3>4. i < Len(ends) => ends[i] < ends[Len(ends)]
      BY <3>1 DEF BufferOK, OffsetsInOrder
    <3> QED BY <3>1, <3>2, <3>3, <3>4
  <2>3. \A i \in 1 .. Len(ends') : i \in 1 .. Len(ends) \/ i = Len(ends) + 1
    BY <1>2, <1>3
  <2>4. ASSUME NEW i \in 1 .. Len(ends')
        PROVE  0 < ends'[i] /\ ends'[i] <= length
    <3>1. CASE i \in 1 .. Len(ends)
      <4>1. ends'[i] = ends[i] /\ ends[i] \in Nat /\ 0 < ends[i] /\ ends[i] <= Unmarked
        BY <1>3, <2>2, <3>1
      <4> QED BY <1>1, <1>2, <4>1
    <3>2. CASE i = Len(ends) + 1
      BY <1>1, <1>2, <1>3, <3>2
    <3> QED BY <2>3, <3>1, <3>2
  <2>5. ASSUME NEW i \in 1 .. Len(ends'), NEW j \in 1 .. Len(ends'), i < j
        PROVE  ends'[i] < ends'[j]
    <3>1. i \in 1 .. Len(ends)
      BY <1>2, <1>3, <2>5
    <3>2. CASE j \in 1 .. Len(ends)
      BY <1>3, <2>5, <3>1, <3>2 DEF BufferOK, OffsetsInOrder
    <3>3. CASE j = Len(ends) + 1
      <4>1. ends'[i] = ends[i] /\ ends[i] \in Nat /\ ends[i] <= Unmarked /\ ends'[j] = length
        BY <1>3, <2>2, <3>1, <3>3
      <4> QED BY <1>1, <1>2, <4>1
    <3> QED BY <2>3, <3>2, <3>3
  <2> QED BY <1>3, <2>1, <2>4, <2>5 DEF BufferOK, OffsetsInOrder
<1>5. ASSUME NEW i \in 1 .. Len(ends) + 1
      PROVE  Start(i)' = Start(i)
  <2>1. CASE i = 1
    BY <2>1 DEF Start
  <2>2. CASE i # 1
    <3>1. i - 1 \in 1 .. Len(ends)
      BY <1>2, <2>2
    <3> QED BY <1>3, <2>2, <3>1 DEF Start
  <2> QED BY <2>1, <2>2
<1>6. ASSUME NEW i \in 1 .. Len(ends)
      PROVE  Frame(i)' = Frame(i)
  <2>1. /\ Start(i) \in Nat /\ ends[i] \in Nat /\ Start(i) <= ends[i] /\ ends[i] <= Len(buf)
    BY FrameBounds
  <2>2. SubSeq(buf \o bytes, Start(i) + 1, ends[i]) = SubSeq(buf, Start(i) + 1, ends[i])
    BY <2>1, SliceOfConcat DEF BufferOK
  <2>3. buf' = buf \o bytes /\ ends'[i] = ends[i] /\ Start(i)' = Start(i)
    BY <1>2, <1>3, <1>5 DEF Completes
  <2> QED BY <2>2, <2>3 DEF Frame
<1>7. ASSUME NEW n, n = Len(ends) + 1
      PROVE  Frame(n)' = frame /\ FramesNow' = [i \in 1 .. n |-> Frame(i)']
  <2>1. n \in 1 .. Len(ends) + 1 /\ Len(ends') = n
    BY <1>2, <1>3, <1>7
  <2>2. Start(n)' = Start(n) /\ Start(n) = Unmarked
    BY <1>5, <1>7, <2>1 DEF Unmarked
  <2>3. ends'[n] = length /\ buf' = buf \o bytes
    BY <1>3, <1>7 DEF Completes
  <2>4. Frame(n)' = frame
    BY <2>2, <2>3 DEF Frame, frame
  <2> QED BY <2>1, <2>4 DEF FramesNow
<1>8. frame \in Seq(Bytes) /\ Len(frame) = length - Unmarked /\ frame # <<>>
  <2>1. frame \in Seq(Bytes) /\ Len(frame) = length - Unmarked
    BY <1>1, <1>2, Slice DEF frame, length
  <2>2. Len(frame) # 0
    BY <1>1, <1>2, <2>1
  <2> QED BY <2>1, <2>2
<1>9. FramesNow \in Seq(Seq(Bytes)) /\ Len(FramesNow) = Len(ends)
      /\ \A i \in 1 .. Len(ends) : FramesNow[i] = Frame(i)
  <2>1. ASSUME NEW i \in 1 .. Len(ends)
        PROVE  Frame(i) \in Seq(Bytes)
    <3>1. /\ Start(i) \in Nat /\ ends[i] \in Nat /\ Start(i) <= ends[i] /\ ends[i] <= Len(buf)
      BY FrameBounds
    <3> QED BY <3>1, Slice DEF Frame, BufferOK
  <2> QED BY <1>2, <2>1 DEF FramesNow
<1>10. FramesNow' = Append(FramesNow, frame)
  <2>1. /\ Append(FramesNow, frame) \in Seq(Seq(Bytes))
        /\ Len(Append(FramesNow, frame)) = Len(ends) + 1
        /\ \A i \in 1 .. Len(ends) : Append(FramesNow, frame)[i] = Frame(i)
        /\ Append(FramesNow, frame)[Len(ends) + 1] = frame
    BY <1>8, <1>9, AppendProperties
  <2> DEFINE n == Len(ends) + 1
  <2>2. FramesNow' = [i \in 1 .. n |-> Frame(i)'] /\ \A k : k = n => Frame(k)' = frame
    BY <1>7
  <2>3. n \in Nat /\ \A i \in 1 .. n : i \in 1 .. Len(ends) \/ i = n
    BY <1>2
  <2> HIDE DEF n
  <2>4. \A i \in 1 .. n : Frame(i)' = Append(FramesNow, frame)[i]
    BY <1>6, <2>1, <2>2, <2>3 DEF n
  <2>5. FramesNow' = [i \in 1 .. n |-> Append(FramesNow, frame)[i]]
    BY <2>2, <2>4
  <2> QED BY <2>1, <2>5, AsFunction DEF n
<1>11. TailNow' = <<>>
  <2>1. Unmarked' = length
    <3>1. Len(ends') + 1 # 1 /\ Len(ends') + 1 - 1 = Len(ends) + 1
      BY <1>2, <1>3
    <3> QED BY <1>3, <3>1 DEF Unmarked, Start
  <2>2. TailNow' = SubSeq(buf', length + 1, length)
    BY <2>1 DEF TailNow, Completes, length
  <2> QED BY <1>1, <2>2, SubSeqEmpty
<1>12. Queue!Continues(frame, TailNow)
  <2>1. TailNow = SubSeq(buf, Unmarked + 1, Len(buf)) /\ buf \in Seq(Bytes)
    BY DEF TailNow, BufferOK
  <2>2. Len(TailNow) <= Len(frame) /\ SubSeq(frame, 1, Len(TailNow)) = TailNow
    <3> HIDE DEF TailNow
    <3> QED BY <1>2, <2>1, RestOfConcat DEF frame, length
  <2> QED BY <2>2 DEF Queue!Continues
<1>13. Queue!Complete
  <2>1. FramesNow'[Len(FramesNow')] = frame /\ FramesNow' # <<>>
    BY <1>8, <1>9, <1>10, AppendProperties
  <2>2. FramesNow' # <<>> /\ FramesNow'[Len(FramesNow')] # <<>>
        /\ Queue!Continues(FramesNow'[Len(FramesNow')], TailNow)
        /\ FramesNow' = Append(FramesNow, FramesNow'[Len(FramesNow')]) /\ TailNow' = <<>>
    BY <1>8, <1>10, <1>11, <1>12, <2>1
  <2> QED BY <2>2 DEF Queue!Complete, FramesNow, TailNow
<1> QED BY <1>4, <1>13

(* Moving the bytes and the offsets down takes the first frame and nothing *)
(* else.                                                                   *)
LEMMA PopsSimulates ==
    ASSUME BufferOK, Pops
    PROVE  BufferOK' /\ Queue!Pop
<1> DEFINE c == ends[1]
<1>1. /\ Len(ends) \in Nat /\ Len(ends) >= 1 /\ Len(buf) \in Nat
      /\ c \in Nat /\ 0 < c /\ c <= Len(buf) /\ buf \in Seq(Bytes)
  BY DEF BufferOK, OffsetsInOrder, Pops
<1>2. /\ buf' = SubSeq(buf, c + 1, Len(buf))
      /\ ends' = [i \in 1 .. Len(ends) - 1 |-> ends[i + 1] - c]
  BY DEF Pops, Pop
<1> HIDE DEF c
<1>3. buf' \in Seq(Bytes) /\ Len(buf') = Len(buf) - c
  BY <1>1, <1>2, Slice
<1>4. ASSUME NEW i \in 1 .. Len(ends) - 1
      PROVE  /\ i + 1 \in 1 .. Len(ends) /\ ends[i + 1] \in Nat
             /\ c < ends[i + 1] /\ ends[i + 1] <= Len(buf)
             /\ ends'[i] = ends[i + 1] - c /\ ends'[i] \in Nat /\ ends'[i] > 0
             /\ ends'[i] <= Len(buf) - c
  <2>1. i + 1 \in 1 .. Len(ends) /\ 1 \in 1 .. Len(ends) /\ 1 < i + 1
    BY <1>1
  <2>2. ends[i + 1] \in Nat /\ ends[1] < ends[i + 1] /\ ends[i + 1] <= Len(buf)
    BY <2>1 DEF BufferOK, OffsetsInOrder
  <2>3. ends'[i] = ends[i + 1] - c
    BY <1>2
  <2> QED BY <1>1, <2>1, <2>2, <2>3 DEF c
<1>5. ends' \in Seq(Nat) /\ Len(ends') = Len(ends) - 1
  BY <1>1, <1>2, <1>4
<1>6. BufferOK'
  <2>1. ASSUME NEW i \in 1 .. Len(ends'), NEW j \in 1 .. Len(ends'), i < j
        PROVE  ends'[i] < ends'[j]
    <3>1. /\ i + 1 \in 1 .. Len(ends) /\ j + 1 \in 1 .. Len(ends) /\ i + 1 < j + 1
          /\ ends[i + 1] \in Nat /\ ends[j + 1] \in Nat
          /\ ends'[i] = ends[i + 1] - c /\ ends'[j] = ends[j + 1] - c
      BY <1>1, <1>4, <1>5, <2>1
    <3>2. ends[i + 1] < ends[j + 1]
      BY <3>1 DEF BufferOK, OffsetsInOrder
    <3> QED BY <1>1, <3>1, <3>2
  <2>2. \A i \in 1 .. Len(ends') : 0 < ends'[i] /\ ends'[i] <= Len(buf')
    BY <1>3, <1>4, <1>5
  <2> QED BY <1>3, <1>5, <2>1, <2>2 DEF BufferOK, OffsetsInOrder
<1>7. ASSUME NEW i \in 1 .. Len(ends)
      PROVE  Start(i)' = Start(i + 1) - c /\ Start(i + 1) \in Nat /\ c <= Start(i + 1)
  <2>1. CASE i = 1
    BY <1>1, <2>1 DEF Start, c
  <2>2. CASE i # 1
    <3>1. i - 1 \in 1 .. Len(ends) - 1 /\ i - 1 + 1 = i /\ i + 1 # 1 /\ i + 1 - 1 = i
      BY <1>1, <2>2
    <3>2. ends'[i - 1] = ends[i] - c /\ c < ends[i] /\ ends[i] \in Nat
      BY <1>4, <3>1
    <3>3. Start(i)' = ends'[i - 1] /\ Start(i + 1) = ends[i]
      BY <2>2, <3>1 DEF Start
    <3> QED BY <1>1, <3>2, <3>3
  <2> QED BY <2>1, <2>2
<1>8. ASSUME NEW i \in 1 .. Len(ends) - 1
      PROVE  Frame(i)' = Frame(i + 1)
  <2> DEFINE a == Start(i + 1)
             b == ends[i + 1]
  <2>1. i \in 1 .. Len(ends) /\ i + 1 \in 1 .. Len(ends)
    BY <1>1
  <2>2. a \in Nat /\ b \in Nat /\ a <= b /\ b <= Len(buf) /\ c <= a
    BY <1>7, <2>1, FrameBounds
  <2>3. Start(i)' = a - c /\ ends'[i] = b - c
    BY <1>4, <1>7, <2>1
  <2>4. Frame(i + 1) = SubSeq(buf, a + 1, b)
    BY DEF Frame
  <2> HIDE DEF a, b
  <2>5. SubSeq(SubSeq(buf, c + 1, Len(buf)), (a - c) + 1, b - c) = SubSeq(buf, a + 1, b)
    BY <1>1, <2>2, SliceOfRest
  <2>6. Frame(i)' = SubSeq(SubSeq(buf, c + 1, Len(buf)), (a - c) + 1, b - c)
    BY <1>2, <2>3 DEF Frame
  <2> QED BY <2>4, <2>5, <2>6
<1>9. TailNow' = TailNow
  <2>1. Unmarked' = Unmarked - c /\ Unmarked \in Nat /\ c <= Unmarked /\ Unmarked <= Len(buf)
    <3> DEFINE n == Len(ends)
    <3>1. Len(ends') + 1 = n /\ n \in 1 .. Len(ends)
      BY <1>1, <1>5
    <3>2. Unmarked' = (IF n = 1 THEN 0 ELSE ends'[n - 1])
      BY <3>1 DEF Unmarked, Start
    <3>3. \A k \in 1 .. Len(ends) : Start(k)' = (IF k = 1 THEN 0 ELSE ends'[k - 1])
      BY DEF Start
    <3>4. (IF n = 1 THEN 0 ELSE ends'[n - 1]) = Start(n + 1) - c
          /\ Start(n + 1) \in Nat /\ c <= Start(n + 1)
      <4> HIDE DEF n
      <4> QED BY <1>7, <3>1, <3>3
    <3> QED BY <3>2, <3>4, FrameBounds DEF Unmarked
  <2>2. SubSeq(SubSeq(buf, c + 1, Len(buf)), (Unmarked - c) + 1, Len(buf) - c)
           = SubSeq(buf, Unmarked + 1, Len(buf))
    BY <1>1, <2>1, SliceOfRest
  <2> QED BY <1>2, <1>3, <2>1, <2>2 DEF TailNow
<1>10. FramesNow \in Seq(Seq(Bytes)) /\ Len(FramesNow) = Len(ends) /\ FramesNow # <<>>
      /\ \A i \in 1 .. Len(ends) : FramesNow[i] = Frame(i)
  <2>1. ASSUME NEW i \in 1 .. Len(ends)
        PROVE  Frame(i) \in Seq(Bytes)
    <3>1. /\ Start(i) \in Nat /\ ends[i] \in Nat /\ Start(i) <= ends[i] /\ ends[i] <= Len(buf)
      BY FrameBounds
    <3> QED BY <3>1, Slice DEF Frame, BufferOK
  <2> QED BY <1>1, <2>1 DEF FramesNow
<1>11. FramesNow' = Tail(FramesNow)
  <2>1. /\ Tail(FramesNow) \in Seq(Seq(Bytes)) /\ Len(Tail(FramesNow)) = Len(ends) - 1
        /\ \A i \in 1 .. Len(ends) - 1 : Tail(FramesNow)[i] = FramesNow[i + 1]
    BY <1>10, HeadTailProperties
  <2>2. \A i \in 1 .. Len(ends) - 1 : Frame(i)' = Tail(FramesNow)[i]
    BY <1>1, <1>8, <1>10, <2>1
  <2>3. FramesNow' = [i \in 1 .. Len(ends) - 1 |-> Tail(FramesNow)[i]]
    BY <1>5, <2>2 DEF FramesNow
  <2> QED BY <2>1, <2>3, AsFunction
<1>12. Queue!Pop
  <2>1. FramesNow # <<>> /\ FramesNow' = Tail(FramesNow) /\ TailNow' = TailNow
    BY <1>9, <1>10, <1>11
  <2> QED BY <2>1 DEF Queue!Pop, FramesNow, TailNow
<1> QED BY <1>6, <1>12

-----------------------------------------------------------------------------
(* The invariants.                                                         *)

(* Which bytes are where: those of the message under way come last in the  *)
(* tail, from its first on, and before them stand bytes of messages that   *)
(* were cut off.                                                           *)
BytesLabelled ==
    /\ Len(ends) <= done
    /\ receiving => sent > 0
    /\ ~receiving => received = 0
    /\ EndsWith(Unmarked, Len(buf), [of |-> sent, length |-> received])

BufferInv == RxTypeOK /\ OffsetsInOrder /\ BytesLabelled

Popped     == done - Len(ends)
LastHanded == IF handed = <<>> THEN 0 ELSE handed[Len(handed)].frame
Level      == LastHanded = Popped
Ahead      == ends # <<>> /\ LastHanded = Popped + 1
AheadOnce  == Ahead /\ handed[Len(handed)].depth = 1

(* The head has been handed over exactly while a handler runs for it; a    *)
(* handler whose frame was taken by an inner loop finds the queue empty.   *)
ServicesInv ==
    \/ services = <<>> /\ ends = <<>> /\ Level
    \/ services = <<"lws">> /\ Level
    \/ services = <<"handler">> /\ ((ends = <<>> /\ Level) \/ AheadOnce)
    \/ services = <<"handler", "lws">> /\ (Level \/ AheadOnce)
    \/ services = <<"handler", "handler">> /\ Ahead

HandedUpTo(k) == \E i \in DOMAIN handed : handed[i].frame = k

InSteps ==
    \A i \in 1 .. Len(handed) - 1 :
        \/ handed[i + 1].frame = handed[i].frame + 1
        \/ handed[i + 1].frame = handed[i].frame /\ handed[i].depth < handed[i + 1].depth

HandedInv ==
    /\ ServicesInv
    /\ \A k \in 1 .. LastHanded : HandedUpTo(k)
    /\ InSteps

LEMMA ArrivingBytes ==
    ASSUME RxTypeOK, BytesLabelled, NEW bytes \in Fragments, Arrives(bytes)
    PROVE  /\ bytes \in Seq(Bytes)
           /\ \A k \in 1 .. Len(bytes) : bytes[k] = [of |-> Current, nth |-> received + k]
           /\ Current \in Messages /\ sent \in Nat
<1>1. Current \in Messages /\ sent \in Nat /\ received \in Nat
  BY RxQueueAssumption DEF RxTypeOK, BytesLabelled, Arrives, Current, Messages
<1>2. PICK n \in 0 .. MaxFragment :
          bytes = [k \in 1 .. n |-> [of |-> Current, nth |-> received + k]]
  BY DEF Fragments
<1>3. n \in Nat
  BY <1>2, RxQueueAssumption
<1>4. \A k \in 1 .. n : [of |-> Current, nth |-> received + k] \in Bytes
  <2>1. \A k \in 1 .. n : received + k \in Nat
    BY <1>1, <1>3
  <2> QED BY <1>1, <2>1 DEF Bytes
<1> HIDE DEF Current
<1>5. bytes \in Seq(Bytes) /\ Len(bytes) = n
      /\ \A k \in 1 .. n : bytes[k] = [of |-> Current, nth |-> received + k]
  BY <1>2, <1>3, <1>4
<1> QED BY <1>1, <1>5

(* What completed says of the frame an offset ends.                        *)
LEMMA CompletedTyped ==
    ASSUME RxTypeOK, Len(ends) <= done, NEW i \in 1 .. Len(ends)
    PROVE  /\ done - Len(ends) + i \in 1 .. Len(completed)
           /\ Completed(i) \in Wholes /\ Completed(i).length \in Nat
<1>1. Len(ends) \in Nat /\ Len(completed) \in Nat /\ completed \in Seq(Wholes)
  BY DEF RxTypeOK
<1>2. done - Len(ends) + i \in 1 .. Len(completed)
  BY <1>1 DEF done
<1>3. completed[done - Len(ends) + i] \in Wholes
  BY <1>1, <1>2
<1> QED BY <1>2, <1>3 DEF Completed, Wholes

(* Bytes of message m are added, those that had come of it being the last  *)
(* of the buffer: where they stand in the longer buffer.                   *)
LEMMA AddedBytes ==
    ASSUME BufferInv, NEW bytes \in Seq(Bytes), NEW m \in Messages,
           \A k \in 1 .. Len(bytes) : bytes[k] = [of |-> m, nth |-> received + k],
           receiving => m = sent, buf' = buf \o bytes
    PROVE  /\ Len(buf') = Len(buf) + Len(bytes) /\ Len(bytes) \in Nat /\ Len(buf) \in Nat
           /\ \A p \in 1 .. Len(buf) : buf'[p] = buf[p]
           /\ Unmarked \in Nat /\ received \in Nat /\ Unmarked <= Len(buf) - received
           /\ \A p \in (Unmarked + 1) .. Len(buf') :
                 IF p <= Len(buf) - received THEN buf'[p].of \in cut
                 ELSE buf'[p] = [of |-> m, nth |-> p - (Len(buf) - received)]
<1>1. /\ buf' \in Seq(Bytes) /\ Len(buf') = Len(buf) + Len(bytes)
      /\ Len(bytes) \in Nat /\ Len(buf) \in Nat
      /\ \A p \in 1 .. Len(buf) : buf'[p] = buf[p]
      /\ \A p \in (Len(buf) + 1) .. (Len(buf) + Len(bytes)) : buf'[p] = bytes[p - Len(buf)]
  BY ConcatProperties DEF BufferInv, RxTypeOK
<1>2. BufferOK /\ Unmarked \in Nat /\ Unmarked <= Len(buf)
  <2>1. BufferOK
    BY DEF BufferInv, RxTypeOK, BufferOK
  <2> QED BY <2>1, FrameBounds
<1>3. /\ Unmarked <= Len(buf) - received /\ received \in Nat
      /\ \A p \in (Unmarked + 1) .. Len(buf) :
            IF p <= Len(buf) - received THEN buf[p].of \in cut
            ELSE buf[p] = [of |-> sent, nth |-> p - (Len(buf) - received)]
  BY DEF BufferInv, BytesLabelled, EndsWith, RxTypeOK
<1>4. ASSUME NEW p \in (Unmarked + 1) .. Len(buf')
      PROVE  IF p <= Len(buf) - received THEN buf'[p].of \in cut
             ELSE buf'[p] = [of |-> m, nth |-> p - (Len(buf) - received)]
  <2>1. CASE p \in 1 .. Len(buf)
    <3>1. p \in (Unmarked + 1) .. Len(buf) /\ buf'[p] = buf[p]
      BY <1>1, <1>2, <2>1
    <3>2. ~receiving => received = 0
      BY DEF BufferInv, BytesLabelled
    <3>3. ~(p <= Len(buf) - received) => m = sent
      BY <1>1, <2>1, <3>2
    <3>4. CASE p <= Len(buf) - received
      BY <1>3, <3>1, <3>4
    <3>5. CASE ~(p <= Len(buf) - received)
      <4>1. buf[p] = [of |-> sent, nth |-> p - (Len(buf) - received)] /\ m = sent
        BY <1>3, <3>1, <3>3, <3>5
      <4> QED BY <3>1, <3>5, <4>1
    <3> QED BY <3>4, <3>5
  <2>2. CASE p \in (Len(buf) + 1) .. Len(buf')
    <3>1. p - Len(buf) \in 1 .. Len(bytes) /\ buf'[p] = bytes[p - Len(buf)]
      BY <1>1, <2>2
    <3>2. received + (p - Len(buf)) = p - (Len(buf) - received) /\ ~(p <= Len(buf) - received)
      BY <1>1, <1>3, <2>2
    <3>3. bytes[p - Len(buf)] = [of |-> m, nth |-> received + (p - Len(buf))]
      BY <3>1
    <3> QED BY <3>1, <3>2, <3>3
  <2> QED BY <1>1, <1>2, <2>1, <2>2
<1> QED BY <1>1, <1>2, <1>3, <1>4

(* The frames that are complete stay what they are when bytes are added.   *)
LEMMA FramesStay ==
    ASSUME BufferInv, FramesWhole, \A p \in 1 .. Len(buf) : buf'[p] = buf[p], cut \subseteq cut',
           NEW i \in 1 .. Len(ends),
           Start(i)' = Start(i), ends'[i] = ends[i], Completed(i)' = Completed(i)
    PROVE  EndsWith(Start(i), ends[i], Completed(i))'
<1> DEFINE r == Completed(i)
           a == Start(i)
           e == ends[i]
<1>1. a \in Nat /\ e \in Nat /\ a < e /\ e <= Len(buf) /\ Len(buf) \in Nat
  <2>1. BufferOK
    BY DEF BufferInv, RxTypeOK, BufferOK
  <2> QED BY <2>1, FrameBounds
<1>2. /\ a <= e - r.length
      /\ \A p \in (a + 1) .. e :
            IF p <= e - r.length THEN buf[p].of \in cut
            ELSE buf[p] = [of |-> r.of, nth |-> p - (e - r.length)]
  BY DEF FramesWhole, EndsWith
<1>3. a' = a /\ e' = e /\ r' = r
  OBVIOUS
<1> HIDE DEF r, a, e
<1>4. \A p \in (a + 1) .. e : buf'[p] = buf[p]
  BY <1>1
<1>5. /\ a' <= e' - r'.length
      /\ \A p \in (a' + 1) .. e' :
            IF p <= e' - r'.length THEN buf'[p].of \in cut'
            ELSE buf'[p] = [of |-> r'.of, nth |-> p - (e' - r'.length)]
  BY <1>2, <1>3, <1>4
<1> QED BY <1>5 DEF EndsWith, r, a, e

(* Bytes of message m arrive and no frame is marked: the message stays the *)
(* one under way, or its connection ends, or it has no bytes at all.       *)
LEMMA GrowsLabelled ==
    ASSUME BufferInv, FramesWhole, NEW bytes \in Seq(Bytes), NEW m \in Messages,
           \A k \in 1 .. Len(bytes) : bytes[k] = [of |-> m, nth |-> received + k],
           receiving => m = sent,
           Grows(bytes), sent' = m, cut \subseteq cut', receiving' \in BOOLEAN, completed' = completed,
           \/ receiving' /\ received' = received + Len(bytes)
           \/ ~receiving' /\ received' = 0 /\ (m \in cut' \/ Len(buf') <= Unmarked)
    PROVE  BytesLabelled' /\ FramesWhole'
<1>1. /\ Len(buf') = Len(buf) + Len(bytes) /\ Len(bytes) \in Nat /\ Len(buf) \in Nat
      /\ \A p \in 1 .. Len(buf) : buf'[p] = buf[p]
      /\ Unmarked \in Nat /\ received \in Nat /\ Unmarked <= Len(buf) - received
      /\ \A p \in (Unmarked + 1) .. Len(buf') :
            IF p <= Len(buf) - received THEN buf'[p].of \in cut
            ELSE buf'[p] = [of |-> m, nth |-> p - (Len(buf) - received)]
  <2>1. buf' = buf \o bytes
    BY DEF Grows
  <2> QED BY <2>1, AddedBytes
<1>2. /\ Unmarked' = Unmarked /\ ends' = ends /\ done' = done
      /\ \A i \in 1 .. Len(ends) : Start(i)' = Start(i) /\ Completed(i)' = Completed(i)
  BY DEF Grows, Unmarked, Start, done, Completed
<1>3. EndsWith(Unmarked, Len(buf), [of |-> sent, length |-> received])'
  <2>1. CASE receiving'
    <3>1. Len(buf') - received' = Len(buf) - received
      BY <1>1, <2>1
    <3>2. /\ Unmarked <= Len(buf') - received'
          /\ \A p \in (Unmarked + 1) .. Len(buf') :
                IF p <= Len(buf') - received' THEN buf'[p].of \in cut'
                ELSE buf'[p] = [of |-> m, nth |-> p - (Len(buf') - received')]
      BY <1>1, <3>1
    <3> QED BY <1>2, <3>2 DEF EndsWith
  <2>2. CASE ~receiving'
    <3>1. /\ Unmarked <= Len(buf') - 0 /\ received' = 0
          /\ \A p \in (Unmarked + 1) .. Len(buf') : p <= Len(buf') - 0 /\ buf'[p].of \in cut'
      <4>1. \A p \in (Unmarked + 1) .. Len(buf') : Unmarked < Len(buf') /\ p <= Len(buf') - 0
        BY <1>1
      <4>2. \A p \in (Unmarked + 1) .. Len(buf') : buf'[p].of \in cut'
        <5>1. SUFFICES ASSUME NEW p \in (Unmarked + 1) .. Len(buf')
                       PROVE  buf'[p].of \in cut'
          OBVIOUS
        <5>2. m \in cut'
          BY <1>1, <2>2, <4>1
        <5>3. CASE p <= Len(buf) - received
          BY <1>1, <5>3
        <5>4. CASE ~(p <= Len(buf) - received)
          <6>1. buf'[p] = [of |-> m, nth |-> p - (Len(buf) - received)]
            BY <1>1, <5>4
          <6> QED BY <5>2, <6>1
        <5> QED BY <5>3, <5>4
      <4> QED BY <1>1, <2>2, <4>1, <4>2
    <3> QED BY <1>2, <3>1 DEF EndsWith
  <2> QED BY <2>1, <2>2
<1>4. FramesWhole'
  BY <1>1, <1>2, FramesStay DEF FramesWhole
<1>5. Len(ends') <= done' /\ (receiving' => sent' > 0) /\ (~receiving' => received' = 0)
  <2>1. Len(ends) <= done /\ m > 0
    BY RxQueueAssumption DEF BufferInv, BytesLabelled, Messages
  <2> QED BY <1>2, <2>1
<1> QED BY <1>3, <1>4, <1>5 DEF BytesLabelled

(* The last fragment of message m arrives and its frame is marked.         *)
LEMMA CompletesLabelled ==
    ASSUME BufferInv, FramesWhole, NEW bytes \in Seq(Bytes), NEW m \in Messages,
           \A k \in 1 .. Len(bytes) : bytes[k] = [of |-> m, nth |-> received + k],
           receiving => m = sent,
           Completes(bytes), sent' = m, cut' = cut, receiving' = FALSE, received' = 0,
           completed' = Append(completed, [of |-> m, length |-> received + Len(bytes)])
    PROVE  BytesLabelled' /\ FramesWhole'
<1> DEFINE n == Len(ends) + 1
           r == [of |-> m, length |-> received + Len(bytes)]
<1>1. /\ Len(buf') = Len(buf) + Len(bytes) /\ Len(bytes) \in Nat /\ Len(buf) \in Nat
      /\ \A p \in 1 .. Len(buf) : buf'[p] = buf[p]
      /\ Unmarked \in Nat /\ received \in Nat /\ Unmarked <= Len(buf) - received
      /\ \A p \in (Unmarked + 1) .. Len(buf') :
            IF p <= Len(buf) - received THEN buf'[p].of \in cut
            ELSE buf'[p] = [of |-> m, nth |-> p - (Len(buf) - received)]
  <2>1. buf' = buf \o bytes
    BY DEF Completes
  <2> QED BY <2>1, AddedBytes
<1>2. /\ ends \in Seq(Nat) /\ Len(ends) \in Nat /\ completed \in Seq(Wholes) /\ r \in Wholes
      /\ done = Len(completed) /\ done \in Nat /\ Len(ends) <= done
  <2>1. received + Len(bytes) \in Nat
    BY <1>1
  <2> QED BY <2>1 DEF BufferInv, RxTypeOK, BytesLabelled, done, Wholes
<1>3. /\ Len(ends') = n /\ ends'[n] = Len(buf')
      /\ \A i \in 1 .. Len(ends) : ends'[i] = ends[i]
  <2>1. ends' = Append(ends, Len(buf')) /\ Len(buf') \in Nat
    BY <1>1 DEF Completes
  <2> QED BY <1>2, <2>1, AppendProperties
<1>4. /\ done' = done + 1 /\ completed'[done + 1] = r
      /\ \A k \in 1 .. done : completed'[k] = completed[k]
  <2> HIDE DEF r
  <2>1. completed' = Append(completed, r)
    BY DEF r
  <2>2. /\ Len(completed') = Len(completed) + 1 /\ completed'[Len(completed) + 1] = r
        /\ \A k \in 1 .. Len(completed) : completed'[k] = completed[k]
    BY <1>2, <2>1, AppendProperties
  <2>3. done' = Len(completed')
    BY DEF done
  <2> QED BY <1>2, <2>2, <2>3
<1>5. ASSUME NEW i \in 1 .. n
      PROVE  Start(i)' = Start(i)
  <2>1. CASE i = 1
    BY <2>1 DEF Start
  <2>2. CASE i # 1
    <3>1. i - 1 \in 1 .. Len(ends)
      BY <1>2, <2>2
    <3> QED BY <1>3, <2>2, <3>1 DEF Start
  <2> QED BY <2>1, <2>2
<1>6. n \in 1 .. n /\ Start(n) = Unmarked /\ \A i \in 1 .. n : i \in 1 .. Len(ends) \/ i = n
  BY <1>2 DEF Unmarked
<1>7. ASSUME NEW i \in 1 .. n
      PROVE  Completed(i)' = IF i = n THEN r ELSE Completed(i)
  <2>1. done' - Len(ends') + i = done - Len(ends) + i
    BY <1>2, <1>3, <1>4
  <2>2. Completed(i)' = completed'[done - Len(ends) + i]
    BY <2>1 DEF Completed
  <2>3. CASE i = n
    <3>1. done - Len(ends) + i = done + 1
      BY <1>2, <2>3
    <3> QED BY <1>4, <2>2, <2>3, <3>1
  <2>4. CASE i # n
    <3>1. done - Len(ends) + i \in 1 .. done
      BY <1>2, <2>4
    <3> QED BY <1>4, <2>2, <2>4, <3>1 DEF Completed
  <2> QED BY <2>3, <2>4
<1> HIDE DEF n, r
<1>8. ASSUME NEW i \in 1 .. Len(ends')
      PROVE  EndsWith(Start(i), ends[i], Completed(i))'
  <2>1. CASE i \in 1 .. Len(ends)
    <3>1. i # n
      BY <1>2, <2>1 DEF n
    <3> QED BY <1>1, <1>3, <1>5, <1>7, <2>1, <3>1, FramesStay
  <2>2. CASE i = n
    <3>1. Start(i)' = Unmarked /\ ends'[i] = Len(buf') /\ Completed(i)' = r
      BY <1>3, <1>5, <1>6, <1>7, <2>2
    <3>2. r.of = m /\ Len(buf') - r.length = Len(buf) - received
      BY <1>1 DEF r
    <3> QED BY <1>1, <3>1, <3>2 DEF EndsWith
  <2> QED BY <1>3, <1>6, <2>1, <2>2
<1>9. EndsWith(Unmarked, Len(buf), [of |-> sent, length |-> received])'
  <2>1. Unmarked' = Len(buf')
    <3>1. Len(ends') + 1 # 1 /\ Len(ends') + 1 - 1 = n
      BY <1>2, <1>3 DEF n
    <3> QED BY <1>3, <3>1 DEF Unmarked, Start
  <2>2. Len(buf') \in Nat /\ \A p \in (Len(buf') + 1) .. Len(buf') : FALSE
    BY <1>1
  <2> QED BY <2>1, <2>2 DEF EndsWith
<1>10. Len(ends') <= done'
  BY <1>2, <1>3, <1>4 DEF n
<1> QED BY <1>8, <1>9, <1>10 DEF BytesLabelled, FramesWhole

(* A pop moves bytes and offsets by the same distance.                     *)
LEMMA PopsLabelled ==
    ASSUME BufferInv, FramesWhole, Pops, UNCHANGED <<sent, receiving, received, completed, cut>>
    PROVE  BytesLabelled' /\ FramesWhole'
<1> DEFINE c == ends[1]
<1>1. /\ Len(ends) \in Nat /\ Len(ends) >= 1 /\ Len(buf) \in Nat /\ BufferOK
      /\ c \in Nat /\ 0 < c /\ c <= Len(buf) /\ buf \in Seq(Bytes)
  BY DEF BufferInv, RxTypeOK, BufferOK, OffsetsInOrder, Pops
<1>2. /\ buf' = SubSeq(buf, c + 1, Len(buf))
      /\ ends' = [i \in 1 .. Len(ends) - 1 |-> ends[i + 1] - c]
  BY DEF Pops, Pop
<1>3. /\ Len(buf') = Len(buf) - c
      /\ \A p \in 1 .. Len(buf) - c : buf'[p] = buf[c + p]
  <2> HIDE DEF c
  <2> QED BY <1>1, <1>2, Slice
<1>4. Len(ends') = Len(ends) - 1 /\ \A i \in 1 .. Len(ends) - 1 : ends'[i] = ends[i + 1] - c
  BY <1>1, <1>2
<1>5. ASSUME NEW i \in 1 .. Len(ends)
      PROVE  Start(i)' = Start(i + 1) - c /\ Start(i + 1) \in Nat /\ c <= Start(i + 1)
  <2>1. CASE i = 1
    BY <1>1, <2>1 DEF Start
  <2>2. CASE i # 1
    <3>1. i - 1 \in 1 .. Len(ends) - 1 /\ i - 1 + 1 = i /\ i + 1 # 1 /\ i + 1 - 1 = i
          /\ 1 \in 1 .. Len(ends) /\ 1 < i
      BY <1>1, <2>2
    <3>2. c < ends[i] /\ ends[i] \in Nat
      BY <1>1, <3>1 DEF BufferOK, OffsetsInOrder
    <3>3. Start(i)' = ends'[i - 1] /\ Start(i + 1) = ends[i] /\ ends'[i - 1] = ends[i] - c
      BY <1>4, <2>2, <3>1 DEF Start
    <3> QED BY <1>1, <3>2, <3>3
  <2> QED BY <2>1, <2>2
<1>6. Unmarked' = Unmarked - c /\ Unmarked \in Nat /\ c <= Unmarked /\ Unmarked <= Len(buf)
  <2> DEFINE n == Len(ends)
  <2>1. Len(ends') + 1 = n /\ n \in 1 .. Len(ends)
    BY <1>1, <1>4
  <2>2. Unmarked' = (IF n = 1 THEN 0 ELSE ends'[n - 1])
    BY <2>1 DEF Unmarked, Start
  <2>3. \A k \in 1 .. Len(ends) : Start(k)' = (IF k = 1 THEN 0 ELSE ends'[k - 1])
    BY DEF Start
  <2>4. (IF n = 1 THEN 0 ELSE ends'[n - 1]) = Start(n + 1) - c
        /\ Start(n + 1) \in Nat /\ c <= Start(n + 1)
    <3> HIDE DEF n, c
    <3> QED BY <1>5, <2>1, <2>3
  <2> QED BY <1>1, <2>2, <2>4, FrameBounds DEF Unmarked
<1>7. done' = done /\ Len(ends) <= done /\ done \in Nat
  BY DEF BufferInv, BytesLabelled, RxTypeOK, done
<1> HIDE DEF c
<1>8. EndsWith(Unmarked, Len(buf), [of |-> sent, length |-> received])'
  <2>1. /\ Unmarked <= Len(buf) - received /\ received \in Nat
        /\ \A p \in (Unmarked + 1) .. Len(buf) :
              IF p <= Len(buf) - received THEN buf[p].of \in cut
              ELSE buf[p] = [of |-> sent, nth |-> p - (Len(buf) - received)]
    BY DEF BufferInv, BytesLabelled, EndsWith, RxTypeOK
  <2>2. ASSUME NEW p \in (Unmarked' + 1) .. Len(buf')
        PROVE  IF p <= Len(buf') - received THEN buf'[p].of \in cut
               ELSE buf'[p] = [of |-> sent, nth |-> p - (Len(buf') - received)]
    <3>1. c + p \in (Unmarked + 1) .. Len(buf) /\ p \in 1 .. Len(buf) - c
      BY <1>1, <1>3, <1>6
    <3>2. buf'[p] = buf[c + p]
      BY <1>3, <3>1
    <3>3. /\ (p <= Len(buf') - received) <=> (c + p <= Len(buf) - received)
          /\ p - (Len(buf') - received) = (c + p) - (Len(buf) - received)
      BY <1>1, <1>3, <2>1, <3>1
    <3> QED BY <2>1, <3>1, <3>2, <3>3
  <2>3. Unmarked' <= Len(buf') - received
    BY <1>1, <1>3, <1>6, <2>1
  <2> QED BY <2>2, <2>3 DEF EndsWith
<1>9. ASSUME NEW i \in 1 .. Len(ends')
      PROVE  EndsWith(Start(i), ends[i], Completed(i))'
  <2> DEFINE e == ends[i + 1]
             b == Start(i + 1)
             r == Completed(i + 1)
  <2>1. i \in 1 .. Len(ends) - 1 /\ i \in 1 .. Len(ends) /\ i + 1 \in 1 .. Len(ends)
    BY <1>1, <1>4
  <2>2. b \in Nat /\ e \in Nat /\ c <= b /\ b < e /\ e <= Len(buf)
    BY <1>1, <1>5, <2>1, FrameBounds
  <2>3. Start(i)' = b - c /\ ends'[i] = e - c
    BY <1>4, <1>5, <2>1
  <2>4. Completed(i)' = r /\ r.length \in Nat
    <3>1. done' - Len(ends') + i = done - Len(ends) + (i + 1)
      BY <1>1, <1>4, <1>7, <2>1
    <3>2. Completed(i)' = r
      BY <3>1 DEF Completed
    <3> QED BY <1>7, <2>1, <3>2, CompletedTyped DEF BufferInv
  <2>5. /\ b <= e - r.length
        /\ \A q \in (b + 1) .. e :
              IF q <= e - r.length THEN buf[q].of \in cut
              ELSE buf[q] = [of |-> r.of, nth |-> q - (e - r.length)]
    BY <2>1 DEF FramesWhole, EndsWith
  <2> HIDE DEF e, b, r
  <2>6. ASSUME NEW p \in (b - c + 1) .. (e - c)
        PROVE  IF p <= (e - c) - r.length THEN buf'[p].of \in cut
               ELSE buf'[p] = [of |-> r.of, nth |-> p - ((e - c) - r.length)]
    <3>1. c + p \in (b + 1) .. e /\ p \in 1 .. Len(buf) - c
      BY <1>1, <2>2
    <3>2. buf'[p] = buf[c + p]
      BY <1>3, <3>1
    <3>3. /\ (p <= (e - c) - r.length) <=> (c + p <= e - r.length)
          /\ p - ((e - c) - r.length) = (c + p) - (e - r.length)
      BY <1>1, <2>2, <2>4, <3>1
    <3> QED BY <2>5, <3>1, <3>2, <3>3
  <2>7. b - c <= (e - c) - r.length
    BY <1>1, <2>2, <2>4, <2>5
  <2> QED BY <2>3, <2>4, <2>6, <2>7 DEF EndsWith
<1>10. Len(ends') <= done' /\ (receiving' => sent' > 0) /\ (~receiving' => received' = 0)
  <2>1. (receiving => sent > 0) /\ (~receiving => received = 0)
    BY DEF BufferInv, BytesLabelled
  <2> QED BY <1>1, <1>4, <1>7, <2>1
<1> QED BY <1>8, <1>9, <1>10 DEF BytesLabelled, FramesWhole

-----------------------------------------------------------------------------
(* The steps.  Each lemma says which of the four things a step does, and   *)
(* what it does to the rest.                                               *)

BufferStep == FramesWhole' /\ BufferInv' /\ (Queue!Next \/ UNCHANGED <<FramesNow, TailNow>>)

LEMMA KeepsBuffer ==
    ASSUME BufferInv, FramesWhole, Keeps,
           UNCHANGED <<sent, receiving, received, completed, cut>>, RxTypeOK'
    PROVE  BufferStep
<1>1. UNCHANGED <<FramesNow, TailNow>>
  BY DEF Keeps, FramesNow, TailNow, Frame, Start, Unmarked
<1>2. OffsetsInOrder' /\ BytesLabelled' /\ FramesWhole'
  BY DEF BufferInv, Keeps, OffsetsInOrder, BytesLabelled, FramesWhole, EndsWith, Completed, done,
         Start, Unmarked
<1> QED BY <1>1, <1>2 DEF BufferInv, BufferStep

LEMMA GrowsBuffer ==
    ASSUME BufferInv, FramesWhole, NEW bytes \in Seq(Bytes), NEW m \in Messages,
           \A k \in 1 .. Len(bytes) : bytes[k] = [of |-> m, nth |-> received + k],
           receiving => m = sent,
           Grows(bytes), sent' = m, cut \subseteq cut', receiving' \in BOOLEAN,
           \/ receiving' /\ received' = received + Len(bytes)
           \/ ~receiving' /\ received' = 0 /\ (m \in cut' \/ Len(buf') <= Unmarked),
           open' \in BOOLEAN, UNCHANGED <<services, completed, handed>>, cut' \subseteq Messages
    PROVE  BufferStep
<1>1. BufferOK
  BY DEF BufferInv, RxTypeOK, BufferOK
<1>2. BytesLabelled' /\ FramesWhole'
  BY GrowsLabelled
<1>3. BufferOK' /\ FramesNow' = FramesNow /\ Queue!Continues(TailNow', TailNow)
  BY <1>1, GrowsSimulates
<1>4. Queue!Push
  BY <1>3 DEF Queue!Push, FramesNow, TailNow
<1>5. RxTypeOK'
  <2>1. received' \in Nat /\ sent' \in 0 .. MaxMessages
    <3>1. received \in Nat /\ Len(bytes) \in Nat
      BY DEF BufferInv, RxTypeOK
    <3> QED BY <3>1, RxQueueAssumption DEF Messages
  <2> QED BY <1>3, <2>1 DEF BufferInv, RxTypeOK, BufferOK
<1> QED BY <1>2, <1>3, <1>4, <1>5 DEF BufferInv, BufferStep, BufferOK, Queue!Next

LEMMA CompletesBuffer ==
    ASSUME BufferInv, FramesWhole, NEW bytes \in Seq(Bytes), NEW m \in Messages,
           \A k \in 1 .. Len(bytes) : bytes[k] = [of |-> m, nth |-> received + k],
           receiving => m = sent,
           Completes(bytes), sent' = m, cut' = cut, receiving' = FALSE, received' = 0,
           UNCHANGED <<open, services, handed>>,
           completed' = Append(completed, [of |-> m, length |-> received + Len(bytes)])
    PROVE  BufferStep
<1>1. BufferOK
  BY DEF BufferInv, RxTypeOK, BufferOK
<1>2. BytesLabelled' /\ FramesWhole'
  BY CompletesLabelled
<1>3. BufferOK' /\ Queue!Complete
  BY <1>1, CompletesSimulates
<1>4. RxTypeOK'
  <2>1. sent' \in 0 .. MaxMessages /\ received' \in Nat
    BY RxQueueAssumption DEF Messages
  <2>2. completed' \in Seq(Wholes)
    <3>1. received + Len(bytes) \in Nat /\ completed \in Seq(Wholes)
      BY DEF BufferInv, RxTypeOK
    <3> QED BY <3>1, AppendProperties DEF Wholes
  <2>3. receiving' \in BOOLEAN /\ open' \in BOOLEAN
    BY DEF BufferInv, RxTypeOK
  <2>4. services' \in Seq({"lws", "handler"}) /\ handed' \in Seq(Handings) /\ cut' \subseteq Messages
    BY DEF BufferInv, RxTypeOK
  <2> QED BY <1>3, <2>1, <2>2, <2>3, <2>4 DEF RxTypeOK, BufferOK
<1> QED BY <1>2, <1>3, <1>4 DEF BufferInv, BufferStep, BufferOK, Queue!Next

LEMMA PopsBuffer ==
    ASSUME BufferInv, FramesWhole, Pops,
           UNCHANGED <<open, sent, receiving, received, completed, cut>>,
           services' \in Seq({"lws", "handler"}), handed' \in Seq(Handings)
    PROVE  BufferStep
<1>1. BufferOK
  BY DEF BufferInv, RxTypeOK, BufferOK
<1>2. BytesLabelled' /\ FramesWhole'
  BY PopsLabelled
<1>3. BufferOK' /\ Queue!Pop
  BY <1>1, PopsSimulates
<1>4. RxTypeOK'
  BY <1>3 DEF BufferInv, RxTypeOK, BufferOK
<1> QED BY <1>2, <1>3, <1>4 DEF BufferInv, BufferStep, BufferOK, Queue!Next

LEMMA NothingAdded ==
    ASSUME BufferInv, Keeps
    PROVE  Grows(<<>>) /\ <<>> \in Seq(Bytes)
  BY ConcatEmptySeq DEF BufferInv, RxTypeOK, Keeps, Grows

LEMMA ReceiveStep ==
    ASSUME BufferInv, FramesWhole, NEW bytes \in Fragments, NEW final \in BOOLEAN,
           Receive(bytes, final)
    PROVE  /\ BufferStep
           /\ \/ ends' = ends /\ done' = done
              \/ ends' # <<>> /\ Len(ends') = Len(ends) + 1 /\ done' = done + 1
<1> DEFINE r == [of |-> Current, length |-> received + Len(bytes)]
<1>1. /\ bytes \in Seq(Bytes) /\ Current \in Messages /\ sent \in Nat
      /\ \A k \in 1 .. Len(bytes) : bytes[k] = [of |-> Current, nth |-> received + k]
  BY ArrivingBytes DEF BufferInv, Receive
<1>2. /\ sent' = Current /\ (receiving => Current = sent) /\ receiving' = ~final
      /\ received' = (IF final THEN 0 ELSE received + Len(bytes))
      /\ buf' = buf \o bytes /\ UNCHANGED <<open, services, handed, cut>>
  BY DEF Receive, Current, Push
<1>3. IF final THEN EndFrame(Len(buf \o bytes), r) ELSE UNCHANGED <<ends, completed>>
  BY DEF Receive
<1>4. cut \subseteq Messages /\ open \in BOOLEAN /\ ends \in Seq(Nat) /\ completed \in Seq(Wholes)
      /\ r \in Wholes
  <2>1. received + Len(bytes) \in Nat
    BY <1>1 DEF BufferInv, RxTypeOK
  <2> QED BY <1>1, <2>1 DEF BufferInv, RxTypeOK, Wholes
<1>5. Len(buf \o bytes) \in Nat /\ Unmarked \in Nat
  <2>1. BufferOK
    BY DEF BufferInv, RxTypeOK, BufferOK
  <2> QED BY <1>1, <2>1, ConcatProperties, FrameBounds DEF BufferOK
<1> HIDE DEF Current
<1>6. CASE UNCHANGED <<ends, completed>> /\ (final => Len(buf') <= Unmarked)
  <2>1. Grows(bytes) /\ cut \subseteq cut' /\ receiving' \in BOOLEAN /\ open' \in BOOLEAN
        /\ cut' \subseteq Messages
    BY <1>2, <1>4, <1>6 DEF Grows
  <2>2. \/ receiving' /\ received' = received + Len(bytes)
        \/ ~receiving' /\ received' = 0 /\ (Current \in cut' \/ Len(buf') <= Unmarked)
    BY <1>2, <1>6
  <2>3. BufferStep
    BY <1>1, <1>2, <1>6, <2>1, <2>2, GrowsBuffer
  <2> QED BY <1>6, <2>3 DEF done
<1>7. CASE final /\ Len(buf \o bytes) > Unmarked
           /\ ends' = Append(ends, Len(buf \o bytes)) /\ completed' = Append(completed, r)
  <2>1. Completes(bytes) /\ receiving' = FALSE /\ received' = 0 /\ cut' = cut
        /\ UNCHANGED <<open, services, handed>>
    BY <1>2, <1>7 DEF Completes
  <2>2. BufferStep
    BY <1>1, <1>2, <1>7, <2>1, CompletesBuffer
  <2>3. ends' # <<>> /\ Len(ends') = Len(ends) + 1
    BY <1>4, <1>5, <1>7, AppendProperties
  <2> HIDE DEF r
  <2>4. done' = done + 1
    BY <1>4, <1>7, AppendProperties DEF done
  <2> QED BY <2>2, <2>3, <2>4
<1> HIDE DEF r
<1> QED BY <1>2, <1>3, <1>5, <1>6, <1>7 DEF EndFrame

LEMMA ReceiveFailsStep ==
    ASSUME BufferInv, FramesWhole, NEW bytes \in Fragments, NEW final \in BOOLEAN,
           ReceiveFails(bytes, final)
    PROVE  BufferStep
<1>1. /\ bytes \in Seq(Bytes) /\ Current \in Messages /\ sent \in Nat
      /\ \A k \in 1 .. Len(bytes) : bytes[k] = [of |-> Current, nth |-> received + k]
  BY ArrivingBytes DEF BufferInv, ReceiveFails
<1>2. /\ sent' = Current /\ (receiving => Current = sent)
      /\ receiving' \in BOOLEAN /\ open' \in BOOLEAN
      /\ UNCHANGED <<ends, services, completed, handed>>
      /\ ~receiving' /\ received' = 0 /\ cut' = cut \cup {Current}
  BY DEF ReceiveFails, Current
<1>3. cut \subseteq cut' /\ cut' \subseteq Messages /\ Current \in cut'
  BY <1>1, <1>2 DEF BufferInv, RxTypeOK
<1>4. CASE UNCHANGED buf
  <2>1. Grows(<<>>) /\ <<>> \in Seq(Bytes)
    BY <1>2, <1>4, NothingAdded DEF Keeps
  <2>2. \A k \in 1 .. Len(<<>>) : <<>>[k] = [of |-> Current, nth |-> received + k]
    OBVIOUS
  <2> HIDE DEF Current
  <2> QED BY <1>1, <1>2, <1>3, <2>1, <2>2, GrowsBuffer
<1>5. CASE Push(bytes)
  <2>1. Grows(bytes)
    BY <1>2, <1>5 DEF Push, Grows
  <2> HIDE DEF Current
  <2> QED BY <1>1, <1>2, <1>3, <2>1, GrowsBuffer
<1> QED BY <1>4, <1>5 DEF ReceiveFails

LEMMA ClosesStep ==
    ASSUME BufferInv, FramesWhole, Closes
    PROVE  BufferStep
<1>1. /\ ~receiving' /\ received' = 0 /\ receiving' \in BOOLEAN /\ open' \in BOOLEAN
      /\ UNCHANGED <<buf, ends, sent, services, completed, handed>>
  BY DEF Closes
<1>2. CASE receiving
  <2>1. sent \in Messages
    BY <1>2, RxQueueAssumption DEF BufferInv, RxTypeOK, BytesLabelled, Messages
  <2>2. Grows(<<>>) /\ <<>> \in Seq(Bytes)
    BY <1>1, NothingAdded DEF Keeps
  <2>3. \A k \in 1 .. Len(<<>>) : <<>>[k] = [of |-> sent, nth |-> received + k]
    OBVIOUS
  <2>4. cut \subseteq cut' /\ cut' \subseteq Messages /\ sent \in cut'
    BY <1>2, <2>1 DEF BufferInv, RxTypeOK, Closes
  <2> QED BY <1>1, <2>1, <2>2, <2>3, <2>4, GrowsBuffer
<1>3. CASE ~receiving
  <2>1. cut' = cut /\ receiving' = receiving /\ received' = received /\ Keeps
    BY <1>1, <1>3 DEF Closes, Keeps, BufferInv, BytesLabelled, RxTypeOK
  <2>2. RxTypeOK'
    BY <1>1, <2>1 DEF BufferInv, RxTypeOK
  <2> QED BY <1>1, <2>1, <2>2, KeepsBuffer
<1> QED BY <1>2, <1>3

(* The calls of transport_service under way are one of five.               *)
ServiceStacks ==
    {<<>>, <<"lws">>, <<"handler">>, <<"handler", "lws">>, <<"handler", "handler">>}

LEMMA Stacks ==
    ASSUME ServicesInv
    PROVE  /\ services \in ServiceStacks
           /\ InLws <=> services \in {<<"lws">>, <<"handler", "lws">>}
           /\ services = <<"lws">> => Outer = <<>> /\ Append(Outer, "handler") = <<"handler">>
                                      /\ Len(services) = 1
           /\ services = <<"handler">> => Outer = <<>> /\ Append(Outer, "handler") = <<"handler">>
                                          /\ Len(services) = 1
           /\ services = <<"handler", "lws">> =>
                 /\ Outer = <<"handler">> /\ Append(Outer, "handler") = <<"handler", "handler">>
                 /\ Len(services) = 2
           /\ services = <<"handler", "handler">> =>
                 /\ Outer = <<"handler">> /\ Append(Outer, "handler") = <<"handler", "handler">>
                 /\ Len(services) = 2
<1>1. services \in ServiceStacks
  BY DEF ServicesInv, ServiceStacks
<1>2. /\ Append(<<>>, "handler") = <<"handler">>
      /\ Append(<<"handler">>, "handler") = <<"handler", "handler">>
      /\ SubSeq(<<"lws">>, 1, 1 - 1) = <<>> /\ SubSeq(<<"handler">>, 1, 1 - 1) = <<>>
      /\ SubSeq(<<"handler", "lws">>, 1, 2 - 1) = <<"handler">>
      /\ SubSeq(<<"handler", "handler">>, 1, 2 - 1) = <<"handler">>
  <2>1. "handler" \in {"lws", "handler"} /\ "lws" \in {"lws", "handler"} /\ 2 - 1 = 1 /\ 1 - 1 = 0
    OBVIOUS
  <2>2. /\ Append(<<"handler">>, "handler") = <<"handler", "handler">>
        /\ SubSeq(<<"handler", "lws">>, 1, 1) = <<"handler">>
        /\ SubSeq(<<"handler", "handler">>, 1, 1) = <<"handler">>
    BY <2>1, OneAndTwo
  <2>3. /\ Append(<<>>, "handler") = <<"handler">>
        /\ SubSeq(<<"lws">>, 1, 0) = <<>> /\ SubSeq(<<"handler">>, 1, 0) = <<>>
    OBVIOUS
  <2> QED BY <2>1, <2>2, <2>3
<1>3. /\ Len(<<"lws">>) = 1 /\ Len(<<"handler">>) = 1
      /\ Len(<<"handler", "lws">>) = 2 /\ Len(<<"handler", "handler">>) = 2
      /\ <<"lws">>[1] = "lws" /\ <<"handler">>[1] = "handler"
      /\ <<"handler", "lws">>[2] = "lws" /\ <<"handler", "handler">>[2] = "handler"
      /\ <<"handler", "lws">> # <<"lws">> /\ <<"handler", "lws">> # <<>> /\ <<"lws">> # <<>>
      /\ "lws" # "handler"
  OBVIOUS
<1>4. InLws <=> services \in {<<"lws">>, <<"handler", "lws">>}
  BY <1>1, <1>3 DEF InLws, ServiceStacks
<1> QED BY <1>1, <1>2, <1>3, <1>4 DEF Outer

(* What handing over frame f, the one after the last or the last again at  *)
(* a greater depth, does to the history.                                   *)
LEMMA HandsOver ==
    ASSUME RxTypeOK, HandedInv, NEW f \in Nat, NEW d \in Nat,
           handed' = Append(handed, [frame |-> f, depth |-> d]),
           f = LastHanded + 1 \/ (f = LastHanded /\ handed # <<>> /\ handed[Len(handed)].depth < d)
    PROVE  /\ LastHanded' = f /\ handed'[Len(handed')].depth = d
           /\ handed' \in Seq(Handings)
           /\ \A k \in 1 .. LastHanded' : HandedUpTo(k)'
           /\ InSteps'
<1> DEFINE r == [frame |-> f, depth |-> d]
           n == Len(handed)
<1>1. r \in Handings /\ handed \in Seq(Handings) /\ n \in Nat
  BY DEF Handings, RxTypeOK
<1>2. /\ handed' \in Seq(Handings) /\ Len(handed') = n + 1 /\ handed'[n + 1] = r
      /\ \A i \in 1 .. n : handed'[i] = handed[i]
  BY <1>1, AppendProperties
<1>3. handed' # <<>> /\ LastHanded' = f /\ handed'[Len(handed')].depth = d
  BY <1>1, <1>2 DEF LastHanded
<1>4. LastHanded \in Nat /\ (handed = <<>> => LastHanded = 0)
      /\ (handed # <<>> => n \in 1 .. n /\ LastHanded = handed[n].frame)
  <2>1. handed # <<>> => handed[n] \in Handings /\ n \in 1 .. n
    BY <1>1, LastElement
  <2>2. \A h \in Handings : h.frame \in Nat
    BY DEF Handings
  <2>3. handed # <<>> => handed[n].frame \in Nat
    BY <2>1, <2>2
  <2> QED BY <2>1, <2>3 DEF LastHanded
<1>5. ASSUME NEW k \in 1 .. LastHanded'
      PROVE  HandedUpTo(k)'
  <2>1. DOMAIN handed' = 1 .. (n + 1) /\ DOMAIN handed = 1 .. n
    BY <1>1, <1>2
  <2>2. CASE k \in 1 .. LastHanded
    <3>1. PICK i \in DOMAIN handed : handed[i].frame = k
      BY <2>2 DEF HandedInv, HandedUpTo
    <3>2. i \in DOMAIN handed' /\ handed'[i].frame = k
      BY <1>1, <1>2, <2>1, <3>1
    <3> QED BY <3>2 DEF HandedUpTo
  <2>3. CASE k = f
    <3>1. n + 1 \in DOMAIN handed' /\ handed'[n + 1].frame = k
      BY <1>1, <1>2, <2>1, <2>3
    <3> QED BY <3>1 DEF HandedUpTo
  <2> QED BY <1>3, <1>4, <2>2, <2>3
<1>6. ASSUME NEW i \in 1 .. Len(handed') - 1
      PROVE  \/ handed'[i + 1].frame = handed'[i].frame + 1
             \/ handed'[i + 1].frame = handed'[i].frame /\ handed'[i].depth < handed'[i + 1].depth
  <2>1. CASE i = n
    BY <1>1, <1>2, <1>4, <2>1
  <2>2. CASE i # n
    <3>1. i \in 1 .. n - 1 /\ i \in 1 .. n /\ i + 1 \in 1 .. n
      BY <1>1, <1>2, <2>2
    <3>2. handed'[i] = handed[i] /\ handed'[i + 1] = handed[i + 1]
      BY <1>2, <3>1
    <3> QED BY <3>1, <3>2 DEF HandedInv, InSteps
  <2> QED BY <2>1, <2>2
<1> QED BY <1>2, <1>3, <1>5, <1>6 DEF InSteps

(* Only the two ends of the loop change who runs and what was handed over. *)
LEMMA InLwsHanded ==
    ASSUME RxTypeOK, HandedInv, InLws, UNCHANGED <<services, handed>>,
           \/ ends' = ends /\ done' = done
           \/ ends' # <<>> /\ Len(ends') = Len(ends) + 1 /\ done' = done + 1
    PROVE  HandedInv'
<1>1. Len(ends) \in Nat /\ done \in Nat
  BY DEF RxTypeOK, done
<1>2. Popped' = Popped /\ (ends # <<>> => ends' # <<>>)
  BY <1>1 DEF Popped
<1>3. LastHanded' = LastHanded /\ InSteps' /\ \A k \in 1 .. LastHanded' : HandedUpTo(k)'
  BY DEF LastHanded, InSteps, HandedUpTo, HandedInv
<1>4. Level' = Level /\ (Ahead => Ahead')
  BY <1>2, <1>3 DEF Level, Ahead
<1>5. AheadOnce => AheadOnce'
  BY <1>4 DEF AheadOnce
<1>6. services \in {<<"lws">>, <<"handler", "lws">>}
  BY Stacks DEF HandedInv
<1>7. \/ services = <<"lws">> /\ Level
      \/ services = <<"handler", "lws">> /\ (Level \/ AheadOnce)
  <2>1. /\ <<"handler", "lws">> # <<"lws">> /\ <<"handler", "lws">> # <<>> /\ <<"lws">> # <<>>
        /\ <<"lws">> # <<"handler">> /\ <<"handler", "lws">> # <<"handler">>
        /\ <<"handler", "lws">> # <<"handler", "handler">> /\ <<"lws">> # <<"handler", "handler">>
    OBVIOUS
  <2> QED BY <1>6, <2>1 DEF HandedInv, ServicesInv
<1>8. ServicesInv'
  BY <1>4, <1>5, <1>7 DEF ServicesInv
<1> QED BY <1>3, <1>8 DEF HandedInv

(* The loop of transport_service, once what it handed over has been popped.*)
LEMMA HandsNextStep ==
    ASSUME RxTypeOK, HandedInv, ends' \in Seq(Nat), done' = done, Len(ends') <= done,
           services # <<>>, HandsNext(Len(ends')),
           \/ LastHanded = done - Len(ends')
           \/ /\ Len(ends') # 0 /\ LastHanded = done - Len(ends') + 1
              /\ handed[Len(handed)].depth = 1 /\ Len(services) = 2
    PROVE  HandedInv' /\ services' \in Seq({"lws", "handler"}) /\ handed' \in Seq(Handings)
<1>1. /\ Len(ends') \in Nat /\ done \in Nat /\ Popped' = done - Len(ends')
      /\ (ends' = <<>> <=> Len(ends') = 0)
  BY DEF RxTypeOK, Popped, done
<1>2. /\ Outer \in {<<>>, <<"handler">>} /\ Len(services) \in {1, 2}
      /\ Outer = <<>> => Append(Outer, "handler") = <<"handler">> /\ Len(services) = 1
      /\ Outer # <<>> => Append(Outer, "handler") = <<"handler", "handler">>
  <2>1. <<"handler">> # <<>>
    OBVIOUS
  <2> QED BY <2>1, Stacks DEF HandedInv, ServiceStacks
<1>3. CASE Len(ends') = 0
  <2>1. services' = Outer /\ handed' = handed /\ ends' = <<>>
    BY <1>1, <1>3 DEF HandsNext
  <2>2. LastHanded' = LastHanded /\ InSteps' /\ \A k \in 1 .. LastHanded' : HandedUpTo(k)'
    BY <2>1 DEF LastHanded, InSteps, HandedUpTo, HandedInv
  <2>3. Level'
    BY <1>1, <1>3, <2>2 DEF Level
  <2>4. ServicesInv'
    BY <1>2, <2>1, <2>3 DEF ServicesInv
  <2>5. services' \in Seq({"lws", "handler"})
    <3>1. <<>> \in Seq({"lws", "handler"}) /\ <<"handler">> \in Seq({"lws", "handler"})
      OBVIOUS
    <3>2. services' \in {<<>>, <<"handler">>}
      BY <1>2, <2>1
    <3> QED BY <3>1, <3>2
  <2> QED BY <2>1, <2>2, <2>4, <2>5 DEF HandedInv, RxTypeOK
<1>4. CASE Len(ends') # 0
  <2> DEFINE f == done - Len(ends') + 1
             d == Len(services)
  <2>1. /\ services' = Append(Outer, "handler") /\ handed' = Append(handed, [frame |-> f, depth |-> d])
        /\ ends' # <<>> /\ f \in Nat /\ d \in Nat
    BY <1>1, <1>2, <1>4 DEF HandsNext
  <2>2. f = LastHanded + 1 \/ (f = LastHanded /\ handed # <<>> /\ handed[Len(handed)].depth < d)
    <3>1. CASE LastHanded = done - Len(ends')
      BY <3>1
    <3>2. CASE LastHanded = f /\ handed[Len(handed)].depth = 1 /\ d = 2
      <4>1. handed # <<>>
        BY <1>1, <3>2 DEF LastHanded
      <4> QED BY <3>2, <4>1
    <3> QED BY <3>1, <3>2
  <2>3. f = Popped' + 1
    BY <1>1
  <2> HIDE DEF f, d
  <2>4. /\ LastHanded' = f /\ handed'[Len(handed')].depth = d
        /\ handed' \in Seq(Handings) /\ InSteps'
        /\ \A k \in 1 .. LastHanded' : HandedUpTo(k)'
    BY <2>1, <2>2, HandsOver
  <2>5. Ahead' /\ (d = 1 => AheadOnce')
    BY <2>1, <2>3, <2>4 DEF Ahead, AheadOnce
  <2>6. ServicesInv'
    <3>1. CASE Outer = <<>>
      <4>1. services' = <<"handler">> /\ AheadOnce'
        BY <1>2, <2>1, <2>5, <3>1 DEF d
      <4> QED BY <4>1 DEF ServicesInv
    <3>2. CASE Outer # <<>>
      <4>1. services' = <<"handler", "handler">> /\ Ahead'
        BY <1>2, <2>1, <2>5, <3>2
      <4> QED BY <4>1 DEF ServicesInv
    <3> QED BY <3>1, <3>2
  <2>7. services' \in {<<"handler">>, <<"handler", "handler">>}
    BY <1>2, <2>1
  <2>8. <<"handler">> \in Seq({"lws", "handler"}) /\ <<"handler", "handler">> \in Seq({"lws", "handler"})
    OBVIOUS
  <2> QED BY <2>4, <2>6, <2>7, <2>8 DEF HandedInv
<1> QED BY <1>3, <1>4

RxInv == BufferInv /\ FramesWhole /\ HandedInv

LEMMA ServiceStep ==
    ASSUME RxInv, Service
    PROVE  BufferStep /\ HandedInv'
<1>1. /\ UNCHANGED <<buf, ends, open, sent, receiving, received, completed, handed, cut>>
      /\ \/ services = <<>> /\ services' = <<"lws">>
         \/ services = <<"handler">> /\ services' = <<"handler", "lws">>
  <2>1. "handler" \in {"lws", "handler"} /\ "lws" \in {"lws", "handler"}
    OBVIOUS
  <2>2. Append(<<>>, "lws") = <<"lws">> /\ Append(<<"handler">>, "lws") = <<"handler", "lws">>
    <3>1. Append(<<"handler">>, "lws") = <<"handler", "lws">>
      BY <2>1, OneAndTwo
    <3>2. Append(<<>>, "lws") = <<"lws">>
      OBVIOUS
    <3> QED BY <3>1, <3>2
  <2> QED BY <2>2 DEF Service
<1>2. services' \in Seq({"lws", "handler"})
  <2>1. <<"lws">> \in Seq({"lws", "handler"}) /\ <<"handler", "lws">> \in Seq({"lws", "handler"})
    OBVIOUS
  <2> QED BY <1>1, <2>1
<1>3. BufferStep
  <2>1. RxTypeOK'
    BY <1>1, <1>2 DEF RxInv, BufferInv, RxTypeOK
  <2> QED BY <1>1, <2>1, KeepsBuffer DEF RxInv, Keeps
<1>4. /\ LastHanded' = LastHanded /\ Level' = Level /\ AheadOnce' = AheadOnce /\ InSteps'
      /\ \A k \in 1 .. LastHanded' : HandedUpTo(k)'
  BY <1>1 DEF RxInv, HandedInv, LastHanded, Level, Popped, done, AheadOnce, Ahead, InSteps,
              HandedUpTo
<1>5. IF services = <<>> THEN Level ELSE (Level \/ AheadOnce)
  <2>1. /\ <<"handler">> # <<>> /\ <<"lws">> # <<>> /\ <<"handler">> # <<"lws">>
        /\ <<"handler", "lws">> # <<"handler">> /\ <<"handler", "lws">> # <<>>
        /\ <<"handler", "handler">> # <<"handler">> /\ <<"handler", "handler">> # <<>>
    OBVIOUS
  <2> QED BY <1>1, <2>1 DEF RxInv, HandedInv, ServicesInv
<1>6. ServicesInv'
  <2>1. <<"handler">> # <<>>
    OBVIOUS
  <2> QED BY <1>1, <1>4, <1>5, <2>1 DEF ServicesInv
<1> QED BY <1>1, <1>3, <1>4, <1>6 DEF RxInv, HandedInv

LEMMA LwsServiceReturnsStep ==
    ASSUME RxInv, LwsServiceReturns
    PROVE  BufferStep /\ HandedInv'
<1>1. /\ Len(ends) \in Nat /\ done \in Nat /\ RxTypeOK /\ HandedInv /\ ends \in Seq(Nat)
      /\ UNCHANGED <<buf, ends, open, sent, receiving, received, completed, cut>>
      /\ done' = done /\ Len(ends') <= done /\ HandsNext(Len(ends'))
      /\ (ends # <<>> => Len(ends) # 0)
  BY DEF RxInv, BufferInv, BytesLabelled, RxTypeOK, LwsServiceReturns, done
<1>2. services \in {<<"lws">>, <<"handler", "lws">>} /\ services # <<>>
  <2>1. <<"lws">> # <<>> /\ <<"handler", "lws">> # <<>>
    OBVIOUS
  <2> QED BY <1>1, <2>1, Stacks DEF LwsServiceReturns, HandedInv
<1>3. Level \/ (AheadOnce /\ Len(services) = 2)
  <2>1. /\ <<"lws">> # <<>> /\ <<"lws">> # <<"handler">>
        /\ <<"handler", "lws">> # <<"handler">> /\ <<"handler", "lws">> # <<>>
        /\ <<"lws">> # <<"handler", "lws">> /\ <<"handler", "lws">> # <<"handler", "handler">>
        /\ <<"lws">> # <<"handler", "handler">> /\ Len(<<"handler", "lws">>) = 2
    OBVIOUS
  <2> QED BY <1>1, <1>2, <2>1 DEF HandedInv, ServicesInv
<1>4. \/ LastHanded = done - Len(ends')
      \/ /\ Len(ends') # 0 /\ LastHanded = done - Len(ends') + 1
         /\ handed[Len(handed)].depth = 1 /\ Len(services) = 2
  BY <1>1, <1>3 DEF Level, Popped, AheadOnce, Ahead
<1>5. HandedInv' /\ services' \in Seq({"lws", "handler"}) /\ handed' \in Seq(Handings)
  BY <1>1, <1>2, <1>4, HandsNextStep
<1>6. BufferStep
  <2>1. RxTypeOK'
    BY <1>1, <1>5 DEF RxTypeOK
  <2> QED BY <1>1, <2>1, KeepsBuffer DEF RxInv, Keeps
<1> QED BY <1>5, <1>6

LEMMA HandlerReturnsStep ==
    ASSUME RxInv, HandlerReturns
    PROVE  BufferStep /\ HandedInv'
<1>1. /\ Len(ends) \in Nat /\ done \in Nat /\ RxTypeOK /\ HandedInv /\ ends \in Seq(Nat)
      /\ Len(ends) <= done /\ BufferInv /\ FramesWhole
      /\ UNCHANGED <<open, sent, receiving, received, completed, cut>> /\ done' = done
      /\ HandsNext(Len(ends')) /\ Pop /\ services # <<>> /\ ~InLws
  BY DEF RxInv, BufferInv, BytesLabelled, RxTypeOK, HandlerReturns, done
<1>2. services \in {<<"handler">>, <<"handler", "handler">>}
  BY <1>1, Stacks DEF HandedInv, ServiceStacks
<1>3. (ends = <<>> /\ Level) \/ Ahead
  <2>1. /\ <<"handler">> # <<>> /\ <<"handler">> # <<"lws">> /\ <<"handler">> # <<"handler", "lws">>
        /\ <<"handler", "handler">> # <<"handler">> /\ <<"handler", "handler">> # <<>>
        /\ <<"handler", "handler">> # <<"lws">> /\ <<"handler", "handler">> # <<"handler", "lws">>
    OBVIOUS
  <2> QED BY <1>1, <1>2, <2>1 DEF HandedInv, ServicesInv, AheadOnce
<1>4. CASE ends = <<>> /\ Level
  <2>1. UNCHANGED <<buf, ends>>
    BY <1>1, <1>4 DEF Pop
  <2>2. LastHanded = done - Len(ends') /\ ends' \in Seq(Nat) /\ Len(ends') <= done
    BY <1>1, <1>4, <2>1 DEF Level, Popped
  <2>3. HandedInv' /\ services' \in Seq({"lws", "handler"}) /\ handed' \in Seq(Handings)
    BY <1>1, <2>2, HandsNextStep
  <2>4. RxTypeOK'
    BY <1>1, <2>1, <2>3 DEF RxTypeOK
  <2> QED BY <1>1, <2>1, <2>3, <2>4, KeepsBuffer DEF Keeps
<1>5. CASE Ahead
  <2>1. ends # <<>> /\ Pops /\ LastHanded = done - Len(ends) + 1 /\ Len(ends) # 0
    BY <1>1, <1>5 DEF Ahead, Pops, Popped
  <2>2. ends' \in Seq(Nat) /\ Len(ends') = Len(ends) - 1
    <3>1. BufferOK
      BY <1>1 DEF BufferInv, RxTypeOK, BufferOK
    <3>2. BufferOK'
      BY <2>1, <3>1, PopsSimulates
    <3>3. ends' = [i \in 1 .. Len(ends) - 1 |-> ends[i + 1] - ends[1]]
      BY <2>1 DEF Pops, Pop
    <3>4. ends' \in Seq(Nat)
      BY <3>2 DEF BufferOK
    <3>5. DOMAIN ends' = 1 .. Len(ends) - 1 /\ Len(ends) - 1 \in Nat
      BY <1>1, <2>1, <3>3
    <3>6. Len(ends') = Len(ends) - 1
      BY <3>4, <3>5
    <3> QED BY <3>4, <3>6
  <2>3. LastHanded = done - Len(ends') /\ Len(ends') <= done
    BY <1>1, <2>1, <2>2
  <2>4. HandedInv' /\ services' \in Seq({"lws", "handler"}) /\ handed' \in Seq(Handings)
    BY <1>1, <2>2, <2>3, HandsNextStep
  <2> QED BY <1>1, <2>1, <2>4, PopsBuffer
<1> QED BY <1>3, <1>4, <1>5

-----------------------------------------------------------------------------
(* The theorems.                                                           *)

LEMMA RxInvInit ==
    RxInit => RxInv /\ FramesNow = <<>> /\ TailNow = <<>>
<1> SUFFICES ASSUME RxInit PROVE RxInv /\ FramesNow = <<>> /\ TailNow = <<>>
  OBVIOUS
<1>1. Unmarked = 0 /\ Len(buf) = 0 /\ Len(ends) = 0 /\ Len(handed) = 0 /\ LastHanded = 0
  BY DEF RxInit, Unmarked, Start, LastHanded
<1>2. RxTypeOK /\ OffsetsInOrder
  <2>1. /\ <<>> \in Seq(Bytes) /\ <<>> \in Seq(Nat) /\ <<>> \in Seq(Handings) /\ <<>> \in Seq(Wholes)
        /\ <<>> \in Seq({"lws", "handler"})
    OBVIOUS
  <2>2. 0 \in 0 .. MaxMessages /\ 0 \in Nat /\ FALSE \in BOOLEAN /\ {} \subseteq Messages
    BY RxQueueAssumption
  <2>3. RxTypeOK
    BY <2>1, <2>2 DEF RxInit, RxTypeOK
  <2>4. \A i \in 1 .. Len(ends) : FALSE
    BY <1>1
  <2> QED BY <2>3, <2>4 DEF OffsetsInOrder
<1>3. BytesLabelled /\ FramesWhole
  <2>1. done = 0 /\ ~receiving /\ received = 0
    BY DEF RxInit, done
  <2>2. EndsWith(Unmarked, Len(buf), [of |-> sent, length |-> received])
    <3>1. Len(buf) - received = 0 /\ \A p \in (Unmarked + 1) .. Len(buf) : FALSE
      BY <1>1, <2>1
    <3> QED BY <1>1, <3>1 DEF EndsWith
  <2>3. \A i \in 1 .. Len(ends) : FALSE
    BY <1>1
  <2> QED BY <1>1, <2>1, <2>2, <2>3 DEF BytesLabelled, FramesWhole
<1>4. HandedInv
  <2>1. Level /\ services = <<>> /\ ends = <<>>
    <3>1. done = 0 /\ services = <<>> /\ ends = <<>>
      BY DEF RxInit, done
    <3>2. LastHanded = done - Len(ends)
      <4>1. done = 0 /\ Len(ends) = 0 /\ LastHanded = 0
        BY <1>1, <3>1
      <4> QED BY ONLY <4>1
    <3> QED BY <3>1, <3>2 DEF Level, Popped
  <2>2. (\A k \in 1 .. LastHanded : FALSE) /\ (\A i \in 1 .. Len(handed) - 1 : FALSE)
    BY <1>1
  <2> QED BY <2>1, <2>2 DEF HandedInv, ServicesInv, InSteps
<1>5. FramesNow = <<>> /\ TailNow = <<>>
  BY <1>1 DEF RxInit, FramesNow, TailNow
<1> QED BY <1>2, <1>3, <1>4, <1>5 DEF RxInv, BufferInv

LEMMA RxInvStep ==
    RxInv /\ [RxNext]_rxVars => BufferStep /\ HandedInv'
<1> SUFFICES ASSUME RxInv, [RxNext]_rxVars PROVE BufferStep /\ HandedInv'
  OBVIOUS
<1>1. BufferInv /\ FramesWhole /\ RxTypeOK /\ HandedInv
  BY DEF RxInv, BufferInv
<1>2. ASSUME NEW bytes \in Fragments, NEW final \in BOOLEAN, Receive(bytes, final)
      PROVE  BufferStep /\ HandedInv'
  <2>1. InLws /\ UNCHANGED <<services, handed>>
    BY <1>2 DEF Receive, Arrives
  <2> QED BY <1>1, <1>2, <2>1, ReceiveStep, InLwsHanded
<1>3. ASSUME NEW bytes \in Fragments, NEW final \in BOOLEAN, ReceiveFails(bytes, final)
      PROVE  BufferStep /\ HandedInv'
  <2>1. InLws /\ UNCHANGED <<services, handed, ends>> /\ done' = done
    BY <1>3 DEF ReceiveFails, Arrives, done
  <2> QED BY <1>1, <1>3, <2>1, ReceiveFailsStep, InLwsHanded
<1>4. ASSUME Closes
      PROVE  BufferStep /\ HandedInv'
  <2>1. InLws /\ UNCHANGED <<services, handed, ends>> /\ done' = done
    BY <1>4 DEF Closes, done
  <2> QED BY <1>1, <1>4, <2>1, ClosesStep, InLwsHanded
<1>5. CASE Connects \/ UNCHANGED rxVars
  <2>1. /\ UNCHANGED <<buf, ends, sent, receiving, received, services, completed, handed, cut>>
        /\ open' \in BOOLEAN /\ done' = done
    BY <1>1, <1>5 DEF Connects, rxVars, RxTypeOK, done
  <2>2. RxTypeOK' /\ HandedInv'
    BY <1>1, <2>1 DEF RxTypeOK, HandedInv, ServicesInv, Level, Ahead, AheadOnce, Popped,
                      LastHanded, HandedUpTo, InSteps
  <2> QED BY <1>1, <2>1, <2>2, KeepsBuffer DEF Keeps
<1> QED BY <1>2, <1>3, <1>4, <1>5, ServiceStep, LwsServiceReturnsStep, HandlerReturnsStep DEF RxNext

LEMMA RxInvAlways == RxSpec => []RxInv
<1>1. RxInv /\ [RxNext]_rxVars => RxInv'
  BY RxInvStep DEF RxInv, BufferStep
<1> QED BY <1>1, RxInvInit, PTL DEF RxSpec

(* The buffer and its offsets always cut into non-empty frames and a tail: *)
(* rxqueue.c never reads outside what was received.                        *)
THEOREM OffsetsAlwaysInOrder == RxSpec => [](RxTypeOK /\ OffsetsInOrder)
<1>1. RxInv => RxTypeOK /\ OffsetsInOrder
  BY DEF RxInv, BufferInv
<1> QED BY <1>1, RxInvAlways, PTL

(* A frame ends with all the bytes of its message in order, and only bytes *)
(* of messages cut off by the end of their connection stand before them    *)
(* (transport.c 119-128, rxqueue.c 88-123).                                *)
THEOREM FramesAlwaysWhole == RxSpec => []FramesWhole
<1>1. RxInv => FramesWhole
  BY DEF RxInv
<1> QED BY <1>1, RxInvAlways, PTL

(* on_message gets the frames in order and without gaps, also when a       *)
(* handler enters transport_service again (transport.c 271-295).           *)
THEOREM AlwaysHandedInOrder == RxSpec => []HandedInOrder
<1>1. RxInv => HandedInOrder
  <2> SUFFICES ASSUME RxInv PROVE HandedInOrder
    OBVIOUS
  <2>1. done \in Nat /\ Len(ends) \in Nat
    BY DEF RxInv, BufferInv, RxTypeOK, done
  <2>2. LastHanded = Popped \/ LastHanded = Popped + 1
    BY DEF RxInv, HandedInv, ServicesInv, Level, AheadOnce, Ahead
  <2>3. ASSUME NEW k \in 1 .. done - Len(ends)
        PROVE  \E i \in DOMAIN handed : handed[i].frame = k
    <3>1. k \in 1 .. LastHanded
      BY <2>1, <2>2 DEF Popped
    <3> QED BY <3>1 DEF RxInv, HandedInv, HandedUpTo
  <2> QED BY <2>3 DEF RxInv, HandedInv, InSteps, HandedInOrder
<1> QED BY <1>1, RxInvAlways, PTL

(* The buffer with its offsets is a queue of frames.                       *)
THEOREM RxQueueImplementsFrameQueue == RxSpec => ImplementsFrameQueue
<1>1. RxInit => Queue!Init
  BY RxInvInit DEF Queue!Init, FramesNow, TailNow
<1>2. RxInv /\ [RxNext]_rxVars => [Queue!Next]_<<FramesNow, TailNow>>
  BY RxInvStep DEF BufferStep
<1>3. RxInv /\ [RxNext]_rxVars
        => [Queue!Next]_<<[i \in 1 .. Len(ends) |-> Frame(i)], SubSeq(buf, Unmarked + 1, Len(buf))>>
  BY <1>2 DEF FramesNow, TailNow
<1> QED BY <1>1, <1>3, RxInvAlways, PTL DEF RxSpec, ImplementsFrameQueue, Queue!Spec
=============================================================================
