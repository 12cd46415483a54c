--------------------------- MODULE MailboxProofs ---------------------------
(***************************************************************************)
(* Proofs about Mailbox, for any caps, chats and frames: the three caps    *)
(* hold, no frame that was dispatched is lost, although drain_mailbox      *)
(* removes frames under a running index while its handlers may have        *)
(* bot_defer add others, and the array implements a queue per chat.        *)
(***************************************************************************)
EXTENDS Mailbox, NumberLemmas

Held(frame) == \E n \in DOMAIN pending : pending[n] = frame

Accounted(frame) ==
    frame \in dropped \/ frame \in starved \/ Held(frame) \/ frame \in handled

FramesBounded == IsFiniteSet(frames) /\ Cardinality(frames) <= MaxFrames

HeldTyped == pending \in Seq(Frames) /\ handled \subseteq Frames
             /\ dropped \subseteq Frames /\ starved \subseteq Frames

(* The frames seen so far are finitely many, so each gets a number; the    *)
(* index of drain_mailbox never runs past the array.                       *)
MailboxInv == MailboxTypeOK /\ FramesBounded /\ CapsHold /\ NothingLost

-----------------------------------------------------------------------------
LEMMA Sizes ==
    /\ MaxPerChat \in Nat /\ MaxPerChat >= 1 /\ MaxChats \in Nat /\ MaxChats >= 1
    /\ MaxTotal \in Nat /\ MaxTotal >= 1
    /\ MaxFrames \in Nat /\ IsFiniteSet(Chats)
  BY CapsAssumption, BoundsAssumption, ChatsAssumption

(* pending_remove: the elements behind the removed one move one down.      *)
LEMMA RemoveAtMoves ==
    ASSUME NEW S, NEW s \in Seq(S), NEW k \in 1 .. Len(s)
    PROVE  /\ RemoveAt(s, k) \in Seq(S) /\ Len(RemoveAt(s, k)) = Len(s) - 1
           /\ \A n \in 1 .. Len(s) - 1 : RemoveAt(s, k)[n] = s[IF n < k THEN n ELSE n + 1]
<1> DEFINE a == SubSeq(s, 1, k - 1)
           b == SubSeq(s, k + 1, Len(s))
<1>1. Len(s) \in Nat /\ k \in Nat /\ 1 <= k /\ k <= Len(s)
  OBVIOUS
<1>2. a \in Seq(S) /\ b \in Seq(S) /\ Len(a) = k - 1 /\ Len(b) = Len(s) - k
  OBVIOUS
<1>3. /\ \A n \in 1 .. k - 1 : a[n] = s[n]
      /\ \A n \in 1 .. Len(s) - k : b[n] = s[n + k]
  <2>1. \A n \in 1 .. k - 1 : a[n] = s[n]
    BY <1>1
  <2>2. ASSUME NEW n \in 1 .. Len(s) - k
        PROVE  b[n] = s[n + k]
    <3>1. b[n] = s[(k + 1) + n - 1]
      BY <1>1
    <3>2. (k + 1) + n - 1 = n + k
      BY <1>1
    <3> QED BY <3>1, <3>2
  <2> QED BY <2>1, <2>2
<1>4. RemoveAt(s, k) = a \o b
  BY DEF RemoveAt
<1> HIDE DEF a, b
<1>5. a \o b \in Seq(S) /\ Len(a \o b) = Len(s) - 1
  <2>1. a \o b \in Seq(S) /\ Len(a \o b) = Len(a) + Len(b)
    BY <1>2
  <2> QED BY <1>1, <1>2, <2>1
<1>6. ASSUME NEW n \in 1 .. Len(s) - 1
      PROVE  (a \o b)[n] = s[IF n < k THEN n ELSE n + 1]
  <2>1. CASE n < k
    <3>1. n \in 1 .. k - 1
      BY <1>1, <2>1
    <3>2. (a \o b)[n] = a[n]
      BY <1>2, <3>1
    <3> QED BY <1>3, <2>1, <3>1, <3>2
  <2>2. CASE ~(n < k)
    <3>1. n - (k - 1) \in 1 .. Len(s) - k /\ (n - (k - 1)) + k = n + 1
      BY <1>1, <2>2
    <3>2. (a \o b)[n] = b[n - (k - 1)]
      BY <1>1, <1>2, <2>2
    <3>3. b[n - (k - 1)] = s[(n - (k - 1)) + k]
      BY <1>3, <3>1
    <3> QED BY <2>2, <3>1, <3>2, <3>3
  <2> QED BY <2>1, <2>2
<1> QED BY <1>4, <1>5, <1>6

LEMMA Finite ==
    ASSUME HeldTyped
    PROVE  /\ PendingChats \subseteq Chats /\ IsFiniteSet(PendingChats)
           /\ \A chat \in Chats : IsFiniteSet(PendingForChat(chat))
<1>1. \A n \in DOMAIN pending : pending[n].chat \in Chats
  <2>1. \A n \in DOMAIN pending : pending[n] \in Frames
    BY DEF HeldTyped
  <2> QED BY <2>1 DEF Frames
<1>2. PendingChats \subseteq Chats
  BY <1>1 DEF PendingChats
<1>3. IsFiniteSet(DOMAIN pending)
  <2>1. DOMAIN pending = 1 .. Len(pending) /\ Len(pending) \in Nat
    BY DEF HeldTyped
  <2> QED BY <2>1, FS_Interval
<1>4. ASSUME NEW chat \in Chats
      PROVE  IsFiniteSet(PendingForChat(chat))
  <2>1. PendingForChat(chat) \in SUBSET (DOMAIN pending)
    BY DEF PendingForChat
  <2> QED BY <1>3, <2>1, FS_Subset
<1> QED BY <1>2, <1>4, Sizes, FS_Subset

-----------------------------------------------------------------------------
(* bot_defer: a frame that has room leaves the caps as they should be.     *)
LEMMA AppendKeepsCaps ==
    ASSUME HeldTyped, CapsHold, NEW frame \in Frames, HasRoom(frame.chat),
           pending' = Append(pending, frame)
    PROVE  CapsHold'
<1> DEFINE c == frame.chat
<1>1. /\ Len(pending') = Len(pending) + 1 /\ DOMAIN pending' = DOMAIN pending \cup {Len(pending) + 1}
      /\ DOMAIN pending = 1 .. Len(pending) /\ Len(pending) \in Nat
      /\ \A n \in DOMAIN pending : pending'[n] = pending[n]
      /\ pending'[Len(pending) + 1] = frame
  BY DEF HeldTyped
<1>2. Len(pending') <= MaxTotal
  BY <1>1, Sizes DEF HasRoom
<1>3. PendingChats' = PendingChats \cup {c}
  BY <1>1 DEF PendingChats
<1>4. IsFiniteSet(PendingChats) /\ Cardinality(PendingChats) \in Nat
  BY Finite, FS_CardinalityType
<1>5. Cardinality(PendingChats') <= MaxChats
  <2>1. Cardinality(PendingChats \cup {c})
          = IF c \in PendingChats THEN Cardinality(PendingChats) ELSE Cardinality(PendingChats) + 1
    BY <1>4, FS_AddElement
  <2> QED BY <1>3, <1>4, <2>1, Sizes DEF HasRoom, CapsHold
<1>6. ASSUME NEW chat \in Chats
      PROVE  Cardinality(PendingForChat(chat)') <= MaxPerChat
  <2>1. CASE chat # c
    <3>1. PendingForChat(chat)' = PendingForChat(chat)
      BY <1>1, <2>1 DEF PendingForChat
    <3> QED BY <3>1 DEF CapsHold
  <2>2. CASE chat = c
    <3>1. PendingForChat(chat)' = PendingForChat(chat) \cup {Len(pending) + 1}
      BY <1>1, <2>2 DEF PendingForChat
    <3>2. IsFiniteSet(PendingForChat(chat)) /\ Cardinality(PendingForChat(chat)) \in Nat
      BY Finite, FS_CardinalityType
    <3>3. \/ Cardinality(PendingForChat(chat) \cup {Len(pending) + 1}) = Cardinality(PendingForChat(chat))
          \/ Cardinality(PendingForChat(chat) \cup {Len(pending) + 1}) = Cardinality(PendingForChat(chat)) + 1
      BY <3>2, FS_AddElement
    <3>4. Cardinality(PendingForChat(chat)) < MaxPerChat
      BY <2>2 DEF HasRoom
    <3> QED BY <3>1, <3>2, <3>3, <3>4, Sizes
  <2> QED BY <2>1, <2>2
<1> QED BY <1>2, <1>5, <1>6 DEF CapsHold

(* pending_remove leaves no more than there was, of any chat.              *)
LEMMA RemoveKeepsCaps ==
    ASSUME HeldTyped, CapsHold, NEW k \in 1 .. Len(pending), pending' = RemoveAt(pending, k)
    PROVE  CapsHold'
<1> DEFINE from(n) == IF n < k THEN n ELSE n + 1
<1>1. /\ pending' \in Seq(Frames) /\ Len(pending') = Len(pending) - 1 /\ Len(pending) \in Nat
      /\ DOMAIN pending' = 1 .. Len(pending) - 1 /\ DOMAIN pending = 1 .. Len(pending)
      /\ \A n \in DOMAIN pending' : pending'[n] = pending[from(n)] /\ from(n) \in DOMAIN pending
  <2>1. pending \in Seq(Frames)
    BY DEF HeldTyped
  <2>2. /\ pending' \in Seq(Frames) /\ Len(pending') = Len(pending) - 1
        /\ \A n \in 1 .. Len(pending) - 1 : pending'[n] = pending[IF n < k THEN n ELSE n + 1]
    BY <2>1, RemoveAtMoves
  <2>3. /\ Len(pending) \in Nat /\ DOMAIN pending = 1 .. Len(pending)
        /\ DOMAIN pending' = 1 .. Len(pending) - 1
    BY <2>1, <2>2
  <2> QED BY <2>2, <2>3
<1>2. \A m, n \in DOMAIN pending' : from(m) = from(n) => m = n
  BY <1>1
<1> HIDE DEF from
<1>3. Len(pending') <= MaxTotal
  BY <1>1, Sizes DEF CapsHold
<1>4. Cardinality(PendingChats') <= MaxChats
  <2>1. PendingChats' \in SUBSET PendingChats
    BY <1>1 DEF PendingChats
  <2>2. IsFiniteSet(PendingChats) /\ Cardinality(PendingChats) \in Nat
    BY Finite, FS_CardinalityType
  <2>3. IsFiniteSet(PendingChats') /\ Cardinality(PendingChats') <= Cardinality(PendingChats)
    BY <2>1, <2>2, FS_Subset
  <2>4. Cardinality(PendingChats') \in Nat
    BY <2>3, FS_CardinalityType
  <2> QED BY <2>2, <2>3, <2>4, Sizes DEF CapsHold
<1>5. ASSUME NEW chat \in Chats
      PROVE  Cardinality(PendingForChat(chat)') <= MaxPerChat
  <2> DEFINE old == PendingForChat(chat)
             new == PendingForChat(chat)'
             f == [n \in new |-> from(n)]
  <2>1. f \in Injection(new, old)
    BY <1>1, <1>2 DEF PendingForChat, Injection, IsInjective
  <2>2. IsFiniteSet(old) /\ Cardinality(old) \in Nat /\ Cardinality(old) <= MaxPerChat
    BY Finite, FS_CardinalityType DEF CapsHold
  <2> HIDE DEF old, new, f
  <2>3. IsFiniteSet(new) /\ Cardinality(new) <= Cardinality(old)
    BY <2>1, <2>2, FS_Injection, Zenon
  <2>4. Cardinality(new) \in Nat
    BY <2>3, FS_CardinalityType
  <2>5. Cardinality(new) <= MaxPerChat
    BY <2>2, <2>3, <2>4, Sizes
  <2> QED BY <2>5 DEF new
<1> QED BY <1>3, <1>4, <1>5 DEF CapsHold

-----------------------------------------------------------------------------
(* parser_dispatch: a frame is held, turned away, starved or handled.      *)
LEMMA DispatchKeeps ==
    ASSUME HeldTyped, CapsHold, NEW frame \in Frames, Dispatch(frame)
    PROVE  /\ HeldTyped' /\ CapsHold'
           /\ Accounted(frame)' /\ \A other : Accounted(other) => Accounted(other)'
<1>1. CASE /\ handled' = handled /\ starved' = starved
           /\ HasRoom(frame.chat) /\ pending' = Append(pending, frame) /\ dropped' = dropped
  <2>1. CapsHold'
    BY <1>1, AppendKeepsCaps
  <2>2. HeldTyped'
    BY <1>1 DEF HeldTyped
  <2>3. /\ Len(pending) + 1 \in DOMAIN pending' /\ pending'[Len(pending) + 1] = frame
        /\ \A n \in DOMAIN pending : n \in DOMAIN pending' /\ pending'[n] = pending[n]
    BY <1>1 DEF HeldTyped
  <2> QED BY <1>1, <2>1, <2>2, <2>3 DEF Accounted, Held
<1>2. CASE /\ pending' = pending
           /\ handled \subseteq handled' /\ dropped \subseteq dropped' /\ starved \subseteq starved'
           /\ handled' \subseteq Frames /\ dropped' \subseteq Frames /\ starved' \subseteq Frames
           /\ frame \in handled' \/ frame \in dropped' \/ frame \in starved' \/ Held(frame)
  <2>1. CapsHold' /\ HeldTyped'
    BY <1>2 DEF CapsHold, HeldTyped, PendingForChat, PendingChats
  <2> QED BY <1>2, <2>1 DEF Accounted, Held
<1>3. CASE NeedsKey(frame) /\ Defer(frame) /\ UNCHANGED handled
  BY <1>1, <1>2, <1>3 DEF Defer, PendingContains, Held, HeldTyped
<1>4. CASE ~NeedsKey(frame) /\ Handle(frame) /\ UNCHANGED pending
  BY <1>2, <1>4 DEF Handle, HeldTyped
<1> QED BY <1>3, <1>4 DEF Dispatch

(* Frames and keys may change when what is held does not.                  *)
LEMMA HeldKept ==
    ASSUME HeldTyped, CapsHold, UNCHANGED <<pending, handled, dropped, starved>>
    PROVE  /\ HeldTyped' /\ CapsHold'
           /\ \A other : Accounted(other) => Accounted(other)'
  BY DEF HeldTyped, CapsHold, PendingForChat, PendingChats, Accounted, Held

-----------------------------------------------------------------------------
LEMMA MailboxParts ==
    MailboxInv =>
           /\ HeldTyped /\ CapsHold /\ FramesBounded
           /\ frames \subseteq Frames /\ \A frame \in frames : Accounted(frame)
  BY DEF MailboxInv, MailboxTypeOK, HeldTyped, NothingLost, Accounted, Held

LEMMA Assembled ==
    ASSUME HeldTyped', CapsHold', FramesBounded',
           keys' \in [Chats -> BOOLEAN], disturbed' \in BOOLEAN,
           pc' \in {"service", "drain", "handler"}, index' \in 1 .. MaxTotal + 1,
           frames' \subseteq Frames, \A frame \in frames' : Accounted(frame)'
    PROVE  MailboxInv'
  BY DEF MailboxInv, MailboxTypeOK, HeldTyped, NothingLost, Accounted, Held

(* A frame from the network has a number of its own.                       *)
LEMMA ArriveDispatches ==
    ASSUME MailboxInv, NEW chat \in Chats, NEW sealed \in Sealed, Arrive(chat, sealed)
    PROVE  /\ IsFiniteSet(frames) /\ Cardinality(frames) \in Nat
           /\ Cardinality(frames) + 1 <= MaxFrames
           /\ \E frame \in Frames : frames' = frames \cup {frame} /\ Dispatch(frame)
<1>1. IsFiniteSet(frames) /\ Cardinality(frames) \in Nat /\ Cardinality(frames) + 1 <= MaxFrames
  <2>1. IsFiniteSet(frames) /\ Cardinality(frames) \in Nat
    BY FS_CardinalityType DEF MailboxInv, FramesBounded
  <2> QED BY <2>1, Sizes DEF Arrive
<1>2. \E frame \in Frames : frames' = frames \cup {frame} /\ Dispatch(frame)
  <2>1. Cardinality(frames) + 1 \in 1 .. MaxFrames
    BY <1>1, Sizes
  <2>2. [number |-> Cardinality(frames) + 1, chat |-> chat, sealed |-> sealed] \in Frames
    BY <2>1 DEF Frames
  <2> QED BY <2>2 DEF Arrive
<1> QED BY <1>1, <1>2

LEMMA ArriveStep ==
    ASSUME MailboxInv, NEW chat \in Chats, NEW sealed \in Sealed, Arrive(chat, sealed)
    PROVE  MailboxInv'
<1>1. UNCHANGED <<keys, pc, index>> /\ disturbed' \in BOOLEAN
  BY DEF Arrive, Pumping, MailboxInv, MailboxTypeOK
<1>2. IsFiniteSet(frames) /\ Cardinality(frames) \in Nat /\ Cardinality(frames) + 1 <= MaxFrames
  BY ArriveDispatches
<1>3. PICK frame \in Frames : frames' = frames \cup {frame} /\ Dispatch(frame)
  BY ArriveDispatches
<1>4. FramesBounded'
  <2>1. /\ IsFiniteSet(frames \cup {frame})
        /\ \/ Cardinality(frames \cup {frame}) = Cardinality(frames)
           \/ Cardinality(frames \cup {frame}) = Cardinality(frames) + 1
    BY <1>2, FS_AddElement
  <2> QED BY <1>2, <1>3, <2>1, Sizes DEF FramesBounded
<1>5. /\ HeldTyped' /\ CapsHold'
      /\ Accounted(frame)' /\ \A other : Accounted(other) => Accounted(other)'
  BY <1>3, MailboxParts, DispatchKeeps
<1>6. frames' \subseteq Frames /\ \A g \in frames' : Accounted(g)'
  BY <1>3, <1>5, MailboxParts
<1> QED BY <1>1, <1>4, <1>5, <1>6, Assembled DEF MailboxInv, MailboxTypeOK

LEMMA ArriveAgainStep ==
    ASSUME MailboxInv, ArriveAgain
    PROVE  MailboxInv'
<1>1. PICK frame \in frames : Dispatch(frame)
  BY DEF ArriveAgain
<1>2. UNCHANGED <<keys, pc, index, frames>> /\ disturbed' \in BOOLEAN
  BY DEF ArriveAgain, Pumping, MailboxInv, MailboxTypeOK
<1>3. /\ HeldTyped' /\ CapsHold'
      /\ \A other : Accounted(other) => Accounted(other)'
  BY <1>1, MailboxParts, DispatchKeeps
<1>4. frames' \subseteq Frames /\ \A g \in frames' : Accounted(g)'
  BY <1>2, <1>3, MailboxParts
<1> QED BY <1>2, <1>3, <1>4, Assembled DEF MailboxInv, MailboxTypeOK, FramesBounded

LEMMA KeyStep ==
    ASSUME MailboxInv, NEW chat \in Chats, KeyArrives(chat) \/ ForgetChat(chat)
    PROVE  MailboxInv'
<1>1. UNCHANGED <<pending, pc, index, frames, handled, dropped, starved>> /\ disturbed' \in BOOLEAN
  BY DEF KeyArrives, ForgetChat, Pumping, MailboxInv, MailboxTypeOK
<1>2. keys' \in [Chats -> BOOLEAN]
  BY DEF KeyArrives, ForgetChat, MailboxInv, MailboxTypeOK
<1>3. /\ HeldTyped' /\ CapsHold'
      /\ \A other : Accounted(other) => Accounted(other)'
  BY <1>1, MailboxParts, HeldKept
<1> QED BY <1>1, <1>2, <1>3, MailboxParts, Assembled DEF MailboxInv, MailboxTypeOK, FramesBounded

LEMMA DeliverStep ==
    ASSUME MailboxInv, DrainDeliver
    PROVE  MailboxInv'
<1>1. /\ pc' = "handler" /\ UNCHANGED <<keys, index, frames, disturbed>>
      /\ index <= Len(pending) /\ pending' = RemoveAt(pending, index) /\ Handle(pending[index])
  BY DEF DrainDeliver, Removed
<1>2. index \in 1 .. Len(pending) /\ pending \in Seq(Frames) /\ Len(pending) \in Nat
  BY <1>1, Sizes DEF MailboxInv, MailboxTypeOK
<1>3. pending[index] \in Frames
  BY <1>2
<1>4. CapsHold'
  BY <1>1, <1>2, MailboxParts, RemoveKeepsCaps
<1>5. /\ handled' \subseteq Frames /\ handled \subseteq handled' /\ pending[index] \in handled'
      /\ dropped' = dropped /\ starved' = starved
  BY <1>1, <1>3, MailboxParts DEF Handle, HeldTyped
<1>6. /\ pending' \in Seq(Frames) /\ DOMAIN pending' = 1 .. Len(pending) - 1
      /\ \A n \in 1 .. Len(pending) - 1 : pending'[n] = pending[IF n < index THEN n ELSE n + 1]
  <2>1. /\ pending' \in Seq(Frames) /\ Len(pending') = Len(pending) - 1
        /\ \A n \in 1 .. Len(pending) - 1 : pending'[n] = pending[IF n < index THEN n ELSE n + 1]
    BY <1>1, <1>2, RemoveAtMoves
  <2> QED BY <2>1
<1>7. HeldTyped'
  BY <1>5, <1>6, MailboxParts DEF HeldTyped
<1>8. ASSUME NEW other, Accounted(other)
      PROVE  Accounted(other)'
  <2>1. CASE other \in dropped \/ other \in starved \/ other \in handled
    BY <1>5, <2>1 DEF Accounted
  <2>2. CASE Held(other)
    <3>1. PICK n \in 1 .. Len(pending) : pending[n] = other
      BY <1>2, <2>2 DEF Held
    <3>2. CASE n = index
      BY <1>5, <3>1, <3>2 DEF Accounted
    <3>3. CASE n < index
      <4>1. n \in DOMAIN pending' /\ pending'[n] = other
        BY <1>2, <1>6, <3>1, <3>3
      <4> QED BY <4>1 DEF Accounted, Held
    <3>4. CASE n > index
      <4>1. n - 1 \in 1 .. Len(pending) - 1 /\ ~(n - 1 < index) /\ (n - 1) + 1 = n
        BY <1>2, <3>1, <3>4
      <4>2. n - 1 \in DOMAIN pending' /\ pending'[n - 1] = other
        BY <1>6, <3>1, <4>1
      <4> QED BY <4>2 DEF Accounted, Held
    <3> QED BY <1>2, <3>1, <3>2, <3>3, <3>4
  <2> QED BY <1>8, <2>1, <2>2 DEF Accounted
<1>9. frames' \subseteq Frames /\ \A g \in frames' : Accounted(g)'
  BY <1>1, <1>8, MailboxParts
<1> QED BY <1>1, <1>4, <1>5, <1>7, <1>9, Assembled DEF MailboxInv, MailboxTypeOK, FramesBounded

(* The steps of the drain loop that leave the array alone.                 *)
LEMMA DrainStep ==
    ASSUME MailboxInv, DrainStart \/ DrainSkip \/ HandlerDone \/ DrainEnd
    PROVE  MailboxInv'
<1>1. UNCHANGED <<keys, pending, frames, handled, dropped, starved>> /\ disturbed' \in BOOLEAN
  BY DEF DrainStart, DrainSkip, HandlerDone, DrainEnd, MailboxInv, MailboxTypeOK
<1>2. pc' \in {"service", "drain", "handler"}
  BY DEF DrainStart, DrainSkip, HandlerDone, DrainEnd, MailboxInv, MailboxTypeOK
<1>3. index' \in 1 .. MaxTotal + 1
  <2>1. index \in 1 .. MaxTotal + 1 /\ Len(pending) \in Nat /\ Len(pending) <= MaxTotal
    BY DEF MailboxInv, MailboxTypeOK, CapsHold
  <2>2. index' = 1 \/ index' = index \/ (index <= Len(pending) /\ index' = index + 1)
    BY DEF DrainStart, DrainSkip, HandlerDone, DrainEnd
  <2> QED BY <2>1, <2>2, Sizes
<1>4. /\ HeldTyped' /\ CapsHold'
      /\ \A other : Accounted(other) => Accounted(other)'
  BY <1>1, MailboxParts, HeldKept
<1> QED BY <1>1, <1>2, <1>3, <1>4, MailboxParts, Assembled DEF MailboxInv, MailboxTypeOK, FramesBounded

-----------------------------------------------------------------------------
LEMMA InitHolds == MailboxInit => MailboxInv
<1> SUFFICES ASSUME MailboxInit PROVE MailboxInv
  OBVIOUS
<1>1. pending = <<>> /\ frames = {} /\ handled = {} /\ dropped = {} /\ starved = {}
  BY DEF MailboxInit
<1>2. MailboxTypeOK
  <2>1. pending \in Seq(Frames) /\ index \in 1 .. MaxTotal + 1
    BY <1>1, Sizes DEF MailboxInit
  <2>2. keys \in [Chats -> BOOLEAN]
    BY DEF MailboxInit
  <2> QED BY <1>1, <2>1, <2>2 DEF MailboxInit, MailboxTypeOK
<1>3. FramesBounded
  BY <1>1, Sizes, FS_EmptySet DEF FramesBounded
<1>4. CapsHold
  <2>1. PendingChats = {} /\ \A chat \in Chats : PendingForChat(chat) = {}
    BY <1>1 DEF PendingChats, PendingForChat
  <2>2. Len(pending) = 0 /\ Cardinality({}) = 0
    BY <1>1, FS_EmptySet
  <2>3. Cardinality(PendingChats) = 0
        /\ \A chat \in Chats : Cardinality(PendingForChat(chat)) = 0
    BY <2>1, <2>2, Zenon
  <2> QED BY <2>2, <2>3, Sizes DEF CapsHold
<1> QED BY <1>1, <1>2, <1>3, <1>4 DEF MailboxInv, NothingLost

LEMMA EveryStepKeeps == MailboxInv /\ [MailboxNext]_mailboxVars => MailboxInv'
<1> SUFFICES ASSUME MailboxInv, [MailboxNext]_mailboxVars PROVE MailboxInv'
  OBVIOUS
<1>1. CASE UNCHANGED mailboxVars
  <2>1. /\ HeldTyped' /\ CapsHold'
        /\ \A other : Accounted(other) => Accounted(other)'
    BY <1>1, MailboxParts, HeldKept DEF mailboxVars
  <2> QED BY <1>1, <2>1, MailboxParts, Assembled DEF MailboxInv, MailboxTypeOK, FramesBounded, mailboxVars
<1> QED BY <1>1, ArriveStep, ArriveAgainStep, KeyStep, DeliverStep, DrainStep DEF MailboxNext, Poll

LEMMA InvAlways == MailboxSpec => []MailboxInv
  BY InitHolds, EveryStepKeeps, PTL DEF MailboxSpec

(* The mailbox has its type; in particular drain_mailbox's index stays     *)
(* within one past the cap (bot.c).                                        *)
THEOREM MailboxAlwaysTyped == MailboxSpec => []MailboxTypeOK
<1>1. MailboxInv => MailboxTypeOK
  BY DEF MailboxInv
<1> QED BY <1>1, InvAlways, PTL

(* bot_defer's three caps hold at every moment, however deferrals, nested  *)
(* calls and deliveries alternate.                                         *)
THEOREM CapsAlwaysHold == MailboxSpec => []CapsHold
<1>1. MailboxInv => CapsHold
  BY DEF MailboxInv
<1> QED BY <1>1, InvAlways, PTL

(* A frame that was dispatched was handled, is held, or was turned away at *)
(* a cap or for want of memory (bot_defer, drain_mailbox, pending_remove). *)
THEOREM NothingEverLost == MailboxSpec => []NothingLost
<1>1. MailboxInv => NothingLost
  BY DEF MailboxInv
<1> QED BY <1>1, InvAlways, PTL

-----------------------------------------------------------------------------
(* The refinement.  A chat's frames, taken from the array in order, are    *)
(* its queue: what an append and a removal do to the places of the frames  *)
(* gives what they do to the queues.                                       *)

Places(chat) == InOrder(PendingForChat(chat))

LEMMA QueueFacts ==
    ASSUME HeldTyped, NEW chat \in Chats
    PROVE  /\ Cardinality(PendingForChat(chat)) \in Nat
           /\ Enumerates(Places(chat), Cardinality(PendingForChat(chat)), PendingForChat(chat))
           /\ QueueOf(chat) = [k \in 1 .. Cardinality(PendingForChat(chat)) |-> pending[Places(chat)[k]]]
           /\ QueueOf(chat) \in Seq(Frames)
           /\ Len(QueueOf(chat)) = Cardinality(PendingForChat(chat))
<1> DEFINE S == PendingForChat(chat)
           c == Cardinality(S)
<1>1. /\ pending \in Seq(Frames) /\ Len(pending) \in Nat
      /\ S \in SUBSET (1 .. Len(pending)) /\ \A n \in S : pending[n] \in Frames
  BY DEF HeldTyped, PendingForChat
<1>2. Places(chat) = InOrder(S)
  BY DEF Places
<1> HIDE DEF S
<1>3. c \in Nat /\ Enumerates(Places(chat), c, S)
  BY <1>1, <1>2, InOrderEnumerates
<1>4. Places(chat) \in [1 .. c -> S]
  BY <1>3 DEF Enumerates
<1>5. QueueOf(chat) = [k \in 1 .. c |-> pending[Places(chat)[k]]]
  BY DEF QueueOf, Places, InOrder, S
<1>6. QueueOf(chat) \in Seq(Frames) /\ Len(QueueOf(chat)) = c
  <2>1. \A k \in 1 .. c : pending[Places(chat)[k]] \in Frames
    BY <1>1, <1>4
  <2> QED BY <1>3, <1>5, <2>1
<1> QED BY <1>3, <1>5, <1>6 DEF S

LEMMA NextQueue ==
    ASSUME pending' \in Seq(Frames), NEW chat \in Chats, NEW n \in Nat, NEW q,
           Enumerates(q, n, PendingForChat(chat)')
    PROVE  QueueOf(chat)' = [k \in 1 .. n |-> pending'[q[k]]]
<1> DEFINE S == PendingForChat(chat)'
<1>1. Len(pending') \in Nat /\ S \in SUBSET (1 .. Len(pending'))
  BY DEF PendingForChat
<1>2. QueueOf(chat)' = [k \in 1 .. Cardinality(S) |-> pending'[InOrder(S)[k]]]
  BY DEF QueueOf, InOrder
<1> HIDE DEF S
<1>3. n = Cardinality(S) /\ q = InOrder(S)
  BY <1>1, InOrderIs DEF S
<1> QED BY <1>2, <1>3

(* bot_defer: the frame goes to the end of its chat's queue.               *)
LEMMA AppendQueues ==
    ASSUME HeldTyped, NEW frame \in Frames, pending' = Append(pending, frame), NEW chat \in Chats
    PROVE  QueueOf(chat)' = IF chat = frame.chat THEN Append(QueueOf(chat), frame) ELSE QueueOf(chat)
<1> DEFINE S == PendingForChat(chat)
           c == Cardinality(S)
           q == Places(chat)
           last == Len(pending) + 1
<1>1. /\ DOMAIN pending' = DOMAIN pending \cup {last} /\ pending' \in Seq(Frames)
      /\ DOMAIN pending = 1 .. Len(pending) /\ Len(pending) \in Nat
      /\ \A n \in DOMAIN pending : pending'[n] = pending[n]
      /\ pending'[last] = frame
  BY DEF HeldTyped
<1>2. /\ c \in Nat /\ Enumerates(q, c, S) /\ QueueOf(chat) = [k \in 1 .. c |-> pending[q[k]]]
      /\ QueueOf(chat) \in Seq(Frames) /\ Len(QueueOf(chat)) = c
  BY QueueFacts
<1>3. /\ q \in [1 .. c -> S] /\ S \in SUBSET (1 .. Len(pending))
      /\ \A k, l \in 1 .. c : k < l => q[k] < q[l]
      /\ \A x \in S : \E k \in 1 .. c : q[k] = x
  BY <1>1, <1>2 DEF Enumerates, PendingForChat
<1>4. PendingForChat(chat)' = IF chat = frame.chat THEN S \cup {last} ELSE S
  BY <1>1 DEF PendingForChat
<1> HIDE DEF S, q, last
<1>5. \A k \in 1 .. c : q[k] \in 1 .. Len(pending) /\ pending'[q[k]] = pending[q[k]]
  BY <1>1, <1>3
<1>6. CASE chat # frame.chat
  <2>1. c \in Nat /\ Enumerates(q, c, PendingForChat(chat)')
    BY <1>2, <1>4, <1>6
  <2> HIDE DEF c
  <2>2. QueueOf(chat)' = [k \in 1 .. c |-> pending'[q[k]]]
    BY <1>1, <2>1, NextQueue
  <2> QED BY <1>2, <1>5, <1>6, <2>2
<1>7. CASE chat = frame.chat
  <2> DEFINE r == [k \in 1 .. c + 1 |-> IF k = c + 1 THEN last ELSE q[k]]
  <2>1. /\ \A k \in 1 .. c + 1 : k # c + 1 => k \in 1 .. c
        /\ \A k \in 1 .. c : k \in 1 .. c + 1 /\ k # c + 1
        /\ c + 1 \in 1 .. c + 1 /\ c + 1 \in Nat
    BY <1>2
  <2>2. r \in [1 .. c + 1 -> S \cup {last}] /\ r[c + 1] = last /\ \A k \in 1 .. c : r[k] = q[k]
    BY <1>3, <2>1
  <2> HIDE DEF r
  <2>3. ASSUME NEW k \in 1 .. c + 1, NEW l \in 1 .. c + 1, k < l
        PROVE  r[k] < r[l]
    <3>1. k \in 1 .. c
      BY <1>2, <2>3
    <3>2. CASE l = c + 1
      <4>1. q[k] \in Nat /\ q[k] < last
        BY <1>1, <1>5, <3>1 DEF last
      <4> QED BY <2>2, <3>1, <3>2, <4>1
    <3>3. CASE l # c + 1
      BY <1>3, <2>1, <2>2, <2>3, <3>1, <3>3
    <3> QED BY <3>2, <3>3
  <2>4. ASSUME NEW x \in S \cup {last}
        PROVE  \E k \in 1 .. c + 1 : r[k] = x
    <3>1. CASE x = last
      BY <2>1, <2>2, <3>1
    <3>2. CASE x \in S
      <4>1. PICK k \in 1 .. c : q[k] = x
        BY <1>3, <3>2
      <4> QED BY <2>1, <2>2, <4>1
    <3> QED BY <3>1, <3>2
  <2>5. Enumerates(r, c + 1, S \cup {last})
    BY <2>2, <2>3, <2>4 DEF Enumerates
  <2>6. QueueOf(chat)' = [k \in 1 .. c + 1 |-> pending'[r[k]]]
    <3>1. Enumerates(r, c + 1, PendingForChat(chat)')
      BY <1>4, <1>7, <2>5
    <3> DEFINE d == c + 1
    <3>2. d \in Nat /\ Enumerates(r, d, PendingForChat(chat)')
      BY <2>1, <3>1
    <3> HIDE DEF d
    <3>3. QueueOf(chat)' = [k \in 1 .. d |-> pending'[r[k]]]
      BY <1>1, <3>2, NextQueue
    <3> QED BY <3>3 DEF d
  <2>7. ASSUME NEW k \in 1 .. c + 1
        PROVE  pending'[r[k]] = Append(QueueOf(chat), frame)[k]
    <3>1. CASE k = c + 1
      BY <1>1, <1>2, <2>2, <3>1
    <3>2. CASE k # c + 1
      <4>1. k \in 1 .. c /\ pending'[r[k]] = pending[q[k]]
        BY <1>5, <2>1, <2>2, <3>2
      <4>2. QueueOf(chat)[k] = pending[q[k]]
        BY <1>2, <4>1
      <4>3. Append(QueueOf(chat), frame)[k] = QueueOf(chat)[k]
        BY <1>2, <4>1
      <4> QED BY <4>1, <4>2, <4>3
    <3> QED BY <3>1, <3>2
  <2> DEFINE t == Append(QueueOf(chat), frame)
  <2>8. t \in Seq(Frames) /\ Len(t) = c + 1
    BY <1>2
  <2>9. \A k \in 1 .. c + 1 : pending'[r[k]] = t[k]
    BY <2>7
  <2> HIDE DEF t
  <2>10. t = [k \in 1 .. c + 1 |-> t[k]]
    BY <2>8
  <2>11. QueueOf(chat)' = t
    BY <2>6, <2>9, <2>10
  <2> QED BY <1>7, <2>11 DEF t
<1> QED BY <1>6, <1>7

(* pending_remove takes a frame from its chat's queue, from the head when  *)
(* none of that chat stands before it; those of other chats only move.     *)
LEMMA RemoveQueues ==
    ASSUME HeldTyped, NEW at \in 1 .. Len(pending), pending' = RemoveAt(pending, at),
           NEW chat \in Chats
    PROVE  IF chat = pending[at].chat
           THEN \E k \in DOMAIN QueueOf(chat) :
                   /\ (\A n \in 1 .. at - 1 : pending[n].chat # pending[at].chat) => k = 1
                   /\ QueueOf(chat)' = RemoveAt(QueueOf(chat), k)
           ELSE QueueOf(chat)' = QueueOf(chat)
<1> DEFINE S == PendingForChat(chat)
           c == Cardinality(S)
           q == Places(chat)
           from(n) == IF n < at THEN n ELSE n + 1
           to(n) == IF n < at THEN n ELSE n - 1
<1>1. /\ pending' \in Seq(Frames) /\ Len(pending) \in Nat /\ at \in Nat /\ 1 <= at
      /\ DOMAIN pending' = 1 .. Len(pending) - 1 /\ DOMAIN pending = 1 .. Len(pending)
      /\ \A n \in 1 .. Len(pending) - 1 : pending'[n] = pending[from(n)]
  <2>1. pending \in Seq(Frames)
    BY DEF HeldTyped
  <2>2. /\ pending' \in Seq(Frames) /\ Len(pending') = Len(pending) - 1
        /\ \A n \in 1 .. Len(pending) - 1 : pending'[n] = pending[IF n < at THEN n ELSE n + 1]
    BY <2>1, RemoveAtMoves
  <2> QED BY <2>1, <2>2
<1>2. /\ \A n \in 1 .. Len(pending) - 1 : from(n) \in 1 .. Len(pending) /\ from(n) # at /\ to(from(n)) = n
      /\ \A n \in 1 .. Len(pending) : n # at => to(n) \in 1 .. Len(pending) - 1 /\ from(to(n)) = n
      /\ \A m, n \in 1 .. Len(pending) : m < n /\ m # at /\ n # at => to(m) < to(n)
  BY <1>1
<1>3. /\ c \in Nat /\ Enumerates(q, c, S) /\ QueueOf(chat) = [k \in 1 .. c |-> pending[q[k]]]
      /\ QueueOf(chat) \in Seq(Frames) /\ Len(QueueOf(chat)) = c
  BY QueueFacts
<1>4. /\ q \in [1 .. c -> S] /\ S \in SUBSET (1 .. Len(pending))
      /\ \A k, l \in 1 .. c : k < l => q[k] < q[l]
      /\ \A x \in S : \E k \in 1 .. c : q[k] = x
  BY <1>1, <1>3 DEF Enumerates, PendingForChat
<1>5. PendingForChat(chat)' = {n \in 1 .. Len(pending) - 1 : from(n) \in S}
  BY <1>1, <1>2 DEF PendingForChat
<1>6. at \in S <=> chat = pending[at].chat
  BY <1>1 DEF PendingForChat
<1>7. \A n \in S : pending[n].chat = chat
  BY DEF PendingForChat
<1> HIDE DEF S, q, from, to
<1>8. \A k \in 1 .. c : q[k] \in 1 .. Len(pending) /\ q[k] \in S /\ q[k] \in Nat
  <2>1. \A k \in 1 .. c : q[k] \in S
    BY <1>4
  <2>2. \A x \in S : x \in 1 .. Len(pending) /\ x \in Nat
    BY <1>1, <1>4
  <2> QED BY <2>1, <2>2
<1>9. CASE chat # pending[at].chat
  <2> DEFINE r == [k \in 1 .. c |-> to(q[k])]
  <2>1. \A k \in 1 .. c : q[k] # at
    BY <1>6, <1>8, <1>9
  <2>2. r \in [1 .. c -> PendingForChat(chat)']
    BY <1>2, <1>5, <1>8, <2>1
  <2>3. \A k, l \in 1 .. c : k < l => r[k] < r[l]
    BY <1>2, <1>4, <1>8, <2>1
  <2>4. ASSUME NEW x \in PendingForChat(chat)'
        PROVE  \E k \in 1 .. c : r[k] = x
    <3>1. x \in 1 .. Len(pending) - 1 /\ from(x) \in S /\ to(from(x)) = x
      BY <1>2, <1>5
    <3>2. PICK k \in 1 .. c : q[k] = from(x)
      BY <1>4, <3>1
    <3> QED BY <3>1, <3>2
  <2>5. \A k \in 1 .. c : pending'[r[k]] = pending[q[k]]
    BY <1>1, <1>2, <1>8, <2>1
  <2> HIDE DEF r
  <2>6. Enumerates(r, c, PendingForChat(chat)')
    BY <2>2, <2>3, <2>4 DEF Enumerates
  <2>7. QueueOf(chat)' = [k \in 1 .. c |-> pending'[r[k]]]
    BY <1>1, <1>3, <2>6, NextQueue
  <2> QED BY <1>3, <1>9, <2>5, <2>7
<1>10. CASE chat = pending[at].chat
  <2>1. PICK first \in 1 .. c : q[first] = at
    BY <1>4, <1>6, <1>10
  <2> DEFINE past(k) == IF k < first THEN k ELSE k + 1
             r == [k \in 1 .. c - 1 |-> to(q[past(k)])]
  <2>2. c >= 1 /\ c - 1 \in Nat /\ 1 \in 1 .. c /\ first \in Nat
    BY <1>3, <2>1
  <2>3. (\A n \in 1 .. at - 1 : pending[n].chat # pending[at].chat) => first = 1
    <3> SUFFICES ASSUME \A n \in 1 .. at - 1 : pending[n].chat # pending[at].chat, first # 1
                 PROVE  FALSE
      OBVIOUS
    <3>1. q[1] < at /\ q[1] \in S /\ q[1] \in 1 .. Len(pending)
      <4>1. 1 < first
        BY <2>2
      <4> QED BY <1>4, <1>8, <2>1, <2>2, <4>1
    <3>2. q[1] \in 1 .. at - 1 /\ pending[q[1]].chat = pending[at].chat
      BY <1>1, <1>7, <1>10, <3>1
    <3> QED BY <3>2
  <2>4. \A k \in 1 .. c - 1 : past(k) \in 1 .. c /\ past(k) # first
    BY <1>3, <2>2
  <2>5. \A k \in 1 .. c : k # first => \E l \in 1 .. c - 1 : past(l) = k
    <3> SUFFICES ASSUME NEW k \in 1 .. c, k # first
                 PROVE  \E l \in 1 .. c - 1 : past(l) = k
      OBVIOUS
    <3>1. CASE k < first
      <4>1. k \in 1 .. c - 1 /\ past(k) = k
        BY <1>3, <2>2, <3>1
      <4> QED BY <4>1
    <3>2. CASE ~(k < first)
      <4>1. k - 1 \in 1 .. c - 1 /\ past(k - 1) = k
        BY <1>3, <2>2, <3>2
      <4> QED BY <4>1
    <3> QED BY <3>1, <3>2
  <2>6. \A k, l \in 1 .. c - 1 : k < l => past(k) < past(l)
    BY <1>3, <2>2
  <2>7. /\ DOMAIN QueueOf(chat) = 1 .. c /\ RemoveAt(QueueOf(chat), first) \in Seq(Frames)
        /\ Len(RemoveAt(QueueOf(chat), first)) = c - 1
        /\ \A k \in 1 .. c - 1 : RemoveAt(QueueOf(chat), first)[k] = QueueOf(chat)[past(k)]
    <3>1. QueueOf(chat) \in Seq(Frames) /\ first \in 1 .. Len(QueueOf(chat))
          /\ Len(QueueOf(chat)) = c /\ DOMAIN QueueOf(chat) = 1 .. Len(QueueOf(chat))
      BY <1>3
    <3> QED BY <3>1, RemoveAtMoves
  <2> HIDE DEF past
  <2>8. \A k \in 1 .. c - 1 : q[past(k)] # at /\ q[past(k)] \in 1 .. Len(pending) /\ q[past(k)] \in S
    <3> SUFFICES ASSUME NEW k \in 1 .. c - 1
                 PROVE  q[past(k)] # at /\ q[past(k)] \in 1 .. Len(pending) /\ q[past(k)] \in S
      OBVIOUS
    <3>1. past(k) \in 1 .. c /\ past(k) # first
      BY <2>4
    <3>2. q[past(k)] < q[first] \/ q[first] < q[past(k)]
      BY <1>3, <1>4, <3>1
    <3>3. q[past(k)] \in Nat /\ q[first] \in Nat
      BY <1>8, <3>1
    <3> QED BY <1>8, <2>1, <3>1, <3>2, <3>3
  <2>9. r \in [1 .. c - 1 -> PendingForChat(chat)']
    BY <1>2, <1>5, <2>8
  <2>10. ASSUME NEW k \in 1 .. c - 1, NEW l \in 1 .. c - 1, k < l
         PROVE  r[k] < r[l]
    <3>1. past(k) < past(l) /\ past(k) \in 1 .. c /\ past(l) \in 1 .. c
      BY <2>4, <2>6, <2>10
    <3>2. q[past(k)] < q[past(l)]
      BY <1>4, <3>1
    <3> QED BY <1>2, <2>8, <3>2
  <2>11. ASSUME NEW x \in PendingForChat(chat)'
         PROVE  \E k \in 1 .. c - 1 : r[k] = x
    <3>1. x \in 1 .. Len(pending) - 1 /\ from(x) \in S /\ to(from(x)) = x /\ from(x) # at
      BY <1>2, <1>5
    <3>2. PICK k \in 1 .. c : q[k] = from(x)
      BY <1>4, <3>1
    <3>3. k # first
      BY <2>1, <3>1, <3>2
    <3>4. PICK l \in 1 .. c - 1 : past(l) = k
      BY <2>5, <3>3
    <3> QED BY <3>1, <3>2, <3>4
  <2>12. \A k \in 1 .. c - 1 : pending'[r[k]] = pending[q[past(k)]]
    BY <1>1, <1>2, <2>8
  <2> HIDE DEF r
  <2>13. Enumerates(r, c - 1, PendingForChat(chat)')
    BY <2>9, <2>10, <2>11 DEF Enumerates
  <2>14. QueueOf(chat)' = [k \in 1 .. c - 1 |-> pending'[r[k]]]
    BY <1>1, <2>2, <2>13, NextQueue
  <2>15. \A k \in 1 .. c - 1 : QueueOf(chat)[past(k)] = pending[q[past(k)]]
    BY <1>3, <2>4
  <2> DEFINE t == RemoveAt(QueueOf(chat), first)
  <2>16. t = [k \in 1 .. c - 1 |-> t[k]] /\ \A k \in 1 .. c - 1 : t[k] = pending'[r[k]]
    <3>1. \A k \in 1 .. c - 1 : t[k] = pending'[r[k]]
      BY <2>7, <2>12, <2>15
    <3>2. t \in Seq(Frames) /\ Len(t) = c - 1
      BY <2>7
    <3> HIDE DEF t
    <3> QED BY <3>1, <3>2
  <2> HIDE DEF t
  <2>17. QueueOf(chat)' = t
    BY <2>14, <2>16
  <2> QED BY <1>10, <2>1, <2>3, <2>7, <2>17 DEF t
<1> QED BY <1>9, <1>10

(* The queues' module counts as this one does.                             *)
LEMMA SameCardinality == ASSUME NEW S PROVE AsQueues!Cardinality(S) = Cardinality(S)
  BY DEF AsQueues!Cardinality, Cardinality

LEMMA SameRemoval == ASSUME NEW s, NEW k PROVE AsQueues!RemoveAt(s, k) = RemoveAt(s, k)
  BY DEF AsQueues!RemoveAt, RemoveAt

(* Counting by queues and counting in the array come to the same.          *)
LEMMA SameTotal ==
    ASSUME HeldTyped, CapsHold
    PROVE  AsQueues!Total = Len(pending)
<1> DEFINE Q == [chat \in Chats |-> QueueOf(chat)]
           P == UNION {{chat} \X DOMAIN Q[chat] : chat \in Chats}
           f == [place \in P |-> Places(place[1])[place[2]]]
           D == 1 .. Len(pending)
<1>1. /\ Len(pending) \in Nat /\ Len(pending) <= MaxTotal
      /\ \A n \in D : pending[n] \in Frames /\ pending[n].chat \in Chats
  <2>1. /\ Len(pending) \in Nat /\ Len(pending) <= MaxTotal /\ \A n \in D : pending[n] \in Frames
    BY DEF HeldTyped, CapsHold
  <2>2. \A frame \in Frames : frame.chat \in Chats
    BY DEF Frames
  <2> HIDE DEF D
  <2> QED BY <2>1, <2>2
<1>2. ASSUME NEW chat \in Chats
      PROVE  /\ Len(Q[chat]) = Cardinality(PendingForChat(chat)) /\ Len(Q[chat]) \in Nat
             /\ Enumerates(Places(chat), Len(Q[chat]), PendingForChat(chat))
             /\ PendingForChat(chat) \subseteq D /\ \A n \in PendingForChat(chat) : pending[n].chat = chat
             /\ DOMAIN Q[chat] = 1 .. Len(Q[chat])
  <2>1. /\ Len(QueueOf(chat)) = Cardinality(PendingForChat(chat))
        /\ Cardinality(PendingForChat(chat)) \in Nat
        /\ Enumerates(Places(chat), Cardinality(PendingForChat(chat)), PendingForChat(chat))
    BY QueueFacts
  <2>2. Q[chat] = QueueOf(chat) /\ DOMAIN Q[chat] = 1 .. Len(Q[chat])
    BY QueueFacts
  <2>3. PendingForChat(chat) \subseteq D /\ \A n \in PendingForChat(chat) : pending[n].chat = chat
    BY DEF PendingForChat, HeldTyped
  <2> HIDE DEF Q, D
  <2> QED BY <2>1, <2>2, <2>3
<1>3. ASSUME NEW place \in P
      PROVE  /\ place[1] \in Chats /\ place[2] \in 1 .. Len(Q[place[1]])
             /\ f[place] \in D /\ pending[f[place]].chat = place[1]
             /\ place = <<place[1], place[2]>>
  <2>1. PICK chat \in Chats : place \in {chat} \X DOMAIN Q[chat]
    OBVIOUS
  <2>2. place[1] = chat /\ place[2] \in 1 .. Len(Q[chat]) /\ place = <<place[1], place[2]>>
    BY <1>2, <2>1
  <2>3. Places(place[1])[place[2]] \in PendingForChat(place[1])
    BY <1>2, <2>1, <2>2 DEF Enumerates
  <2> QED BY <1>2, <2>1, <2>2, <2>3
<1>4. ASSUME NEW x \in P, NEW y \in P, f[x] = f[y]
      PROVE  x = y
  <2>1. x[1] = y[1] /\ x[1] \in Chats
    <3>1. pending[f[x]].chat = x[1] /\ x[1] \in Chats
      BY <1>3
    <3>2. pending[f[y]].chat = y[1]
      BY <1>3
    <3> QED BY <1>4, <3>1, <3>2
  <2> DEFINE n == Len(Q[x[1]])
             q == Places(x[1])
  <2>2. n \in Nat /\ x[2] \in 1 .. n /\ y[2] \in 1 .. n /\ q[x[2]] = q[y[2]]
    BY <1>2, <1>3, <1>4, <2>1
  <2>3. /\ q \in [1 .. n -> PendingForChat(x[1])] /\ PendingForChat(x[1]) \in SUBSET Nat
        /\ \A k, l \in 1 .. n : k < l => q[k] < q[l]
    <3>1. Enumerates(q, n, PendingForChat(x[1])) /\ PendingForChat(x[1]) \subseteq D
      BY <1>2, <2>1
    <3>2. PendingForChat(x[1]) \in SUBSET Nat
      BY <1>1, <3>1
    <3> QED BY <3>1, <3>2 DEF Enumerates
  <2> HIDE DEF n, q
  <2>4. q \in Injection(1 .. n, PendingForChat(x[1]))
    BY <2>2, <2>3, EnumerationInjective
  <2>5. x[2] = y[2]
    BY <2>2, <2>4 DEF Injection, IsInjective
  <2> QED BY <1>3, <2>1, <2>5
<1>5. ASSUME NEW n \in D
      PROVE  \E place \in P : f[place] = n
  <2> DEFINE chat == pending[n].chat
  <2>1. chat \in Chats /\ n \in PendingForChat(chat)
    BY <1>1 DEF PendingForChat, HeldTyped
  <2> HIDE DEF chat
  <2>2. PICK k \in 1 .. Len(Q[chat]) : Places(chat)[k] = n
    BY <1>2, <2>1 DEF Enumerates
  <2>3. k \in DOMAIN Q[chat]
    BY <1>2, <2>1
  <2>4. <<chat, k>> \in P /\ f[<<chat, k>>] = n
    BY <2>1, <2>2, <2>3
  <2> QED BY <2>4
<1> HIDE DEF P, f, D, Q
<1>6. f \in [P -> D]
  <2>1. \A place \in P : f[place] \in D
    BY <1>3
  <2> QED BY <2>1 DEF f
<1>7. IsFiniteSet(D) /\ Cardinality(D) = Len(pending)
  BY <1>1, FS_Interval DEF D
<1>8. f \in Injection(P, D) /\ f \in Surjection(P, D)
  BY <1>4, <1>5, <1>6 DEF Injection, IsInjective, Surjection
<1>9. Cardinality(P) = Len(pending)
  BY <1>7, <1>8, FS_Injection
<1>10. AsQueues!Total = Cardinality(P)
  BY SameCardinality DEF AsQueues!Total, P, Q
<1> QED BY <1>9, <1>10

LEMMA SameRoom ==
    ASSUME HeldTyped, CapsHold, NEW chat \in Chats
    PROVE  AsQueues!HasRoom(chat) <=> HasRoom(chat)
<1>1. \A c \in Chats : /\ Len(QueueOf(c)) = Cardinality(PendingForChat(c))
                       /\ QueueOf(c) # <<>> <=> PendingForChat(c) # {}
  <2> SUFFICES ASSUME NEW c \in Chats
               PROVE  /\ Len(QueueOf(c)) = Cardinality(PendingForChat(c))
                      /\ QueueOf(c) # <<>> <=> PendingForChat(c) # {}
    OBVIOUS
  <2>1. Len(QueueOf(c)) = Cardinality(PendingForChat(c)) /\ QueueOf(c) \in Seq(Frames)
    BY QueueFacts
  <2>2. PendingForChat(c) # {} <=> Cardinality(PendingForChat(c)) # 0
    BY Finite, FS_EmptySet
  <2> QED BY <2>1, <2>2
<1>2. \A c \in Chats : PendingForChat(c) # {} <=> c \in PendingChats
  BY DEF PendingForChat, PendingChats
<1>3. PendingChats \subseteq Chats
  BY Finite
<1>4. AsQueues!Busy = PendingChats
  BY <1>1, <1>2, <1>3 DEF AsQueues!Busy
<1>5. AsQueues!HasRoom(chat) <=> /\ AsQueues!Total < MaxTotal
                                 /\ Len(QueueOf(chat)) < MaxPerChat
                                 /\ Cardinality(AsQueues!Busy) < MaxChats \/ chat \in AsQueues!Busy
  BY SameCardinality DEF AsQueues!HasRoom
<1>6. AsQueues!Total = Len(pending)
  BY SameTotal
<1> QED BY <1>1, <1>4, <1>5, <1>6 DEF HasRoom

-----------------------------------------------------------------------------
(* The drain loop: until a handler has pumped no key arrives while it      *)
(* runs, so what it has passed has no key, and the frame it takes out is   *)
(* the first of its chat.                                                  *)
PassedWithoutKey ==
    pc # "service" /\ ~disturbed =>
        \A n \in 1 .. index - 1 : n \in DOMAIN pending => ~keys[pending[n].chat]

LEMMA PassedStep ==
    ASSUME MailboxInv, PassedWithoutKey, [MailboxNext]_mailboxVars
    PROVE  PassedWithoutKey'
<1>1. index \in Nat /\ 1 <= index /\ pending \in Seq(Frames) /\ Len(pending) \in Nat
  BY Sizes DEF MailboxInv, MailboxTypeOK
<1>2. CASE pc' = pc /\ Pumping
  BY <1>2 DEF PassedWithoutKey, Pumping
<1>3. CASE DrainStart
  BY <1>3 DEF DrainStart, PassedWithoutKey
<1>4. CASE DrainSkip
  <2>1. \A n \in 1 .. index' - 1 : n = index \/ n \in 1 .. index - 1
    BY <1>1, <1>4 DEF DrainSkip
  <2> QED BY <1>4, <2>1 DEF DrainSkip, PassedWithoutKey
<1>5. CASE DrainDeliver
  <2>1. /\ index \in 1 .. Len(pending) /\ pending' = RemoveAt(pending, index) /\ pc = "drain"
        /\ index' = index /\ keys' = keys /\ disturbed' = disturbed
    BY <1>1, <1>5 DEF DrainDeliver, Removed
  <2>2. /\ Len(pending') = Len(pending) - 1 /\ pending' \in Seq(Frames)
        /\ \A n \in 1 .. Len(pending) - 1 : pending'[n] = pending[IF n < index THEN n ELSE n + 1]
    BY <1>1, <2>1, RemoveAtMoves
  <2>3. ASSUME NEW n \in 1 .. index' - 1, n \in DOMAIN pending'
        PROVE  n \in 1 .. index - 1 /\ n \in DOMAIN pending /\ pending'[n] = pending[n]
    BY <1>1, <2>1, <2>2, <2>3
  <2> QED BY <2>1, <2>3 DEF PassedWithoutKey
<1>6. CASE HandlerDone
  BY <1>6 DEF HandlerDone, PassedWithoutKey
<1>7. CASE DrainEnd
  BY <1>7 DEF DrainEnd, PassedWithoutKey
<1>8. CASE UNCHANGED mailboxVars
  BY <1>8 DEF mailboxVars, PassedWithoutKey
<1>9. CASE \/ ArriveAgain
           \/ \E chat \in Chats : \/ \E sealed \in Sealed : Arrive(chat, sealed)
                                  \/ KeyArrives(chat) \/ ForgetChat(chat)
  BY <1>2, <1>9 DEF ArriveAgain, Arrive, KeyArrives, ForgetChat
<1> QED BY <1>3, <1>4, <1>5, <1>6, <1>7, <1>8, <1>9 DEF MailboxNext, Poll

(* Each step of the mailbox is one of the queues', or changes neither the  *)
(* queues nor what was refused.                                            *)
QueueState == <<[chat \in Chats |-> QueueOf(chat)], dropped>>

LEMMA SameQueues ==
    ASSUME UNCHANGED <<pending, dropped>>
    PROVE  UNCHANGED QueueState
<1>1. \A chat \in Chats : QueueOf(chat)' = QueueOf(chat)
  BY DEF QueueOf, PendingForChat
<1> QED BY <1>1 DEF QueueState

LEMMA DispatchRefines ==
    ASSUME MailboxInv, NEW frame \in Frames, Dispatch(frame)
    PROVE  AsQueues!Next \/ UNCHANGED QueueState
<1>1. frame.chat \in Chats /\ HeldTyped /\ CapsHold
  BY MailboxParts DEF Frames
<1>2. CASE HasRoom(frame.chat) /\ pending' = Append(pending, frame) /\ dropped' = dropped
  <2>1. pending' = Append(pending, frame) /\ dropped' = dropped
    BY <1>2
  <2>2. \A chat \in Chats :
           QueueOf(chat)' = IF chat = frame.chat THEN Append(QueueOf(chat), frame) ELSE QueueOf(chat)
    BY <1>1, <2>1, AppendQueues
  <2>3. AsQueues!Hold(frame.chat)
    BY <1>1, <1>2, <2>1, <2>2, SameRoom DEF AsQueues!Hold
  <2> QED BY <1>1, <2>3 DEF AsQueues!Next
<1>3. CASE ~HasRoom(frame.chat) /\ pending' = pending /\ dropped' = dropped \cup {frame}
  <2>1. pending' = pending /\ dropped' = dropped \cup {frame}
    BY <1>3
  <2>2. \A chat \in Chats : QueueOf(chat)' = QueueOf(chat)
    BY <2>1 DEF QueueOf, PendingForChat
  <2>3. AsQueues!Refuse(frame.chat)
    BY <1>1, <1>3, <2>1, <2>2, SameRoom DEF AsQueues!Refuse
  <2> QED BY <1>1, <2>3 DEF AsQueues!Next
<1>4. CASE UNCHANGED <<pending, dropped>>
  BY <1>4, SameQueues
<1> QED BY <1>2, <1>3, <1>4 DEF Dispatch, Defer, Handle

LEMMA DeliverRefines ==
    ASSUME MailboxInv, PassedWithoutKey, DrainDeliver
    PROVE  AsQueues!Next
<1>1. /\ index \in 1 .. Len(pending) /\ pending \in Seq(Frames) /\ pending' = RemoveAt(pending, index)
      /\ dropped' = dropped /\ pc = "drain" /\ keys[pending[index].chat]
  BY Sizes DEF DrainDeliver, Removed, Handle, MailboxInv, MailboxTypeOK
<1>2. pending[index].chat \in Chats
  <2>1. pending[index] \in Frames
    BY <1>1
  <2> QED BY <2>1 DEF Frames
<1>3. ~disturbed => \A n \in 1 .. index - 1 : pending[n].chat # pending[index].chat
  <2> SUFFICES ASSUME ~disturbed, NEW n \in 1 .. index - 1
               PROVE  pending[n].chat # pending[index].chat
    OBVIOUS
  <2>1. n \in DOMAIN pending
    BY <1>1
  <2> QED BY <1>1, <2>1 DEF PassedWithoutKey
<1>4. \A chat \in Chats :
         IF chat = pending[index].chat
         THEN \E k \in DOMAIN QueueOf(chat) :
                 /\ (\A n \in 1 .. index - 1 : pending[n].chat # pending[index].chat) => k = 1
                 /\ QueueOf(chat)' = RemoveAt(QueueOf(chat), k)
         ELSE QueueOf(chat)' = QueueOf(chat)
  BY <1>1, MailboxParts, RemoveQueues
<1>5. PICK own \in Chats : own = pending[index].chat
  BY <1>2
<1>6. PICK k \in DOMAIN QueueOf(own) :
          /\ (\A n \in 1 .. index - 1 : pending[n].chat # pending[index].chat) => k = 1
          /\ QueueOf(own)' = RemoveAt(QueueOf(own), k)
  BY <1>4, <1>5
<1>7. k = 1 \/ disturbed
  BY <1>3, <1>6
<1>8. AsQueues!Deliver(own)
  <2> DEFINE Q == [chat \in Chats |-> QueueOf(chat)]
  <2>1. Q' = [Q EXCEPT ![own] = RemoveAt(@, k)] /\ k \in DOMAIN Q[own] /\ (k = 1 \/ disturbed)
    <3>1. \A chat \in Chats :
             QueueOf(chat)' = IF chat = own THEN RemoveAt(QueueOf(own), k) ELSE QueueOf(chat)
      BY <1>4, <1>5, <1>6
    <3>2. Q[own] = QueueOf(own)
      OBVIOUS
    <3>3. Q' = [chat \in Chats |-> QueueOf(chat)']
      OBVIOUS
    <3>4. [Q EXCEPT ![own] = RemoveAt(@, k)]
            = [chat \in Chats |-> IF chat = own THEN RemoveAt(QueueOf(own), k) ELSE QueueOf(chat)]
      BY <3>2
    <3> QED BY <1>6, <1>7, <3>1, <3>2, <3>3, <3>4
  <2>2. AsQueues!RemoveAt(Q[own], k) = RemoveAt(Q[own], k)
    BY SameRemoval
  <2>3. Q' = [Q EXCEPT ![own] = AsQueues!RemoveAt(@, k)]
    BY <2>1, <2>2
  <2> QED BY <1>1, <2>1, <2>3 DEF AsQueues!Deliver
<1> QED BY <1>8 DEF AsQueues!Next

LEMMA StepRefines ==
    ASSUME MailboxInv, PassedWithoutKey, [MailboxNext]_mailboxVars
    PROVE  AsQueues!Next \/ UNCHANGED QueueState
<1>1. CASE \E chat \in Chats, sealed \in Sealed : Arrive(chat, sealed)
  <2>1. PICK chat \in Chats, sealed \in Sealed : Arrive(chat, sealed)
    BY <1>1
  <2>2. PICK frame \in Frames : Dispatch(frame)
    BY <2>1, ArriveDispatches
  <2> QED BY <2>2, DispatchRefines
<1>2. CASE ArriveAgain
  <2>1. PICK frame \in frames : Dispatch(frame)
    BY <1>2 DEF ArriveAgain
  <2>2. frame \in Frames
    BY MailboxParts
  <2> QED BY <2>1, <2>2, DispatchRefines
<1>3. CASE DrainDeliver
  BY <1>3, DeliverRefines
<1>4. CASE \/ \E chat \in Chats : KeyArrives(chat) \/ ForgetChat(chat)
           \/ DrainStart \/ DrainSkip \/ HandlerDone \/ DrainEnd \/ UNCHANGED mailboxVars
  <2>1. UNCHANGED <<pending, dropped>>
    BY <1>4 DEF KeyArrives, ForgetChat, DrainStart, DrainSkip, HandlerDone, DrainEnd, mailboxVars
  <2> QED BY <2>1, SameQueues
<1> QED BY <1>1, <1>2, <1>3, <1>4 DEF MailboxNext, Poll

LEMMA InitRefines == MailboxInit => AsQueues!Init
<1> SUFFICES ASSUME MailboxInit PROVE AsQueues!Init
  OBVIOUS
<1>1. MailboxInv /\ pending = <<>> /\ dropped = {}
  BY InitHolds DEF MailboxInit
<1>2. \A chat \in Chats : QueueOf(chat) = <<>>
  <2> SUFFICES ASSUME NEW chat \in Chats PROVE QueueOf(chat) = <<>>
    OBVIOUS
  <2>1. PendingForChat(chat) = {}
    BY <1>1 DEF PendingForChat
  <2>2. Cardinality(PendingForChat(chat)) = 0
    BY <2>1, FS_EmptySet
  <2>3. QueueOf(chat) \in Seq(Frames) /\ Len(QueueOf(chat)) = 0
    BY <1>1, <2>2, MailboxParts, QueueFacts
  <2> QED BY <2>3
<1> QED BY <1>1, <1>2 DEF AsQueues!Init

(* The one array behaves as a queue per chat: no refusal while there is    *)
(* room, and no reordering until a handler pumps the transport from the    *)
(* drain loop, for any caps, chats and keys (bot_defer, drain_mailbox).    *)
THEOREM MailboxImplementsQueues == MailboxSpec => ImplementsQueues
<1>1. MailboxInit => PassedWithoutKey
  BY DEF MailboxInit, PassedWithoutKey
<1>2. MailboxInv /\ PassedWithoutKey /\ [MailboxNext]_mailboxVars => PassedWithoutKey'
  BY PassedStep
<1>3. MailboxInv /\ PassedWithoutKey /\ [MailboxNext]_mailboxVars => [AsQueues!Next]_QueueState
  BY StepRefines
<1>4. MailboxInv /\ PassedWithoutKey /\ [MailboxNext]_mailboxVars
        => [AsQueues!Next]_<<[chat \in Chats |-> QueueOf(chat)], dropped>>
  BY <1>3 DEF QueueState
<1> QED BY <1>1, <1>2, <1>4, InvAlways, InitRefines, PTL DEF MailboxSpec, ImplementsQueues, AsQueues!Spec
=============================================================================
