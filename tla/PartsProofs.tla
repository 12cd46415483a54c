---------------------------- MODULE PartsProofs -----------------------------
(***************************************************************************)
(* Proofs about the parts of MCParts: Rooms, for any rooms, any size of    *)
(* the bot's table and any number of events; IdentityFile, for any number  *)
(* of starts, kills and failed calls; Backoff, for words of any width; and *)
(* that a behaviour of MCParts is one of each part, which carries these    *)
(* theorems, RxQueue's and the mailbox's over to it.                        *)
(***************************************************************************)
EXTENDS MCParts, RxQueueProofs, MailboxProofs, NumberLemmas

-----------------------------------------------------------------------------
(* The rooms.  The invariants are proved together: a room in the table has *)
(* its key, so a room without one, which may be opened with another role,  *)
(* is not in the table.                                                    *)

(* Claims, and offers that lead to claims, are for widget rooms only.      *)
SafeFrames  == {f \in RelayFrames : f.kind = "JOINED" => f.room \in WidgetRooms}
SafeNotices == {n \in Notices : n.kind = "requested" => n.room \in WidgetRooms}

ClaimsSafe ==
    /\ toGateway \in Seq(SafeFrames) /\ toClient \in Seq(SafeNotices)
    /\ \A r \in AllRooms : roomKeys[r] = "JOINER" => r \in WidgetRooms

GatewayTyped ==
    /\ existing \subseteq AllRooms /\ past \subseteq AllRooms
    /\ holder \in [AllRooms -> {"nobody", "here", "elsewhere"}]
    /\ online \in BOOLEAN /\ events \in 0 .. MaxEvents
    /\ roomKeys \in [AllRooms -> Tags]
    /\ loose \subseteq AllRooms /\ unclaimed \subseteq AllRooms

TableTyped ==
    /\ rooms \in [1 .. MaxRooms -> AllRooms] /\ roomCount \in 0 .. MaxRooms
    /\ kept \in Handles \cup {NoHandle}

Unique == \A n, k \in 1 .. roomCount : rooms[n] = rooms[k] => n = k

TableOK == TableTyped /\ Unique

KeysOK ==
    /\ \A r \in Tracked : roomKeys[r] = "JOINER"
    /\ \A r \in AllRooms : roomKeys[r] = "JOINER" => r \in Tracked \cup loose

RoomInv == GatewayTyped /\ ClaimsSafe /\ TableOK /\ KeysOK /\ CreatorSlotsFree

-----------------------------------------------------------------------------
LEMMA SafeKinds ==
    ASSUME NEW r \in AllRooms
    PROVE  /\ [kind |-> "END", room |-> r] \in SafeFrames
           /\ r \in WidgetRooms => [kind |-> "JOINED", room |-> r] \in SafeFrames
           /\ r \in WidgetRooms => [kind |-> "requested", room |-> r] \in SafeNotices
           /\ \A kind \in {"timed_out", "END", "CLAIMED_ELSEWHERE", "CHANNEL_KICKED"} :
                 [kind |-> kind, room |-> r] \in SafeNotices
  BY DEF SafeFrames, SafeNotices, RelayFrames, Notices

LEMMA Queues ==
    ASSUME NEW S, NEW s \in Seq(S)
    PROVE  /\ \A x \in S : Append(s, x) \in Seq(S)
           /\ s # <<>> => Head(s) \in S /\ Tail(s) \in Seq(S)
  OBVIOUS

LEMMA SeqSubset ==
    ASSUME NEW S, NEW T, S \subseteq T, NEW s \in Seq(S)
    PROVE  s \in Seq(T)
  OBVIOUS

LEMMA ClaimsAreTyped ==
    ClaimsSafe => toGateway \in Seq(RelayFrames) /\ toClient \in Seq(Notices)
<1>1. SafeFrames \subseteq RelayFrames /\ SafeNotices \subseteq Notices
  BY DEF SafeFrames, SafeNotices
<1> QED BY <1>1, SeqSubset DEF ClaimsSafe

LEMMA InvImplies == RoomInv => RoomTypeOK /\ RoomsAgree /\ CreatorSlotsFree
  BY ClaimsAreTyped
     DEF RoomInv, GatewayTyped, TableOK, TableTyped, Unique, KeysOK, RoomTypeOK, RoomsAgree

-----------------------------------------------------------------------------
(* The table.                                                              *)

LEMMA SlotOfTracked ==
    ASSUME NEW r \in Tracked
    PROVE  SlotOf(r) \in 1 .. roomCount /\ rooms[SlotOf(r)] = r
<1>1. \E n \in 1 .. roomCount : rooms[n] = r
  BY DEF Tracked
<1> QED BY <1>1 DEF SlotOf

(* A removal takes one room out, keeps the others and moves one of them.   *)
LEMMA Removes ==
    ASSUME TableOK, NEW r \in AllRooms, RemoveRoom(r)
    PROVE  TableOK' /\ Tracked' = Tracked \ {r}
<1>1. CASE r \notin Tracked
  <2>1. UNCHANGED <<rooms, roomCount, kept>>
    BY <1>1 DEF RemoveRoom, tableVars
  <2> QED BY <1>1, <2>1 DEF TableOK, TableTyped, Unique, Tracked
<1>2. CASE r \in Tracked
  <2> DEFINE s == SlotOf(r)
  <2>1. s \in 1 .. roomCount /\ rooms[s] = r
    BY <1>2, SlotOfTracked
  <2>2. /\ roomCount \in Nat /\ roomCount <= MaxRooms /\ MaxRooms \in Nat /\ s <= MaxRooms
        /\ s \in Nat /\ 1 <= s /\ s <= roomCount /\ roomCount \in 1 .. roomCount
        /\ rooms \in [1 .. MaxRooms -> AllRooms] /\ kept \in Handles \cup {NoHandle}
    BY <2>1, RoomsAssumption DEF TableOK, TableTyped
  <2>3. /\ rooms' = [rooms EXCEPT ![s] = rooms[roomCount]]
        /\ roomCount' = roomCount - 1 /\ LetGoOf(r)
    BY <1>2 DEF RemoveRoom, Without
  <2> HIDE DEF s
  <2>4. roomCount' \in 0 .. MaxRooms /\ rooms' \in [1 .. MaxRooms -> AllRooms]
    BY <2>2, <2>3
  <2>5. kept' \in Handles \cup {NoHandle}
    BY <2>2, <2>3 DEF LetGoOf
  <2>6. ASSUME NEW n \in 1 .. roomCount'
        PROVE  /\ n \in 1 .. roomCount /\ n # roomCount
               /\ rooms'[n] = IF n = s THEN rooms[roomCount] ELSE rooms[n]
    BY <2>2, <2>3
  <2>7. Unique'
    <3> SUFFICES ASSUME NEW n \in 1 .. roomCount', NEW k \in 1 .. roomCount', rooms'[n] = rooms'[k]
                 PROVE  n = k
      BY DEF Unique
    <3> QED BY <2>2, <2>6 DEF TableOK, Unique
  <2>8. Tracked' = Tracked \ {r}
    <3>1. ASSUME NEW q \in Tracked'
          PROVE  q \in Tracked \ {r}
      <4>1. PICK n \in 1 .. roomCount' : rooms'[n] = q
        BY DEF Tracked
      <4>2. CASE n = s
        BY <2>1, <2>2, <2>6, <4>1, <4>2 DEF Tracked, TableOK, Unique
      <4>3. CASE n # s
        BY <2>1, <2>2, <2>6, <4>1, <4>3 DEF Tracked, TableOK, Unique
      <4> QED BY <4>2, <4>3
    <3>2. ASSUME NEW q \in Tracked \ {r}
          PROVE  q \in Tracked'
      <4>1. PICK n \in 1 .. roomCount : rooms[n] = q
        BY DEF Tracked
      <4>2. n # s
        BY <2>1, <4>1
      <4>3. CASE n = roomCount
        <5>1. s \in 1 .. roomCount' /\ rooms'[s] = q
          BY <2>2, <2>3, <4>1, <4>2, <4>3
        <5> QED BY <5>1 DEF Tracked
      <4>4. CASE n # roomCount
        <5>1. n \in 1 .. roomCount' /\ rooms'[n] = q
          BY <2>2, <2>3, <2>6, <4>1, <4>2, <4>4
        <5> QED BY <5>1 DEF Tracked
      <4> QED BY <4>3, <4>4
    <3> QED BY <3>1, <3>2
  <2> QED BY <2>4, <2>5, <2>7, <2>8 DEF TableOK, TableTyped
<1> QED BY <1>1, <1>2

(* Remembering adds one room, at the cost of another when the table is     *)
(* full; what is taken out is loose afterwards.                            *)
LEMMA Remembers ==
    ASSUME TableOK, NEW r \in AllRooms, RememberRoom(r), loose \subseteq AllRooms
    PROVE  /\ TableOK' /\ r \in Tracked' /\ Tracked' \subseteq Tracked \cup {r}
           /\ (Tracked \cup loose) \ {r} \subseteq Tracked' \cup loose'
           /\ loose' \subseteq AllRooms
<1>0. /\ roomCount \in Nat /\ roomCount <= MaxRooms /\ MaxRooms \in Nat /\ 1 <= MaxRooms
      /\ rooms \in [1 .. MaxRooms -> AllRooms] /\ kept \in Handles \cup {NoHandle}
  BY RoomsAssumption DEF TableOK, TableTyped
<1>1. CASE r \in Tracked
  <2>1. UNCHANGED <<rooms, roomCount, kept>> /\ loose' = loose \ {r}
    BY <1>1 DEF RememberRoom, tableVars
  <2> QED BY <1>1, <2>1 DEF TableOK, TableTyped, Unique, Tracked
<1>2. CASE r \notin Tracked /\ roomCount < MaxRooms
  <2>1. /\ rooms' = [rooms EXCEPT ![roomCount + 1] = r] /\ roomCount' = roomCount + 1
        /\ loose' = loose \ {r} /\ kept' = kept
    BY <1>2 DEF RememberRoom
  <2>2. roomCount' \in 0 .. MaxRooms /\ rooms' \in [1 .. MaxRooms -> AllRooms]
    BY <1>0, <1>2, <2>1
  <2>3. /\ \A n \in 1 .. roomCount : n \in 1 .. roomCount' /\ rooms'[n] = rooms[n]
        /\ roomCount + 1 \in 1 .. roomCount' /\ rooms'[roomCount + 1] = r
        /\ \A n \in 1 .. roomCount' : n \in 1 .. roomCount \/ n = roomCount + 1
    BY <1>0, <1>2, <2>1
  <2>4. Tracked' = Tracked \cup {r}
    BY <2>3 DEF Tracked
  <2>5. Unique'
    <3> SUFFICES ASSUME NEW n \in 1 .. roomCount', NEW k \in 1 .. roomCount', rooms'[n] = rooms'[k]
                 PROVE  n = k
      BY DEF Unique
    <3>1. \A m \in 1 .. roomCount : rooms[m] # r
      BY <1>2 DEF Tracked
    <3> QED BY <2>3, <3>1 DEF TableOK, Unique
  <2> QED BY <1>0, <2>1, <2>2, <2>4, <2>5 DEF TableOK, TableTyped
<1>3. CASE r \notin Tracked /\ roomCount = MaxRooms
  <2> DEFINE gone == rooms[1]
  <2>1. gone \in Tracked /\ gone \in AllRooms
    BY <1>0, <1>3 DEF Tracked
  <2>2. SlotOf(gone) = 1
    <3>1. SlotOf(gone) \in 1 .. roomCount /\ rooms[SlotOf(gone)] = gone /\ 1 \in 1 .. roomCount
      BY <1>0, <1>3, <2>1, SlotOfTracked
    <3> QED BY <3>1 DEF TableOK, Unique
  <2>3. /\ rooms' = [[rooms EXCEPT ![1] = rooms[roomCount]] EXCEPT ![roomCount] = r]
        /\ loose' = (loose \ {r}) \cup {gone} /\ LetGoOf(gone) /\ roomCount' = roomCount
    <3>1. Without(gone) = [rooms EXCEPT ![1] = rooms[roomCount]]
      BY <2>2 DEF Without
    <3>2. ~(roomCount < MaxRooms)
      BY <1>0, <1>3
    <3>3. /\ rooms' = [Without(gone) EXCEPT ![roomCount] = r] /\ roomCount' = roomCount
          /\ loose' = (loose \ {r}) \cup {gone} /\ LetGoOf(gone)
      BY <1>3, <3>2 DEF RememberRoom
    <3> QED BY <3>1, <3>3
  <2>4. rooms' \in [1 .. MaxRooms -> AllRooms] /\ roomCount' \in 0 .. MaxRooms
    BY <1>0, <1>3, <2>3
  <2>5. kept' \in Handles \cup {NoHandle}
    BY <1>0, <2>3 DEF LetGoOf
  <2>6. /\ roomCount \in 1 .. roomCount /\ rooms'[roomCount] = r /\ 1 \in 1 .. roomCount
        /\ \A n \in 1 .. roomCount : n # roomCount =>
              rooms'[n] = IF n = 1 THEN rooms[roomCount] ELSE rooms[n]
    BY <1>0, <1>3, <2>3
  <2> HIDE DEF gone
  <2>7. Unique'
    <3> SUFFICES ASSUME NEW n \in 1 .. roomCount, NEW k \in 1 .. roomCount, rooms'[n] = rooms'[k]
                 PROVE  n = k
      BY <2>3 DEF Unique
    <3>1. \A m \in 1 .. roomCount : rooms[m] # r
      BY <1>3 DEF Tracked
    <3> QED BY <2>6, <3>1 DEF TableOK, Unique
  <2>8. r \in Tracked' /\ Tracked' \subseteq Tracked \cup {r}
    <3>1. \A n \in 1 .. roomCount : rooms'[n] \in Tracked \cup {r}
      BY <2>6 DEF Tracked
    <3> QED BY <2>3, <2>6, <3>1 DEF Tracked
  <2>9. ASSUME NEW q \in Tracked, q # gone
        PROVE  q \in Tracked'
    <3>1. PICK n \in 1 .. roomCount : rooms[n] = q
      BY DEF Tracked
    <3>2. n # 1
      BY <2>9, <3>1 DEF gone
    <3>3. CASE n = roomCount
      <4>1. 1 # roomCount /\ rooms'[1] = q
        BY <2>6, <3>1, <3>2, <3>3
      <4> QED BY <2>3, <2>6, <4>1 DEF Tracked
    <3>4. CASE n # roomCount
      <4>1. rooms'[n] = q
        BY <2>6, <3>1, <3>2, <3>4
      <4> QED BY <2>3, <4>1 DEF Tracked
    <3> QED BY <3>3, <3>4
  <2> QED BY <2>1, <2>3, <2>4, <2>5, <2>7, <2>8, <2>9 DEF TableOK, TableTyped
<1> QED BY <1>0, <1>1, <1>2, <1>3

(* Rejoining claims the rooms whose keys have one of the tags.             *)
LEMMA RejoiningTyped ==
    ASSUME NEW tags
    PROVE  /\ Len(Rejoining(tags)) \in Nat /\ DOMAIN Rejoining(tags) = 1 .. Len(Rejoining(tags))
           /\ \A n \in DOMAIN Rejoining(tags) :
                 Rejoining(tags)[n] \in AllRooms /\ roomKeys[Rejoining(tags)[n]] \in tags
<1> DEFINE S == {r \in AllRooms : roomKeys[r] \in tags}
<1>1. IsFiniteSet(S)
  <2>1. S \subseteq AllRooms
    OBVIOUS
  <2> QED BY <2>1, FS_Subset, RoomsAssumption
<1> HIDE DEF S
<1>2. Cardinality(S) \in Nat /\ ExistsBijection(1 .. Cardinality(S), S)
  BY <1>1, FS_CardinalityType
<1>3. \E f \in [1 .. Cardinality(S) -> S] : IsInjective(f)
  BY <1>2 DEF ExistsBijection, Bijection, Injection
<1>4. SetToSeq(S) \in [1 .. Cardinality(S) -> S]
  BY <1>3 DEF SetToSeq
<1>5. SetToSeq(S) \in Seq(S) /\ Len(SetToSeq(S)) = Cardinality(S)
  BY <1>2, <1>4
<1>6. Rejoining(tags) = SetToSeq(S)
  BY DEF Rejoining, S
<1>7. \A n \in DOMAIN SetToSeq(S) : SetToSeq(S)[n] \in S
  BY <1>4
<1> QED BY <1>2, <1>4, <1>5, <1>6, <1>7 DEF S

(* ... and leaves none of them out: an enumeration without repetitions of  *)
(* as many places as there are rooms names every room.                     *)
LEMMA RejoiningCovers ==
    ASSUME NEW tags, NEW r \in AllRooms, roomKeys[r] \in tags
    PROVE  \E n \in DOMAIN Rejoining(tags) : Rejoining(tags)[n] = r
<1> DEFINE S == {q \in AllRooms : roomKeys[q] \in tags}
           P == 1 .. Cardinality(S)
<1>1. IsFiniteSet(S) /\ r \in S
  <2>1. S \subseteq AllRooms
    OBVIOUS
  <2> QED BY <2>1, FS_Subset, RoomsAssumption
<1>2. Rejoining(tags) = SetToSeq(S)
  BY DEF Rejoining, S
<1> HIDE DEF S
<1>3. Cardinality(S) \in Nat /\ ExistsBijection(P, S)
  BY <1>1, FS_CardinalityType
<1>4. \E f \in [P -> S] : IsInjective(f)
  BY <1>3 DEF ExistsBijection, Bijection, Injection
<1>5. SetToSeq(S) \in [P -> S] /\ IsInjective(SetToSeq(S))
  BY <1>4 DEF SetToSeq
<1>6. SetToSeq(S) \in Injection(P, S)
  BY <1>5 DEF Injection
<1>7. IsFiniteSet(P) /\ Cardinality(P) = Cardinality(S)
  BY <1>3, FS_Interval
<1>8. SetToSeq(S) \in Surjection(P, S)
  BY <1>1, <1>6, <1>7, FS_Injection
<1> QED BY <1>1, <1>2, <1>5, <1>8 DEF Surjection

-----------------------------------------------------------------------------
(* The steps.                                                              *)

Telling == toClient # <<>> /\ toClient' = Tail(toClient)

LEMMA ToldSafe ==
    ASSUME RoomInv, NEW kind, Notice(kind)
    PROVE  /\ Head(toClient) \in SafeNotices /\ Told \in AllRooms
           /\ kind = "requested" => Told \in WidgetRooms
           /\ toClient' \in Seq(SafeNotices)
<1>1. Head(toClient) \in SafeNotices /\ Tail(toClient) \in Seq(SafeNotices)
  BY Queues DEF Notice, RoomInv, ClaimsSafe
<1>2. Told \in AllRooms /\ (Head(toClient).kind = "requested" => Told \in WidgetRooms)
  BY <1>1 DEF Told, SafeNotices, Notices
<1> QED BY <1>1, <1>2 DEF Notice

(* A step that leaves the table, its keys and what follows from them.      *)
LEMMA TableKept ==
    ASSUME RoomInv, UNCHANGED <<rooms, roomCount, kept, roomKeys, loose>>
    PROVE  TableOK' /\ KeysOK'
  BY DEF RoomInv, TableOK, TableTyped, Unique, KeysOK, Tracked

(* A room goes: its key first, then its place, unless that is kept loose.  *)
LEMMA RoomGoes ==
    ASSUME RoomInv, NEW r \in AllRooms, RemoveRoom(r),
           roomKeys' = [roomKeys EXCEPT ![r] = "none"], loose' = loose \ {r}
    PROVE  TableOK' /\ KeysOK' /\ roomKeys' \in [AllRooms -> Tags]
           /\ \A q \in AllRooms : roomKeys'[q] = "JOINER" => q \in WidgetRooms
<1>1. TableOK' /\ Tracked' = Tracked \ {r}
  BY Removes DEF RoomInv
<1>2. /\ roomKeys \in [AllRooms -> Tags] /\ roomKeys' \in [AllRooms -> Tags]
      /\ \A q \in AllRooms : roomKeys'[q] = IF q = r THEN "none" ELSE roomKeys[q]
  BY DEF RoomInv, GatewayTyped, Tags
<1>3. Tracked \subseteq AllRooms
  BY RoomsAssumption DEF RoomInv, TableOK, TableTyped, Tracked
<1>4. KeysOK'
  BY <1>1, <1>2, <1>3 DEF RoomInv, KeysOK
<1> QED BY <1>1, <1>2, <1>4 DEF RoomInv, ClaimsSafe

(* A room comes, with its key.                                             *)
LEMMA RoomComes ==
    ASSUME RoomInv, NEW r \in WidgetRooms, RememberRoom(r),
           roomKeys' = [roomKeys EXCEPT ![r] = "JOINER"]
    PROVE  TableOK' /\ KeysOK' /\ roomKeys' \in [AllRooms -> Tags] /\ loose' \subseteq AllRooms
           /\ \A q \in AllRooms : roomKeys'[q] = "JOINER" => q \in WidgetRooms
<1>1. r \in AllRooms /\ loose \subseteq AllRooms
  BY DEF AllRooms, RoomInv, GatewayTyped
<1>2. /\ TableOK' /\ r \in Tracked' /\ Tracked' \subseteq Tracked \cup {r}
      /\ (Tracked \cup loose) \ {r} \subseteq Tracked' \cup loose' /\ loose' \subseteq AllRooms
  BY <1>1, Remembers DEF RoomInv
<1>3. /\ roomKeys' \in [AllRooms -> Tags]
      /\ \A q \in AllRooms : roomKeys'[q] = IF q = r THEN "JOINER" ELSE roomKeys[q]
  BY <1>1 DEF RoomInv, GatewayTyped, Tags
<1>4. Tracked \subseteq AllRooms
  BY RoomsAssumption DEF RoomInv, TableOK, TableTyped, Tracked
<1>5. KeysOK'
  BY <1>1, <1>2, <1>3, <1>4 DEF RoomInv, KeysOK
<1> QED BY <1>2, <1>3, <1>5 DEF RoomInv, ClaimsSafe

LEMMA EventTyped ==
    ASSUME RoomInv, Event
    PROVE  events' \in 0 .. MaxEvents
  BY RoomsAssumption DEF RoomInv, GatewayTyped, Event

LEMMA EnvironmentStep ==
    ASSUME RoomInv, NEW r \in AllRooms,
           VisitorOpens(r) \/ ClaimedByOtherDevice(r) \/ RoomEnds(r)
    PROVE  RoomInv'
<1>1. TableOK' /\ KeysOK'
  BY TableKept DEF VisitorOpens, ClaimedByOtherDevice, RoomEnds, tableVars
<1>2. events' \in 0 .. MaxEvents
  BY EventTyped DEF VisitorOpens, ClaimedByOtherDevice, RoomEnds
<1>3. /\ holder \in [AllRooms -> {"nobody", "here", "elsewhere"}] /\ toClient \in Seq(SafeNotices)
      /\ roomKeys' = roomKeys /\ online' = online /\ toGateway' = toGateway
      /\ loose' = loose /\ unclaimed' = unclaimed
  BY DEF RoomInv, GatewayTyped, ClaimsSafe, VisitorOpens, ClaimedByOtherDevice, RoomEnds, roomLinkVars
<1>4. CASE VisitorOpens(r)
  <2>1. r \in WidgetRooms /\ [kind |-> "requested", room |-> r] \in SafeNotices
    BY <1>4, SafeKinds DEF VisitorOpens
  <2>2. toClient' \in Seq(SafeNotices)
    BY <1>3, <1>4, <2>1, Queues DEF VisitorOpens
  <2>3. existing' \subseteq AllRooms /\ past' = past /\ holder' = holder
    BY <1>4 DEF VisitorOpens, RoomInv, GatewayTyped
  <2> QED BY <1>1, <1>2, <1>3, <2>2, <2>3 DEF RoomInv, GatewayTyped, ClaimsSafe, CreatorSlotsFree
<1>5. CASE ClaimedByOtherDevice(r)
  <2>1. /\ holder' \in [AllRooms -> {"nobody", "here", "elsewhere"}]
        /\ existing' = existing /\ past' = past /\ toClient' = toClient
        /\ \A q \in AllRooms : holder'[q] = "here" => holder[q] = "here"
    BY <1>3, <1>5 DEF ClaimedByOtherDevice, roomLinkVars
  <2>2. CreatorSlotsFree'
    BY <2>1 DEF RoomInv, CreatorSlotsFree, AllRooms
  <2> QED BY <1>1, <1>2, <1>3, <2>1, <2>2 DEF RoomInv, GatewayTyped, ClaimsSafe
<1>6. CASE RoomEnds(r)
  <2>1. /\ holder' \in [AllRooms -> {"nobody", "here", "elsewhere"}]
        /\ existing' \subseteq AllRooms /\ past' \subseteq AllRooms
        /\ \A q \in AllRooms : holder'[q] = "here" => holder[q] = "here"
    BY <1>3, <1>6 DEF RoomEnds, RoomInv, GatewayTyped
  <2>2. toClient' \in Seq(SafeNotices)
    <3>1. PICK kind \in (IF roomKeys[r] = "CHANNEL" THEN {"CHANNEL_KICKED"} ELSE {"END", "timed_out"}) :
             toClient' = IF online /\ (r \in OwnRooms \/ holder[r] # "elsewhere")
                         THEN Append(toClient, [kind |-> kind, room |-> r]) ELSE toClient
      BY <1>6 DEF RoomEnds
    <3>2. [kind |-> kind, room |-> r] \in SafeNotices
      BY SafeKinds
    <3> QED BY <1>3, <3>1, <3>2, Queues
  <2>3. CreatorSlotsFree'
    BY <2>1 DEF RoomInv, CreatorSlotsFree, AllRooms
  <2> QED BY <1>1, <1>2, <1>3, <2>1, <2>2, <2>3 DEF RoomInv, GatewayTyped, ClaimsSafe
<1> QED BY <1>4, <1>5, <1>6

LEMMA GatewayHandlesStep ==
    ASSUME RoomInv, GatewayHandles
    PROVE  RoomInv'
<1> DEFINE r == Head(toGateway).room
<1>1. TableOK' /\ KeysOK'
  BY TableKept DEF GatewayHandles, tableVars
<1>2. /\ Head(toGateway) \in SafeFrames /\ toGateway' \in Seq(SafeFrames)
      /\ toClient \in Seq(SafeNotices)
  BY Queues DEF GatewayHandles, RoomInv, ClaimsSafe
<1>3. /\ r \in AllRooms /\ (Head(toGateway).kind = "JOINED" => r \in WidgetRooms)
      /\ roomKeys' = roomKeys /\ online' = online /\ events' = events
      /\ loose' = loose /\ unclaimed' = unclaimed
  BY <1>2 DEF SafeFrames, RelayFrames, GatewayHandles
<1>4. /\ existing' \subseteq AllRooms /\ past' \subseteq AllRooms
      /\ holder' \in [AllRooms -> {"nobody", "here", "elsewhere"}]
      /\ \A q \in OwnRooms : holder'[q] # "here"
  <2>1. /\ existing \subseteq AllRooms /\ past \subseteq AllRooms
        /\ holder \in [AllRooms -> {"nobody", "here", "elsewhere"}]
        /\ \A q \in OwnRooms : q \in AllRooms /\ holder[q] # "here" /\ q \notin WidgetRooms
    BY RoomsAssumption DEF RoomInv, GatewayTyped, CreatorSlotsFree, AllRooms
  <2> HIDE DEF r
  <2>2. \/ /\ existing' = existing \ {r} /\ past' = past \cup {r}
           /\ holder' = [holder EXCEPT ![r] = "nobody"]
        \/ r \in WidgetRooms /\ holder' = [holder EXCEPT ![r] = "here"] /\ UNCHANGED <<existing, past>>
        \/ UNCHANGED <<existing, past, holder>>
    BY <1>3 DEF GatewayHandles, r
  <2> QED BY <1>3, <2>1, <2>2
<1>5. toClient' \in Seq(SafeNotices)
  <2>1. /\ [kind |-> "CLAIMED_ELSEWHERE", room |-> r] \in SafeNotices
        /\ [kind |-> "END", room |-> r] \in SafeNotices
    BY <1>3, SafeKinds
  <2>2. \/ toClient' = toClient
        \/ toClient' = Append(toClient, [kind |-> "CLAIMED_ELSEWHERE", room |-> r])
        \/ toClient' = Append(toClient, [kind |-> "END", room |-> r])
    BY DEF GatewayHandles
  <2> QED BY <1>2, <2>1, <2>2, Queues
<1> QED BY <1>1, <1>2, <1>3, <1>4, <1>5 DEF RoomInv, GatewayTyped, ClaimsSafe, CreatorSlotsFree

LEMMA RoomRequestedStep ==
    ASSUME RoomInv, RoomRequested
    PROVE  RoomInv'
<1>1. /\ Told \in AllRooms /\ Told \in WidgetRooms /\ toClient' \in Seq(SafeNotices)
      /\ toGateway \in Seq(SafeFrames)
  BY ToldSafe DEF RoomRequested, RoomInv, ClaimsSafe, Notice
<1>2. CASE /\ roomKeys' = [roomKeys EXCEPT ![Told] = "JOINER"]
           /\ toGateway' = Append(toGateway, [kind |-> "JOINED", room |-> Told])
           /\ RememberRoom(Told)
  <2>1. toGateway' \in Seq(SafeFrames)
    BY <1>1, <1>2, SafeKinds, Queues
  <2>2. TableOK' /\ KeysOK' /\ roomKeys' \in [AllRooms -> Tags] /\ loose' \subseteq AllRooms
        /\ \A q \in AllRooms : roomKeys'[q] = "JOINER" => q \in WidgetRooms
    BY <1>1, <1>2, RoomComes
  <2> QED BY <1>1, <2>1, <2>2
          DEF RoomRequested, RoomInv, GatewayTyped, ClaimsSafe, CreatorSlotsFree, roomGatewayVars
<1>3. CASE UNCHANGED <<roomKeys, toGateway, tableVars, loose, kept>>
  <2>1. TableOK' /\ KeysOK'
    BY <1>3, TableKept DEF tableVars
  <2> QED BY <1>1, <1>3, <2>1
          DEF RoomRequested, RoomInv, GatewayTyped, ClaimsSafe, CreatorSlotsFree, roomGatewayVars
<1> QED BY <1>2, <1>3 DEF RoomRequested

LEMMA RoomOverStep ==
    ASSUME RoomInv, RoomOver
    PROVE  RoomInv'
<1>1. Told \in AllRooms /\ toClient' \in Seq(SafeNotices)
  BY ToldSafe DEF RoomOver
<1>2. TableOK' /\ KeysOK' /\ roomKeys' \in [AllRooms -> Tags]
      /\ \A q \in AllRooms : roomKeys'[q] = "JOINER" => q \in WidgetRooms
  BY <1>1, RoomGoes DEF RoomOver
<1> QED BY <1>1, <1>2
        DEF RoomOver, RoomInv, GatewayTyped, ClaimsSafe, CreatorSlotsFree, roomGatewayVars

LEMMA VisitorEndStep ==
    ASSUME RoomInv, NEW r \in AllRooms, VisitorEnd(r)
    PROVE  RoomInv'
<1>1. events' \in 0 .. MaxEvents
  BY EventTyped DEF VisitorEnd
<1>2. TableOK' /\ KeysOK' /\ roomKeys' \in [AllRooms -> Tags]
      /\ \A q \in AllRooms : roomKeys'[q] = "JOINER" => q \in WidgetRooms
  BY RoomGoes DEF VisitorEnd
<1>3. toGateway' \in Seq(SafeFrames)
  <2>1. toGateway \in Seq(SafeFrames) /\ [kind |-> "END", room |-> r] \in SafeFrames
    BY SafeKinds DEF RoomInv, ClaimsSafe
  <2> QED BY <2>1, Queues DEF VisitorEnd
<1> QED BY <1>1, <1>2, <1>3
        DEF VisitorEnd, RoomInv, GatewayTyped, ClaimsSafe, CreatorSlotsFree, roomGatewayVars

LEMMA VisitorRegisterStep ==
    ASSUME RoomInv, NEW r \in AllRooms, VisitorRegister(r)
    PROVE  RoomInv'
<1>1. events' \in 0 .. MaxEvents /\ r \in WidgetRooms
  BY EventTyped DEF VisitorRegister
<1>2. TableOK' /\ KeysOK' /\ roomKeys' \in [AllRooms -> Tags] /\ loose' \subseteq AllRooms
      /\ \A q \in AllRooms : roomKeys'[q] = "JOINER" => q \in WidgetRooms
  <2>1. CASE RememberRoom(r)
    BY <1>1, <2>1, RoomComes DEF VisitorRegister
  <2>2. CASE loose' = loose \cup ({r} \ Tracked) /\ UNCHANGED <<tableVars, kept>>
    <3>1. UNCHANGED <<rooms, roomCount, kept>>
      BY <2>2 DEF tableVars
    <3>2. /\ roomKeys' \in [AllRooms -> Tags]
          /\ \A q \in AllRooms : roomKeys'[q] = IF q = r THEN "JOINER" ELSE roomKeys[q]
      BY DEF VisitorRegister, RoomInv, GatewayTyped, Tags
    <3>3. TableOK' /\ Tracked' = Tracked
      BY <3>1 DEF RoomInv, TableOK, TableTyped, Unique, Tracked
    <3>4. Tracked \subseteq AllRooms
      BY RoomsAssumption DEF RoomInv, TableOK, TableTyped, Tracked
    <3>5. KeysOK'
      BY <2>2, <3>2, <3>3, <3>4 DEF RoomInv, KeysOK
    <3> QED BY <1>1, <2>2, <3>2, <3>3, <3>5 DEF RoomInv, GatewayTyped, ClaimsSafe
  <2> QED BY <2>1, <2>2 DEF VisitorRegister
<1> QED BY <1>1, <1>2
        DEF VisitorRegister, RoomInv, GatewayTyped, ClaimsSafe, CreatorSlotsFree,
            roomGatewayVars, roomLinkVars

LEMMA VisitorForgetStep ==
    ASSUME RoomInv, NEW r \in AllRooms, VisitorForget(r)
    PROVE  RoomInv'
<1>1. events' \in 0 .. MaxEvents
  BY EventTyped DEF VisitorForget
<1>2. TableOK' /\ Tracked' = Tracked \ {r} /\ loose' = loose \cup {r} /\ roomKeys' = roomKeys
  BY Removes DEF RoomInv, VisitorForget
<1>3. KeysOK' /\ loose' \subseteq AllRooms
  BY <1>2 DEF RoomInv, KeysOK, GatewayTyped
<1> QED BY <1>1, <1>2, <1>3
        DEF VisitorForget, RoomInv, GatewayTyped, ClaimsSafe, CreatorSlotsFree,
            roomGatewayVars, roomLinkVars

LEMMA OpenOwnRoomStep ==
    ASSUME RoomInv, NEW r \in AllRooms, OpenOwnRoom(r)
    PROVE  RoomInv'
<1>1. events' \in 0 .. MaxEvents
  BY EventTyped DEF OpenOwnRoom
<1>2. PICK role \in {"CREATOR", "CHANNEL"} : roomKeys' = [roomKeys EXCEPT ![r] = role]
  BY DEF OpenOwnRoom
<1>3. /\ roomKeys' \in [AllRooms -> Tags] /\ roomKeys[r] = "none"
      /\ \A q \in AllRooms : roomKeys'[q] = "JOINER" <=> roomKeys[q] = "JOINER"
  BY <1>2 DEF OpenOwnRoom, RoomInv, GatewayTyped, Tags
<1>4. UNCHANGED <<rooms, roomCount, kept, loose>> /\ existing' \subseteq AllRooms
  BY DEF OpenOwnRoom, tableVars, RoomInv, GatewayTyped
<1>5. TableOK' /\ Tracked' = Tracked /\ Tracked \subseteq AllRooms
  BY <1>4, RoomsAssumption DEF RoomInv, TableOK, TableTyped, Unique, Tracked
<1>6. KeysOK'
  BY <1>3, <1>4, <1>5 DEF RoomInv, KeysOK
<1> QED BY <1>1, <1>3, <1>4, <1>5, <1>6
        DEF OpenOwnRoom, RoomInv, GatewayTyped, ClaimsSafe, CreatorSlotsFree, roomLinkVars

LEMMA KeepHandleStep ==
    ASSUME RoomInv, NEW r \in AllRooms, KeepHandle(r)
    PROVE  RoomInv'
<1>1. SlotOf(r) \in 1 .. roomCount /\ rooms[SlotOf(r)] = r
  BY SlotOfTracked DEF KeepHandle
<1>2. roomCount \in Nat /\ roomCount <= MaxRooms /\ MaxRooms \in Nat
  BY RoomsAssumption DEF RoomInv, TableOK, TableTyped
<1> DEFINE s == SlotOf(r)
<1>3. /\ kept' = [slot |-> s, room |-> r]
      /\ s \in 1 .. roomCount /\ rooms[s] = r
  BY <1>1 DEF KeepHandle
<1> HIDE DEF s
<1>4. kept' \in Handles /\ kept'.slot = s /\ kept'.room = r /\ s <= roomCount
  BY <1>2, <1>3 DEF Handles
<1>5. TableOK' /\ KeysOK'
  BY <1>3, <1>4 DEF KeepHandle, RoomInv, TableOK, TableTyped, Unique, KeysOK, Tracked, tableVars
<1> QED BY <1>5
        DEF KeepHandle, RoomInv, GatewayTyped, ClaimsSafe, CreatorSlotsFree,
            roomGatewayVars, roomLinkVars

LEMMA LoseSocketStep ==
    ASSUME RoomInv, LoseSocket
    PROVE  RoomInv'
<1>1. events' \in 0 .. MaxEvents
  BY EventTyped DEF LoseSocket
<1>2. TableOK' /\ KeysOK'
  BY TableKept DEF LoseSocket, tableVars
<1>3. /\ holder' \in [AllRooms -> {"nobody", "here", "elsewhere"}]
      /\ \A q \in OwnRooms : holder'[q] # "here"
  BY DEF LoseSocket, RoomInv, GatewayTyped, AllRooms
<1>4. <<>> \in Seq(SafeFrames) /\ <<>> \in Seq(SafeNotices)
  OBVIOUS
<1> QED BY <1>1, <1>2, <1>3, <1>4
        DEF LoseSocket, RoomInv, GatewayTyped, ClaimsSafe, CreatorSlotsFree

LEMMA RoomsAuthenticatedStep ==
    ASSUME RoomInv, RoomsAuthenticated
    PROVE  RoomInv'
<1> DEFINE s == Rejoining({"JOINER"})
<1>1. TableOK' /\ KeysOK'
  BY TableKept DEF RoomsAuthenticated, Rejoin, tableVars
<1>2. /\ Len(s) \in Nat /\ DOMAIN s = 1 .. Len(s)
      /\ \A n \in DOMAIN s : s[n] \in AllRooms /\ s[n] \in WidgetRooms
  <2>1. /\ Len(s) \in Nat /\ DOMAIN s = 1 .. Len(s)
        /\ \A n \in DOMAIN s : s[n] \in AllRooms /\ roomKeys[s[n]] \in {"JOINER"}
    BY RejoiningTyped
  <2> QED BY <2>1 DEF RoomInv, ClaimsSafe
<1>3. toGateway' = [n \in DOMAIN s |-> [kind |-> "JOINED", room |-> s[n]]]
  BY DEF RoomsAuthenticated, Rejoin
<1> HIDE DEF s
<1>4. \A n \in 1 .. Len(s) : [kind |-> "JOINED", room |-> s[n]] \in SafeFrames
  BY <1>2, SafeKinds
<1>5. toGateway' \in Seq(SafeFrames)
  BY <1>2, <1>3, <1>4
<1> QED BY <1>1, <1>5
        DEF RoomsAuthenticated, Rejoin, RoomInv, GatewayTyped, ClaimsSafe, CreatorSlotsFree,
            roomGatewayVars

-----------------------------------------------------------------------------
LEMMA RoomInvInit == RoomInit => RoomInv
<1> SUFFICES ASSUME RoomInit PROVE RoomInv
  OBVIOUS
<1>1. <<>> \in Seq(SafeFrames) /\ <<>> \in Seq(SafeNotices) /\ MaxEvents \in 0 .. MaxEvents
      /\ 0 \in 0 .. MaxRooms /\ \A n \in 1 .. 0 : FALSE
  BY RoomsAssumption
<1>2. GatewayTyped
  BY <1>1 DEF RoomInit, GatewayTyped, Tags
<1>3. ClaimsSafe /\ CreatorSlotsFree
  BY <1>1 DEF RoomInit, ClaimsSafe, CreatorSlotsFree, AllRooms
<1>4. TableOK /\ KeysOK
  BY <1>1 DEF RoomInit, TableOK, TableTyped, Unique, KeysOK, Tracked
<1> QED BY <1>2, <1>3, <1>4 DEF RoomInv

LEMMA RoomInvStep == RoomInv /\ [RoomNext]_roomVars => RoomInv'
<1> SUFFICES ASSUME RoomInv, [RoomNext]_roomVars PROVE RoomInv'
  OBVIOUS
<1>1. CASE UNCHANGED roomVars
  <2>1. TableOK' /\ KeysOK'
    BY <1>1, TableKept DEF roomVars, tableVars
  <2> QED BY <1>1, <2>1
          DEF roomVars, roomGatewayVars, roomLinkVars, RoomInv, GatewayTyped, ClaimsSafe, CreatorSlotsFree
<1> QED BY <1>1, EnvironmentStep, GatewayHandlesStep, RoomRequestedStep, RoomOverStep,
           VisitorEndStep, VisitorRegisterStep, VisitorForgetStep, OpenOwnRoomStep,
           KeepHandleStep, LoseSocketStep, RoomsAuthenticatedStep DEF RoomNext

LEMMA RoomInvAlways == RoomSpec => [](RoomTypeOK /\ RoomsAgree /\ CreatorSlotsFree)
  BY RoomInvInit, RoomInvStep, InvImplies, PTL DEF RoomSpec

(* The table of rooms stays within BOT_MAX_ROOMS (remember_room) and all   *)
(* else has its type.                                                      *)
THEOREM RoomsAlwaysTyped == RoomSpec => []RoomTypeOK
  BY RoomInvAlways, PTL

(* Key store and table agree at every moment (client.c, bot.c): no room is *)
(* in the table twice or without its key, whatever is registered, ended,   *)
(* forgotten or lost.                                                      *)
THEOREM RoomsAlwaysAgree == RoomSpec => []RoomsAgree
  BY RoomInvAlways, PTL

(* evergram_rooms_rejoin never takes the joiner slot of a room this client *)
(* created (client.c 2954).                                                *)
THEOREM CreatorSlotsAlwaysFree == RoomSpec => []CreatorSlotsFree
  BY RoomInvAlways, PTL

-----------------------------------------------------------------------------
(* Claims.  While the client is online, a room it is the joiner of has its *)
(* claim standing at the gateway or on the way there, with nothing behind  *)
(* it on the way that would end the room; or its end is being told.        *)

Claim(r)  == [kind |-> "JOINED", room |-> r]
Ending(r) == [kind |-> "END", room |-> r]

NotEnded(r, k)  == \A m \in DOMAIN toGateway : m > k => toGateway[m] # Ending(r)
ClaimOnItsWay(r) == \E k \in DOMAIN toGateway : toGateway[k] = Claim(r) /\ NotEnded(r, k)
ClaimHeld(r)    == holder[r] = "here" /\ NotEnded(r, 0)
EndTold(r)      == \E k \in DOMAIN toClient : toClient[k].room = r /\ toClient[k].kind # "requested"

ClaimStands(r) == r \in unclaimed \/ EndTold(r) \/ ClaimOnItsWay(r) \/ ClaimHeld(r)
ClaimsStand == online => \A r \in AllRooms : roomKeys[r] = "JOINER" => ClaimStands(r)

ClaimInv == RoomInv /\ ClaimsStand

LEMMA ClaimsStandReclaimed == ClaimInv => Reclaimed
<1> SUFFICES ASSUME ClaimInv, online, toGateway = <<>>, toClient = <<>>,
                    NEW r \in existing, roomKeys[r] = "JOINER"
             PROVE  holder[r] = "here" \/ r \in unclaimed
  BY DEF Reclaimed
<1>1. r \in AllRooms
  BY DEF ClaimInv, RoomInv, GatewayTyped
<1>2. ClaimStands(r)
  BY <1>1 DEF ClaimInv, ClaimsStand
<1> QED BY <1>2 DEF ClaimStands, EndTold, ClaimOnItsWay, ClaimHeld

(* What an append and a removal at the head do to the places of a queue.   *)
LEMMA Appended ==
    ASSUME NEW S, NEW s \in Seq(S), NEW x
    PROVE  /\ Len(s) \in Nat /\ DOMAIN s = 1 .. Len(s)
           /\ DOMAIN Append(s, x) = 1 .. (Len(s) + 1)
           /\ \A k \in DOMAIN s : Append(s, x)[k] = s[k]
           /\ Append(s, x)[Len(s) + 1] = x
  OBVIOUS

LEMMA Behead ==
    ASSUME NEW S, NEW s \in Seq(S), s # <<>>
    PROVE  /\ Len(s) \in Nat /\ DOMAIN s = 1 .. Len(s) /\ 1 \in DOMAIN s /\ Head(s) = s[1]
           /\ \A k \in DOMAIN Tail(s) : k \in Nat /\ k >= 1 /\ k + 1 \in DOMAIN s /\ Tail(s)[k] = s[k + 1]
           /\ \A k \in DOMAIN s : k # 1 => k - 1 \in DOMAIN Tail(s) /\ Tail(s)[k - 1] = s[k]
  OBVIOUS

LEMMA QueuesAreSequences ==
    ASSUME RoomInv
    PROVE  toGateway \in Seq(SafeFrames) /\ toClient \in Seq(SafeNotices)
  BY DEF RoomInv, ClaimsSafe

(* The end of a room is told until its notice is taken.                    *)
LEMMA EndStaysTold ==
    ASSUME RoomInv, NEW r \in AllRooms, EndTold(r)
    PROVE  /\ \A x : toClient' = Append(toClient, x) => EndTold(r)'
           /\ toClient' = toClient => EndTold(r)'
           /\ toClient # <<>> /\ toClient' = Tail(toClient)
                 /\ (Head(toClient).kind = "requested" \/ Head(toClient).room # r)
              => EndTold(r)'
<1>1. PICK k \in DOMAIN toClient : toClient[k].room = r /\ toClient[k].kind # "requested"
  BY DEF EndTold
<1>2. ASSUME NEW x, toClient' = Append(toClient, x)
      PROVE  EndTold(r)'
  <2>1. k \in DOMAIN toClient' /\ toClient'[k] = toClient[k]
    BY <1>2, QueuesAreSequences, Appended
  <2> QED BY <1>1, <2>1 DEF EndTold
<1>3. ASSUME toClient # <<>>, toClient' = Tail(toClient),
             Head(toClient).kind = "requested" \/ Head(toClient).room # r
      PROVE  EndTold(r)'
  <2>1. k # 1 /\ k - 1 \in DOMAIN toClient' /\ toClient'[k - 1] = toClient[k]
    BY <1>1, <1>3, QueuesAreSequences, Behead
  <2> QED BY <1>1, <2>1 DEF EndTold
<1> QED BY <1>1, <1>2, <1>3 DEF EndTold

LEMMA EndGetsTold ==
    ASSUME RoomInv, NEW r, NEW kind, kind # "requested",
           toClient' = Append(toClient, [kind |-> kind, room |-> r])
    PROVE  EndTold(r)'
<1>1. /\ Len(toClient) + 1 \in DOMAIN toClient'
      /\ toClient'[Len(toClient) + 1] = [kind |-> kind, room |-> r]
  BY QueuesAreSequences, Appended
<1> QED BY <1>1 DEF EndTold

(* A claim in flight, or held, outlives frames that do not end its room.   *)
LEMMA ClaimStaysOnItsWay ==
    ASSUME RoomInv, NEW r \in AllRooms, ClaimOnItsWay(r)
    PROVE  /\ \A x : x # Ending(r) /\ toGateway' = Append(toGateway, x) => ClaimOnItsWay(r)'
           /\ toGateway' = toGateway => ClaimOnItsWay(r)'
           /\ toGateway # <<>> /\ toGateway' = Tail(toGateway) /\ Head(toGateway) # Claim(r)
              => ClaimOnItsWay(r)'
           /\ toGateway # <<>> /\ toGateway' = Tail(toGateway) /\ Head(toGateway) = Claim(r)
              => (ClaimOnItsWay(r) \/ NotEnded(r, 0))'
<1>1. PICK k \in DOMAIN toGateway : toGateway[k] = Claim(r) /\ NotEnded(r, k)
  BY DEF ClaimOnItsWay
<1>2. ASSUME NEW x, x # Ending(r), toGateway' = Append(toGateway, x)
      PROVE  ClaimOnItsWay(r)'
  <2>1. k \in DOMAIN toGateway' /\ toGateway'[k] = toGateway[k]
    BY <1>2, QueuesAreSequences, Appended
  <2>2. ASSUME NEW m \in DOMAIN toGateway', m > k
        PROVE  toGateway'[m] # Ending(r)
    <3>1. /\ m \in DOMAIN toGateway => toGateway'[m] = toGateway[m]
          /\ m \notin DOMAIN toGateway => toGateway'[m] = x
      BY <1>2, QueuesAreSequences, Appended
    <3> QED BY <1>1, <1>2, <2>2, <3>1 DEF NotEnded
  <2> QED BY <1>1, <2>1, <2>2 DEF ClaimOnItsWay, NotEnded, Claim, Ending
<1>3. ASSUME toGateway # <<>>, toGateway' = Tail(toGateway)
      PROVE  IF k = 1 THEN Head(toGateway) = Claim(r) /\ NotEnded(r, 0)' ELSE ClaimOnItsWay(r)'
  <2>0. k \in Nat /\ k >= 1
    BY QueuesAreSequences, Appended
  <2>1. ASSUME NEW m \in DOMAIN toGateway', m > k - 1
        PROVE  toGateway'[m] # Ending(r)
    <3>1. m \in Nat /\ m + 1 \in DOMAIN toGateway /\ toGateway'[m] = toGateway[m + 1]
      BY <1>3, QueuesAreSequences, Behead
    <3>2. m + 1 > k
      BY <2>0, <2>1, <3>1
    <3> QED BY <1>1, <3>1, <3>2 DEF NotEnded
  <2>2. CASE k = 1
    <3>1. Head(toGateway) = Claim(r)
      BY <1>1, <1>3, <2>2, QueuesAreSequences, Behead
    <3>2. NotEnded(r, 0)'
      BY <2>1, <2>2 DEF NotEnded, Ending
    <3> QED BY <2>2, <3>1, <3>2
  <2>3. CASE k # 1
    <3>1. k - 1 \in DOMAIN toGateway' /\ toGateway'[k - 1] = Claim(r)
      BY <1>1, <1>3, <2>3, QueuesAreSequences, Behead
    <3> QED BY <2>1, <2>3, <3>1 DEF ClaimOnItsWay, NotEnded, Ending, Claim
  <2> QED BY <2>2, <2>3
<1> QED BY <1>1, <1>2, <1>3 DEF ClaimOnItsWay, NotEnded, Claim, Ending

LEMMA ClaimStaysHeld ==
    ASSUME RoomInv, NEW r \in AllRooms, ClaimHeld(r)
    PROVE  /\ \A x : x # Ending(r) /\ toGateway' = Append(toGateway, x) => NotEnded(r, 0)'
           /\ toGateway' = toGateway => NotEnded(r, 0)'
           /\ toGateway # <<>> /\ toGateway' = Tail(toGateway)
              => NotEnded(r, 0)' /\ Head(toGateway) # Ending(r)
<1>1. \A m \in DOMAIN toGateway : toGateway[m] # Ending(r)
  BY QueuesAreSequences, Appended DEF ClaimHeld, NotEnded
<1>2. ASSUME NEW x, x # Ending(r), toGateway' = Append(toGateway, x)
      PROVE  NotEnded(r, 0)'
  <2>1. \A m \in DOMAIN toGateway' : \/ toGateway'[m] = toGateway[m] /\ m \in DOMAIN toGateway
                                     \/ toGateway'[m] = x
    BY <1>2, QueuesAreSequences, Appended
  <2> QED BY <1>1, <1>2, <2>1 DEF NotEnded, Ending
<1>3. ASSUME toGateway # <<>>, toGateway' = Tail(toGateway)
      PROVE  NotEnded(r, 0)' /\ Head(toGateway) # Ending(r)
  <2>1. /\ \A m \in DOMAIN toGateway' : m + 1 \in DOMAIN toGateway /\ toGateway'[m] = toGateway[m + 1]
        /\ 1 \in DOMAIN toGateway /\ Head(toGateway) = toGateway[1]
    BY <1>3, QueuesAreSequences, Behead
  <2> QED BY <1>1, <2>1 DEF NotEnded, Ending
<1> QED BY <1>1, <1>2, <1>3 DEF NotEnded, Ending

(* A claim stands as long as neither the frames nor the notices that move  *)
(* end the room, and its slot is not given up.                             *)
LEMMA ClaimKept ==
    ASSUME RoomInv, NEW r \in AllRooms, ClaimStands(r), unclaimed \subseteq unclaimed',
           \/ toClient' = toClient
           \/ \E x : toClient' = Append(toClient, x)
           \/ /\ toClient # <<>> /\ toClient' = Tail(toClient)
              /\ Head(toClient).kind = "requested" \/ Head(toClient).room # r,
           \/ toGateway' = toGateway
           \/ \E x : x # Ending(r) /\ toGateway' = Append(toGateway, x),
           holder[r] = "here" => holder'[r] = "here" \/ EndTold(r)'
    PROVE  ClaimStands(r)'
<1>1. EndTold(r) => EndTold(r)'
  BY EndStaysTold
<1>2. ClaimOnItsWay(r) => ClaimOnItsWay(r)'
  BY ClaimStaysOnItsWay
<1>3. ClaimHeld(r) => ClaimHeld(r)' \/ EndTold(r)'
  BY ClaimStaysHeld DEF ClaimHeld
<1> QED BY <1>1, <1>2, <1>3 DEF ClaimStands

LEMMA EnvironmentClaims ==
    ASSUME ClaimInv, NEW r \in AllRooms,
           VisitorOpens(r) \/ ClaimedByOtherDevice(r) \/ RoomEnds(r)
    PROVE  ClaimsStand'
<1> SUFFICES ASSUME online', NEW q \in AllRooms, roomKeys'[q] = "JOINER"
             PROVE  ClaimStands(q)'
  BY DEF ClaimsStand
<1>1. /\ online' = online /\ roomKeys' = roomKeys /\ unclaimed' = unclaimed
      /\ toGateway' = toGateway
      /\ toClient' = toClient \/ \E x : toClient' = Append(toClient, x)
  BY DEF VisitorOpens, ClaimedByOtherDevice, RoomEnds, roomLinkVars
<1>2. ClaimStands(q) /\ RoomInv
  BY <1>1 DEF ClaimInv, ClaimsStand
<1>3. ASSUME holder[q] = "here"
      PROVE  holder'[q] = "here" \/ EndTold(q)'
  <2>1. CASE q = r /\ RoomEnds(r)
    <3>1. PICK kind \in {"CHANNEL_KICKED", "END", "timed_out"} :
             toClient' = Append(toClient, [kind |-> kind, room |-> r])
      BY <1>1, <1>3, <2>1 DEF RoomEnds
    <3> QED BY <1>2, <2>1, <3>1, EndGetsTold
  <2>2. CASE ~(q = r /\ RoomEnds(r))
    BY <1>2, <1>3, <2>2
       DEF VisitorOpens, ClaimedByOtherDevice, RoomEnds, RoomInv, GatewayTyped
  <2> QED BY <2>1, <2>2
<1> QED BY <1>1, <1>2, <1>3, ClaimKept

LEMMA GatewayHandlesClaims ==
    ASSUME ClaimInv, GatewayHandles
    PROVE  ClaimsStand'
<1> SUFFICES ASSUME online', NEW q \in AllRooms, roomKeys'[q] = "JOINER"
             PROVE  ClaimStands(q)'
  BY DEF ClaimsStand
<1> DEFINE f == Head(toGateway)
<1>1. /\ ClaimStands(q) /\ RoomInv /\ unclaimed' = unclaimed
      /\ toGateway # <<>> /\ toGateway' = Tail(toGateway) /\ f \in SafeFrames
      /\ holder \in [AllRooms -> {"nobody", "here", "elsewhere"}]
  BY Queues, QueuesAreSequences
     DEF GatewayHandles, ClaimInv, ClaimsStand, RoomInv, GatewayTyped
<1>2. f.room \in AllRooms /\ f \in {Claim(f.room), Ending(f.room)}
  BY <1>1 DEF SafeFrames, RelayFrames, Claim, Ending
<1>3. EndTold(q) => EndTold(q)'
  <2>1. toClient' = toClient \/ \E x : toClient' = Append(toClient, x)
    BY DEF GatewayHandles
  <2> QED BY <1>1, <2>1, EndStaysTold
<1>4. CASE ClaimOnItsWay(q)
  <2>1. CASE f # Claim(q)
    BY <1>1, <1>4, <2>1, ClaimStaysOnItsWay DEF ClaimStands
  <2>2. CASE f = Claim(q)
    <3>1. f.kind = "JOINED" /\ f.room = q
      BY <2>2 DEF Claim
    <3>2. CASE q \in existing /\ holder[q] # "elsewhere"
      <4>1. holder'[q] = "here"
        BY <1>1, <3>1, <3>2 DEF GatewayHandles
      <4>2. ClaimOnItsWay(q)' \/ NotEnded(q, 0)'
        BY <1>1, <1>4, <2>2, ClaimStaysOnItsWay
      <4> QED BY <4>1, <4>2 DEF ClaimStands, ClaimHeld
    <3>3. CASE ~(q \in existing /\ holder[q] # "elsewhere")
      <4>1. \E kind \in {"CLAIMED_ELSEWHERE", "END"} :
               toClient' = Append(toClient, [kind |-> kind, room |-> q])
        BY <3>1, <3>3 DEF GatewayHandles
      <4> QED BY <1>1, <4>1, EndGetsTold DEF ClaimStands
    <3> QED BY <3>2, <3>3
  <2> QED BY <2>1, <2>2
<1>5. CASE ClaimHeld(q)
  <2>1. NotEnded(q, 0)' /\ f # Ending(q)
    BY <1>1, <1>5, ClaimStaysHeld
  <2>2. holder'[q] = "here"
    <3>1. holder[q] = "here"
      BY <1>5 DEF ClaimHeld
    <3>2. f.kind = "END" => f.room # q
      BY <1>2, <2>1 DEF Claim, Ending
    <3> QED BY <1>1, <3>1, <3>2 DEF GatewayHandles
  <2> QED BY <2>1, <2>2 DEF ClaimStands, ClaimHeld
<1>6. CASE q \in unclaimed
  BY <1>1, <1>6 DEF ClaimStands
<1> QED BY <1>1, <1>3, <1>4, <1>5, <1>6 DEF ClaimStands

LEMMA RoomRequestedClaims ==
    ASSUME ClaimInv, RoomRequested
    PROVE  ClaimsStand'
<1> SUFFICES ASSUME online', NEW q \in AllRooms, roomKeys'[q] = "JOINER"
             PROVE  ClaimStands(q)'
  BY DEF ClaimsStand
<1>1. /\ RoomInv /\ online' = online /\ unclaimed' = unclaimed /\ holder' = holder
      /\ toClient # <<>> /\ toClient' = Tail(toClient) /\ Head(toClient).kind = "requested"
      /\ Told \in AllRooms
  BY ToldSafe DEF RoomRequested, roomGatewayVars, ClaimInv, Notice
<1>2. CASE roomKeys' = [roomKeys EXCEPT ![Told] = "JOINER"]
           /\ toGateway' = Append(toGateway, Claim(Told))
  <2>1. CASE q = Told
    <3>1. /\ Len(toGateway) + 1 \in DOMAIN toGateway' /\ toGateway'[Len(toGateway) + 1] = Claim(q)
          /\ \A m \in DOMAIN toGateway' : ~(m > Len(toGateway) + 1)
      BY <1>1, <1>2, <2>1, QueuesAreSequences, Appended
    <3>2. ClaimOnItsWay(q)'
      BY <3>1 DEF ClaimOnItsWay, NotEnded, Claim
    <3> QED BY <3>2 DEF ClaimStands
  <2>2. CASE q # Told
    <3>1. roomKeys[q] = "JOINER"
      BY <1>1, <1>2, <2>2 DEF RoomInv, GatewayTyped
    <3>2. ClaimStands(q) /\ Claim(Told) # Ending(q)
      BY <1>1, <3>1 DEF ClaimInv, ClaimsStand, Claim, Ending
    <3> QED BY <1>1, <1>2, <3>2, ClaimKept
  <2> QED BY <2>1, <2>2
<1>3. CASE UNCHANGED <<roomKeys, toGateway>>
  <2>1. ClaimStands(q)
    BY <1>1, <1>3 DEF ClaimInv, ClaimsStand
  <2> QED BY <1>1, <1>3, <2>1, ClaimKept
<1> QED BY <1>2, <1>3 DEF RoomRequested, Claim

LEMMA RoomOverClaims ==
    ASSUME ClaimInv, RoomOver
    PROVE  ClaimsStand'
<1> SUFFICES ASSUME online', NEW q \in AllRooms, roomKeys'[q] = "JOINER"
             PROVE  ClaimStands(q)'
  BY DEF ClaimsStand
<1>1. /\ RoomInv /\ online' = online /\ unclaimed' = unclaimed \ {Told} /\ holder' = holder
      /\ toClient # <<>> /\ toClient' = Tail(toClient) /\ Told = Head(toClient).room
      /\ toGateway' = toGateway /\ Told \in AllRooms
  BY ToldSafe DEF RoomOver, roomGatewayVars, ClaimInv, Notice, Told
<1>2. q # Told /\ roomKeys[q] = "JOINER"
  BY <1>1 DEF RoomOver, RoomInv, GatewayTyped
<1>3. ClaimStands(q)
  BY <1>1, <1>2 DEF ClaimInv, ClaimsStand
<1>4. EndTold(q) => EndTold(q)'
  BY <1>1, <1>2, EndStaysTold
<1>5. (ClaimOnItsWay(q) => ClaimOnItsWay(q)') /\ (ClaimHeld(q) => ClaimHeld(q)')
  BY <1>1, ClaimStaysOnItsWay, ClaimStaysHeld DEF ClaimHeld
<1> QED BY <1>1, <1>2, <1>3, <1>4, <1>5 DEF ClaimStands

LEMMA VisitorEndClaims ==
    ASSUME ClaimInv, NEW r \in AllRooms, VisitorEnd(r)
    PROVE  ClaimsStand'
<1> SUFFICES ASSUME online', NEW q \in AllRooms, roomKeys'[q] = "JOINER"
             PROVE  ClaimStands(q)'
  BY DEF ClaimsStand
<1>1. /\ RoomInv /\ online' = online /\ unclaimed' = unclaimed \ {r} /\ holder' = holder
      /\ toClient' = toClient /\ toGateway' = Append(toGateway, Ending(r))
  BY DEF VisitorEnd, roomGatewayVars, ClaimInv, Ending
<1>2. q # r /\ roomKeys[q] = "JOINER"
  BY <1>1 DEF VisitorEnd, RoomInv, GatewayTyped
<1>3. ClaimStands(q) /\ Ending(r) # Ending(q)
  BY <1>1, <1>2 DEF ClaimInv, ClaimsStand, Ending
<1>4. EndTold(q) => EndTold(q)'
  BY <1>1, EndStaysTold
<1>5. (ClaimOnItsWay(q) => ClaimOnItsWay(q)') /\ (ClaimHeld(q) => ClaimHeld(q)')
  BY <1>1, <1>3, ClaimStaysOnItsWay, ClaimStaysHeld DEF ClaimHeld
<1> QED BY <1>1, <1>2, <1>3, <1>4, <1>5 DEF ClaimStands

(* The application's other steps move no frame and no notice.              *)
LEMMA ApplicationClaims ==
    ASSUME ClaimInv, NEW r \in AllRooms,
           VisitorRegister(r) \/ VisitorForget(r) \/ OpenOwnRoom(r) \/ KeepHandle(r)
    PROVE  ClaimsStand'
<1> SUFFICES ASSUME online', NEW q \in AllRooms, roomKeys'[q] = "JOINER"
             PROVE  ClaimStands(q)'
  BY DEF ClaimsStand
<1>1. /\ RoomInv /\ online' = online /\ unclaimed \subseteq unclaimed' /\ holder' = holder
      /\ toClient' = toClient /\ toGateway' = toGateway
  BY DEF VisitorRegister, VisitorForget, OpenOwnRoom, KeepHandle, roomGatewayVars, roomLinkVars,
         ClaimInv
<1>2. roomKeys[q] = "JOINER" \/ q \in unclaimed'
  BY <1>1 DEF VisitorRegister, VisitorForget, OpenOwnRoom, KeepHandle, RoomInv, GatewayTyped
<1>3. CASE roomKeys[q] = "JOINER"
  <2>1. ClaimStands(q)
    BY <1>1, <1>3 DEF ClaimInv, ClaimsStand
  <2> QED BY <1>1, <2>1, ClaimKept
<1>4. CASE q \in unclaimed'
  BY <1>4 DEF ClaimStands
<1> QED BY <1>2, <1>3, <1>4

LEMMA RoomsAuthenticatedClaims ==
    ASSUME ClaimInv, RoomsAuthenticated
    PROVE  ClaimsStand'
<1> DEFINE s == Rejoining({"JOINER"})
<1> SUFFICES ASSUME NEW q \in AllRooms, roomKeys'[q] = "JOINER"
             PROVE  ClaimStands(q)'
  BY DEF ClaimsStand
<1>1. toGateway' = [n \in DOMAIN s |-> Claim(s[n])] /\ roomKeys' = roomKeys
  BY DEF RoomsAuthenticated, Rejoin, Claim
<1>2. PICK n \in DOMAIN s : s[n] = q
  BY <1>1, RejoiningCovers
<1> HIDE DEF s
<1>3. n \in DOMAIN toGateway' /\ toGateway'[n] = Claim(q)
  BY <1>1, <1>2
<1>4. \A m \in DOMAIN toGateway' : toGateway'[m] # Ending(q)
  BY <1>1 DEF Claim, Ending
<1>5. ClaimOnItsWay(q)'
  BY <1>3, <1>4 DEF ClaimOnItsWay, NotEnded, Claim, Ending
<1> QED BY <1>5 DEF ClaimStands

LEMMA ClaimInvStep == ClaimInv /\ [RoomNext]_roomVars => ClaimInv'
<1> SUFFICES ASSUME ClaimInv, [RoomNext]_roomVars PROVE ClaimsStand'
  BY RoomInvStep DEF ClaimInv
<1>1. CASE UNCHANGED roomVars
  BY <1>1 DEF roomVars, roomGatewayVars, roomLinkVars, ClaimInv, ClaimsStand, ClaimStands,
              EndTold, ClaimOnItsWay, ClaimHeld, NotEnded, Claim, Ending
<1>2. CASE LoseSocket
  BY <1>2 DEF LoseSocket, ClaimsStand
<1> QED BY <1>1, <1>2, EnvironmentClaims, GatewayHandlesClaims, RoomRequestedClaims, RoomOverClaims,
           VisitorEndClaims, ApplicationClaims, RoomsAuthenticatedClaims DEF RoomNext

(* client.c 2954: once nothing is in flight, this client holds the slot of *)
(* every open room it is the joiner of, whatever the last connection lost. *)
THEOREM RoomsAlwaysReclaimed == RoomSpec => []Reclaimed
<1>1. RoomInit => ClaimInv
  BY RoomInvInit DEF ClaimInv, ClaimsStand, RoomInit
<1> QED BY <1>1, ClaimInvStep, ClaimsStandReclaimed, PTL DEF RoomSpec

-----------------------------------------------------------------------------
(* The identity file.                                                      *)

(* Who is saving: the temporary file is whole before it is renamed, and a  *)
(* record is on its way out only after it could not be read.               *)
SavingInv ==
    /\ doing = "rename" => temporary = Record("full", identity)
    /\ doing \in {"open", "write", "rename", "unlink"} => (Holds(path) => misread)
    /\ doing \in {"open", "write", "rename", "unlink", "running"} => identity \in Identities
    /\ doing = "unlink" => unsaved

IdentityInv == IdentityTypeOK /\ SavingInv /\ RunsAsSaved

LEMMA RecordsHold ==
    /\ Absent \in Contents /\ Damaged \in Contents /\ ~Holds(Absent) /\ ~Holds(Damaged)
    /\ \A f \in {"full", "older"}, id \in Identities :
          Record(f, id) \in Contents /\ Holds(Record(f, id)) /\ Record(f, id).id = id
    /\ \A c \in Contents : Holds(c) => c.id \in Identities
<1>1. \A f \in {"full", "older"}, id \in Identities :
         Record(f, id) # Absent /\ Record(f, id) # Damaged /\ Record(f, id).id = id
  <2> SUFFICES ASSUME NEW f \in {"full", "older"}, NEW id \in Identities
               PROVE  Record(f, id) # Absent /\ Record(f, id) # Damaged /\ Record(f, id).id = id
    OBVIOUS
  <2>1. /\ Record(f, id).form \notin {"absent", "damaged"} /\ Record(f, id).id = id
        /\ Absent.form = "absent" /\ Damaged.form = "damaged"
    BY DEF Record, Absent, Damaged
  <2> QED BY <2>1
<1> QED BY <1>1 DEF Contents, Holds

LEMMA IdentityInitInv == IdentityInit => IdentityInv
<1> SUFFICES ASSUME IdentityInit PROVE IdentityInv
  OBVIOUS
<1>1. 1 \in Identities /\ 0 \in 0 .. MaxIdentities /\ 1 \in 0 .. MaxIdentities
      /\ MaxMishaps \in 0 .. MaxMishaps
  BY IdentityFileAssumption DEF Identities
<1>2. path \in Contents /\ temporary \in Contents
  BY <1>1, RecordsHold DEF IdentityInit
<1>3. IdentityTypeOK
  BY <1>1, <1>2 DEF IdentityInit, IdentityTypeOK
<1> QED BY <1>3 DEF IdentityInit, IdentityInv, SavingInv, RunsAsSaved

LEMMA IdentityStep ==
    ASSUME IdentityInv, [IdentityNext]_identityVars
    PROVE  /\ IdentityInv'
           /\ path' # path => path' = Record("full", identity) /\ (Holds(path) => misread)
<1>1. /\ IdentityTypeOK /\ SavingInv /\ RunsAsSaved
      /\ \A id \in Identities : id \in 0 .. MaxIdentities
  BY IdentityFileAssumption DEF IdentityInv, Identities
<1>2. \A n \in 0 .. MaxMishaps : n > 0 => n - 1 \in 0 .. MaxMishaps
  BY IdentityFileAssumption
<1>3. CASE Starts
  BY <1>1, <1>3 DEF Starts, IdentityInv, IdentityTypeOK, SavingInv, RunsAsSaved
<1>4. CASE Killed
  BY <1>1, <1>2, <1>4, IdentityFileAssumption
     DEF Killed, Mishap, IdentityInv, IdentityTypeOK, SavingInv, RunsAsSaved
<1>5. CASE Load
  <2>1. path.id \in Identities /\ Holds(path)
    BY <1>1, <1>5, RecordsHold DEF Load, Usable, IdentityTypeOK
  <2> QED BY <1>1, <1>5, <2>1 DEF Load, IdentityInv, IdentityTypeOK, SavingInv, RunsAsSaved
<1>6. CASE Generate
  <2>1. generated' \in Identities /\ generated' \in 0 .. MaxIdentities
    BY <1>1, <1>6, IdentityFileAssumption DEF Generate, IdentityTypeOK, Identities
  <2>2. mishaps' \in 0 .. MaxMishaps /\ misread' \in BOOLEAN /\ (Holds(path) => misread')
    BY <1>1, <1>2, <1>6 DEF Generate, Mishap, Usable, IdentityTypeOK
  <2> QED BY <1>1, <1>6, <2>1, <2>2 DEF Generate, IdentityInv, IdentityTypeOK, SavingInv, RunsAsSaved
<1>7. CASE OpenTemporary
  <2>1. temporary' \in Contents /\ mishaps' \in 0 .. MaxMishaps
    BY <1>1, <1>2, <1>7, RecordsHold DEF OpenTemporary, Mishap, IdentityTypeOK
  <2> QED BY <1>1, <1>7, <2>1 DEF OpenTemporary, IdentityInv, IdentityTypeOK, SavingInv, RunsAsSaved
<1>8. CASE WriteTemporary
  <2>1. temporary' \in Contents /\ mishaps' \in 0 .. MaxMishaps
    BY <1>1, <1>2, <1>8, RecordsHold DEF WriteTemporary, Mishap, IdentityTypeOK, SavingInv
  <2> QED BY <1>1, <1>8, <2>1 DEF WriteTemporary, IdentityInv, IdentityTypeOK, SavingInv, RunsAsSaved
<1>9. CASE RenameTemporary
  <2>1. temporary = Record("full", identity) /\ identity \in Identities
    BY <1>1, <1>9 DEF RenameTemporary, SavingInv
  <2>2. Holds(temporary) /\ temporary.id = identity
    BY <2>1, RecordsHold
  <2>3. /\ path' \in Contents /\ temporary' \in Contents /\ mishaps' \in 0 .. MaxMishaps
        /\ doing' \in {"running", "unlink"}
    BY <1>1, <1>2, <1>9, RecordsHold DEF RenameTemporary, Mishap, IdentityTypeOK
  <2> QED BY <1>1, <1>9, <2>1, <2>2, <2>3
          DEF RenameTemporary, IdentityInv, IdentityTypeOK, SavingInv, RunsAsSaved
<1>10. CASE UnlinkTemporary
  BY <1>1, <1>10, RecordsHold
     DEF UnlinkTemporary, IdentityInv, IdentityTypeOK, SavingInv, RunsAsSaved
<1>11. CASE UNCHANGED identityVars
  BY <1>1, <1>11 DEF identityVars, IdentityInv, IdentityTypeOK, SavingInv, RunsAsSaved
<1> QED BY <1>3, <1>4, <1>5, <1>6, <1>7, <1>8, <1>9, <1>10, <1>11 DEF IdentityNext

LEMMA IdentityInvAlways == IdentitySpec => []IdentityInv
<1>1. IdentityInv /\ [IdentityNext]_identityVars => IdentityInv'
  BY IdentityStep
<1> QED BY <1>1, IdentityInitInv, PTL DEF IdentitySpec

(* A running bot has the identity its file holds, unless saving it failed  *)
(* (bot_load_identity).                                                    *)
THEOREM AlwaysRunsAsSaved == IdentitySpec => []RunsAsSaved
<1>1. IdentityInv => RunsAsSaved
  BY DEF IdentityInv
<1> QED BY <1>1, IdentityInvAlways, PTL

(* The identity file is only ever replaced by a whole record               *)
(* (evergram_identity_save), and a record in it only after a failed load.  *)
THEOREM AlwaysReplacedWhole == IdentitySpec => ReplacedWhole
<1>1. IdentityInv /\ [IdentityNext]_identityVars
        => [path' # path => path' = Record("full", identity) /\ (Holds(path) => misread)]_path
  BY IdentityStep
<1> QED BY <1>1, IdentityInvAlways, PTL DEF IdentitySpec, ReplacedWhole

-----------------------------------------------------------------------------
(* The powers of two.  What the recursive definition stands for is proved  *)
(* from its tables: the first n powers.                                    *)

PowerTables(n) == {t \in [0 .. n -> Nat] : t[0] = 1 /\ \A k \in 1 .. n : t[k] = 2 * t[k - 1]}

LEMMA TablesExist == \A n \in Nat : PowerTables(n) # {}
<1> DEFINE S == {n \in Nat : PowerTables(n) # {}}
<1>1. 0 \in S
  <2>1. [k \in 0 .. 0 |-> 1] \in PowerTables(0)
    BY DEF PowerTables
  <2> QED BY <2>1
<1>2. ASSUME NEW n \in Nat, n \in S
      PROVE  n + 1 \in S
  <2>1. PICK t \in PowerTables(n) : TRUE
    BY <1>2
  <2> DEFINE u == [k \in 0 .. n + 1 |-> IF k = n + 1 THEN 2 * t[n] ELSE t[k]]
  <2>2. /\ t \in [0 .. n -> Nat] /\ t[0] = 1
        /\ \A k \in 1 .. n : t[k] = 2 * t[k - 1]
    BY <2>1 DEF PowerTables
  <2>3. t[n] \in Nat /\ \A k \in 0 .. n + 1 : k # n + 1 => k \in 0 .. n /\ t[k] \in Nat
    BY <2>2
  <2>4. u \in [0 .. n + 1 -> Nat] /\ u[0] = 1
    BY <2>2, <2>3
  <2>5. ASSUME NEW k \in 1 .. n + 1
        PROVE  u[k] = 2 * u[k - 1]
    <3>1. CASE k = n + 1
      BY <3>1
    <3>2. CASE k # n + 1
      <4>1. k \in 1 .. n /\ k - 1 # n + 1 /\ k \in 0 .. n + 1 /\ k - 1 \in 0 .. n + 1
        BY <3>2
      <4>2. u[k] = t[k] /\ u[k - 1] = t[k - 1]
        BY <3>2, <4>1
      <4> HIDE DEF u
      <4> QED BY <2>2, <4>1, <4>2
    <3> QED BY <3>1, <3>2
  <2>6. u \in PowerTables(n + 1)
    <3> HIDE DEF u
    <3> QED BY <2>4, <2>5 DEF PowerTables
  <2> QED BY <2>6
<1>3. \A n \in Nat : n \in S
  <2> HIDE DEF S
  <2> QED BY <1>1, <1>2, NatSetInduction
<1> QED BY <1>3

LEMMA TablesAgree ==
    ASSUME NEW n \in Nat, NEW m \in Nat, NEW t \in PowerTables(n), NEW u \in PowerTables(m),
           NEW k \in Nat, k <= n, k <= m
    PROVE  t[k] = u[k]
<1> DEFINE S == {j \in Nat : j <= n /\ j <= m => t[j] = u[j]}
<1>1. 0 \in S
  BY DEF PowerTables
<1>2. ASSUME NEW j \in Nat, j \in S
      PROVE  j + 1 \in S
  <2> SUFFICES ASSUME j + 1 <= n, j + 1 <= m PROVE t[j + 1] = u[j + 1]
    OBVIOUS
  <2>1. t[j] = u[j] /\ j + 1 \in 1 .. n /\ j + 1 \in 1 .. m /\ (j + 1) - 1 = j
    BY <1>2
  <2>2. t[j + 1] = 2 * t[(j + 1) - 1] /\ u[j + 1] = 2 * u[(j + 1) - 1]
    BY <2>1 DEF PowerTables
  <2> QED BY <2>1, <2>2
<1>3. \A j \in Nat : j \in S
  <2> HIDE DEF S
  <2> QED BY <1>1, <1>2, NatSetInduction
<1> QED BY <1>3

(* What the recursive definition stands for.                               *)
LEMMA PowersUnroll ==
    /\ PowersOfTwo[0] = 1
    /\ \A n \in Nat : PowersOfTwo[n + 1] = 2 * PowersOfTwo[n]
<1> DEFINE Table(n) == CHOOSE t : t \in PowerTables(n)
           f == [n \in Nat |-> Table(n)[n]]
           Body(g) == [n \in Nat |-> IF n = 0 THEN 1 ELSE 2 * g[n - 1]]
<1>1. \A n \in Nat : Table(n) \in PowerTables(n)
  BY TablesExist
<1> HIDE DEF Table
<1>2. f[0] = 1
  BY <1>1 DEF PowerTables
<1>3. ASSUME NEW n \in Nat, n # 0
      PROVE  f[n] = 2 * f[n - 1]
  <2>1. /\ n \in 1 .. n /\ n - 1 \in Nat /\ n - 1 <= n /\ n - 1 <= n - 1
        /\ Table(n) \in PowerTables(n) /\ Table(n - 1) \in PowerTables(n - 1)
    BY <1>1, <1>3
  <2>2. Table(n)[n] = 2 * Table(n)[n - 1]
    BY <2>1 DEF PowerTables
  <2>3. Table(n)[n - 1] = Table(n - 1)[n - 1]
    BY <2>1, TablesAgree
  <2> QED BY <2>1, <2>2, <2>3
<1>4. f = Body(f)
  <2>1. \A n \in Nat : f[n] = IF n = 0 THEN 1 ELSE 2 * f[n - 1]
    BY <1>2, <1>3
  <2>2. f = [n \in Nat |-> f[n]]
    OBVIOUS
  <2> HIDE DEF f
  <2> QED BY <2>1, <2>2
<1>5. PowersOfTwo = CHOOSE g : g = Body(g)
  BY DEF PowersOfTwo
<1> HIDE DEF f
<1>6. PowersOfTwo = Body(PowersOfTwo)
  <2> HIDE DEF Body
  <2> QED BY <1>4, <1>5
<1>7. \A n \in Nat : n + 1 # 0 /\ n + 1 \in Nat /\ (n + 1) - 1 = n
  OBVIOUS
<1>8. \A n \in Nat : PowersOfTwo[n] = IF n = 0 THEN 1 ELSE 2 * PowersOfTwo[n - 1]
  BY <1>6, Zenon
<1> QED BY <1>7, <1>8

LEMMA PowersTyped == \A n \in Nat : PowersOfTwo[n] \in Nat /\ PowersOfTwo[n] >= 1
<1> DEFINE S == {n \in Nat : PowersOfTwo[n] \in Nat /\ PowersOfTwo[n] >= 1}
<1>1. 0 \in S
  BY PowersUnroll
<1>2. ASSUME NEW n \in Nat, n \in S
      PROVE  n + 1 \in S
  <2>1. PowersOfTwo[n + 1] = 2 * PowersOfTwo[n]
    BY PowersUnroll
  <2> QED BY <1>2, <2>1
<1>3. \A n \in Nat : n \in S
  <2> HIDE DEF S
  <2> QED BY <1>1, <1>2, NatSetInduction
<1> QED BY <1>3

LEMMA PowersGrow ==
    ASSUME NEW n \in Nat, NEW m \in Nat, n <= m
    PROVE  PowersOfTwo[n] <= PowersOfTwo[m]
<1> DEFINE S == {k \in Nat : n <= k => PowersOfTwo[n] <= PowersOfTwo[k]}
<1>1. 0 \in S
  <2>1. n <= 0 => n = 0
    OBVIOUS
  <2> QED BY <2>1, PowersTyped
<1>2. ASSUME NEW k \in Nat, k \in S
      PROVE  k + 1 \in S
  <2>1. /\ PowersOfTwo[k + 1] = 2 * PowersOfTwo[k] /\ PowersOfTwo[n] \in Nat
        /\ PowersOfTwo[k] \in Nat /\ k + 1 \in Nat
    BY PowersUnroll, PowersTyped
  <2>2. CASE n = k + 1
    BY <2>1, <2>2
  <2>3. CASE n # k + 1
    BY <1>2, <2>1, <2>3
  <2> QED BY <2>2, <2>3
<1>3. \A k \in Nat : k \in S
  <2> HIDE DEF S
  <2> QED BY <1>1, <1>2, NatSetInduction
<1> QED BY <1>3

LEMMA Products ==
    ASSUME NEW a \in Nat, NEW b \in Nat, NEW c \in Nat
    PROVE  /\ a * b \in Nat /\ a * 1 = a /\ a * (2 * b) = 2 * (a * b)
           /\ b <= c => a * b <= a * c
  OBVIOUS

-----------------------------------------------------------------------------
(* The delay.                                                              *)

BackoffInv == BackoffTypeOK /\ DelayBounded /\ DelayFollows

(* The loop stops with the reference: after all doublings, or early, when  *)
(* the delay has reached the cap and no further doubling would change it.  *)
LEMMA LoopStops ==
    ASSUME BackoffInv, Cap
    PROVE  Least(delay, cap_ms) = Reference
<1>1. /\ attempt \in Nat /\ base_ms \in Nat /\ cap_ms \in Nat /\ i \in Nat /\ 1 <= i
      /\ i - 1 \in Nat /\ Doublings \in Nat
      /\ delay = base_ms * PowersOfTwo[i - 1] /\ (i = 1 \/ i <= attempt)
  BY WordsAssumption DEF Cap, BackoffInv, BackoffTypeOK, Uint32, DelayFollows, Doublings
<1>2. /\ PowersOfTwo[i - 1] \in Nat /\ PowersOfTwo[Doublings] \in Nat
      /\ base_ms * PowersOfTwo[i - 1] \in Nat /\ base_ms * PowersOfTwo[Doublings] \in Nat
  BY <1>1, PowersTyped, Products
<1>3. CASE i >= attempt
  <2>1. Doublings = i - 1
    BY <1>1, <1>3 DEF Doublings
  <2> QED BY <1>1, <2>1 DEF Reference
<1>4. CASE i < attempt /\ delay >= cap_ms
  <2>1. i - 1 <= Doublings
    BY <1>1, <1>4 DEF Doublings
  <2>2. PowersOfTwo[i - 1] <= PowersOfTwo[Doublings]
    BY <1>1, <2>1, PowersGrow
  <2>3. delay <= base_ms * PowersOfTwo[Doublings]
    BY <1>1, <1>2, <2>2, Products
  <2> QED BY <1>1, <1>2, <1>4, <2>3 DEF Reference, Least
<1> QED BY <1>1, <1>3, <1>4 DEF Cap

LEMMA BackoffStep ==
    ASSUME BackoffInv, [BackoffNext]_backoffVars
    PROVE  BackoffInv'
<1>1. /\ attempt \in Nat /\ base_ms \in Nat /\ cap_ms \in Nat /\ jitter_ms \in Nat
      /\ base_ms < Word32 /\ cap_ms < Word32 /\ jitter_ms < Word32 /\ attempt < Word32
      /\ i \in Nat /\ 1 <= i /\ delay \in Nat /\ Word32 \in Nat /\ Word64 \in Nat
      /\ 2 * Word32 <= Word64 /\ i <= Word32 /\ 0 < Word32
  BY WordsAssumption DEF BackoffInv, BackoffTypeOK, Uint32
<1>2. \A n, w \in Nat : n < w => n % w = n
  OBVIOUS
<1>3. CASE Double
  <2>1. 2 * delay < Word64 /\ 2 * delay < 2 * Word32 /\ 2 * delay \in Nat
    BY <1>1, <1>3 DEF Double
  <2>2. delay' = 2 * delay
    BY <1>1, <1>2, <1>3, <2>1 DEF Double
  <2>3. /\ i' \in 1 .. Word32 /\ delay' \in 0 .. Word64 - 1
        /\ calculating = "doubling" /\ calculating' = "doubling" /\ UNCHANGED argumentVars
    BY <1>1, <1>3, <2>1, <2>2 DEF Double
  <2>4. BackoffTypeOK'
    BY <2>3 DEF BackoffInv, BackoffTypeOK, argumentVars
  <2>5. Least(base_ms, cap_ms) <= delay' /\ delay' < 2 * Word32
    BY <1>1, <2>1, <2>2, <2>3 DEF BackoffInv, DelayBounded, Least
  <2>6. delay' = base_ms * PowersOfTwo[i' - 1] /\ i' <= attempt
    <3>1. i - 1 \in Nat /\ (i - 1) + 1 = i' - 1 /\ i' <= attempt
      BY <1>1, <1>3 DEF Double
    <3>2. PowersOfTwo[i - 1] \in Nat /\ PowersOfTwo[i' - 1] = 2 * PowersOfTwo[i - 1]
      BY <3>1, PowersUnroll, PowersTyped
    <3>3. delay = base_ms * PowersOfTwo[i - 1]
      BY <1>3 DEF Double, BackoffInv, DelayFollows
    <3> QED BY <1>1, <2>2, <3>1, <3>2, <3>3, Products
  <2> QED BY <2>3, <2>4, <2>5, <2>6
          DEF BackoffInv, DelayBounded, DelayFollows, DelayIsReference, argumentVars
<1>4. CASE Cap
  <2>1. /\ Least(delay, cap_ms) \in Nat /\ Least(delay, cap_ms) < Word32
        /\ Least(delay, cap_ms) <= cap_ms /\ Least(base_ms, cap_ms) <= Least(delay, cap_ms)
    BY <1>1, <1>4 DEF Least, Cap, BackoffInv, DelayBounded
  <2>2. delay' = Least(delay, cap_ms)
    BY <1>1, <1>2, <1>4, <2>1 DEF Cap
  <2>3. delay' \in 0 .. Word64 - 1
    BY <1>1, <2>1, <2>2
  <2>4. delay' = Reference
    BY <1>4, <2>2, LoopStops
  <2> QED BY <1>1, <1>4, <2>1, <2>2, <2>3, <2>4
          DEF Cap, BackoffInv, BackoffTypeOK, DelayBounded, DelayFollows, DelayIsReference,
              Reference, Doublings, argumentVars
<1>5. CASE AddJitter
  <2>1. /\ Least(base_ms, cap_ms) <= delay /\ delay <= cap_ms /\ delay = Reference
        /\ Least(base_ms, cap_ms) \in Nat
    BY <1>1, <1>5 DEF AddJitter, BackoffInv, DelayBounded, DelayFollows, Least
  <2>2. /\ delay <= delay' /\ delay' <= cap_ms /\ delay' \in Nat
        /\ delay' <= delay + (IF jitter_ms = 0 THEN 0 ELSE jitter_ms - 1)
    <3>1. CASE jitter_ms = 0 /\ UNCHANGED delay
      BY <1>1, <2>1, <3>1
    <3>2. CASE jitter_ms # 0
      <4>1. PICK jitter \in 0 .. jitter_ms - 1 :
               delay' = Least((delay + jitter) % Word64, cap_ms) % Word32
        BY <1>5, <3>2 DEF AddJitter
      <4>2. delay + jitter \in Nat /\ delay + jitter < Word64 /\ delay <= delay + jitter
        BY <1>1, <2>1
      <4>3. (delay + jitter) % Word64 = delay + jitter
        BY <1>1, <1>2, <4>2
      <4>4. /\ Least(delay + jitter, cap_ms) \in Nat /\ Least(delay + jitter, cap_ms) < Word32
            /\ Least(delay + jitter, cap_ms) <= cap_ms /\ delay <= Least(delay + jitter, cap_ms)
            /\ Least(delay + jitter, cap_ms) <= delay + jitter
        BY <1>1, <2>1, <4>2 DEF Least
      <4>5. delay' = Least(delay + jitter, cap_ms)
        BY <1>1, <1>2, <4>1, <4>3, <4>4
      <4> QED BY <1>1, <3>2, <4>1, <4>4, <4>5
    <3> QED BY <1>5, <3>1, <3>2 DEF AddJitter
  <2>3. delay' \in 0 .. Word64 - 1
    BY <1>1, <2>2
  <2>4. /\ calculating' = "nothing" /\ UNCHANGED <<attempt, base_ms, cap_ms, jitter_ms, i>>
    BY <1>5 DEF AddJitter, argumentVars
  <2>5. Reference' = Reference
    BY <2>4 DEF Reference, Doublings
  <2>6. Least(base_ms, cap_ms) <= delay'
    BY <1>1, <2>1, <2>2
  <2>7. BackoffTypeOK'
    BY <2>3, <2>4 DEF BackoffInv, BackoffTypeOK
  <2>8. DelayIsReference'
    BY <2>1, <2>2, <2>4, <2>5 DEF DelayIsReference
  <2> QED BY <2>2, <2>4, <2>6, <2>7, <2>8 DEF BackoffInv, DelayBounded, DelayFollows
<1>6. CASE UNCHANGED backoffVars
  BY <1>6 DEF backoffVars, argumentVars, BackoffInv, BackoffTypeOK, DelayBounded, DelayFollows,
              DelayIsReference, Reference, Doublings
<1> QED BY <1>3, <1>4, <1>5, <1>6 DEF BackoffNext

LEMMA BackoffInvAlways == BackoffSpec => []BackoffInv
<1>1. BackoffInit => BackoffInv
  <2> SUFFICES ASSUME BackoffInit PROVE BackoffInv
    OBVIOUS
  <2>1. BackoffTypeOK /\ DelayBounded
    BY WordsAssumption DEF BackoffInit, BackoffTypeOK, DelayBounded, Uint32, Least
  <2>2. base_ms \in Nat /\ 1 - 1 = 0 /\ base_ms * 1 = base_ms
    BY WordsAssumption DEF BackoffInit, Uint32
  <2>3. DelayFollows
    BY <2>2, PowersUnroll DEF BackoffInit, DelayFollows, DelayIsReference
  <2> QED BY <2>1, <2>3 DEF BackoffInv
<1>2. BackoffInv /\ [BackoffNext]_backoffVars => BackoffInv'
  BY BackoffStep
<1> QED BY <1>1, <1>2, PTL DEF BackoffSpec

(* Whatever the arguments, no doubling or sum overflows, and the delay     *)
(* lies between the smaller of base and cap, and the cap (backoff.c).      *)
THEOREM DelayAlwaysBounded == BackoffSpec => [](BackoffTypeOK /\ DelayBounded)
<1>1. BackoffInv => BackoffTypeOK /\ DelayBounded
  BY DEF BackoffInv
<1> QED BY <1>1, BackoffInvAlways, PTL

(* backoff.h: the loop that stops at the cap returns what base doubled     *)
(* attempt - 1 times and capped is, plus less than the jitter, for every   *)
(* argument of every width.                                                *)
THEOREM DelayAlwaysReference == BackoffSpec => []DelayIsReference
<1>1. BackoffInv => DelayIsReference
  BY DEF BackoffInv, DelayFollows
<1> QED BY <1>1, BackoffInvAlways, PTL

-----------------------------------------------------------------------------
(* The composition: what is not of the part that moves stays as it is.     *)

LEMMA PartsAreParts ==
    PartsSpec => RoomSpec /\ RxSpec /\ IdentitySpec /\ BackoffSpec /\ MailboxSpec
<1>1. PartsInit => RoomInit /\ RxInit /\ IdentityInit /\ BackoffInit /\ MailboxInit
  BY DEF PartsInit
<1>2. [PartsNext]_parts => /\ [RoomNext]_roomVars /\ [RxNext]_rxVars
                           /\ [IdentityNext]_identityVars /\ [BackoffNext]_backoffVars
                           /\ [MailboxNext]_mailboxVars
  BY DEF PartsNext, parts
<1> QED BY <1>1, <1>2, PTL
        DEF PartsSpec, RoomSpec, RxSpec, IdentitySpec, BackoffSpec, MailboxSpec

LEMMA EachPartTyped == PartsSpec => [](RoomTypeOK /\ RxTypeOK /\ IdentityTypeOK /\ BackoffTypeOK)
<1>1. IdentityInv => IdentityTypeOK
  BY DEF IdentityInv
<1> QED BY <1>1, PartsAreParts, RoomsAlwaysTyped, OffsetsAlwaysInOrder, IdentityInvAlways,
           DelayAlwaysBounded, PTL

(* Parts that share no state keep their types side by side.                *)
THEOREM PartsAlwaysTyped == PartsSpec => []PartsTypeOK
  BY EachPartTyped, PTL DEF PartsTypeOK

(* Each part's safety properties hold in their composition as they do of   *)
(* the part alone.                                                         *)
THEOREM PartsKeepTheirProperties ==
    PartsSpec => /\ [](RoomsAgree /\ Reclaimed /\ CreatorSlotsFree)
                 /\ [](FramesWhole /\ HandedInOrder) /\ ImplementsFrameQueue
                 /\ []RunsAsSaved /\ ReplacedWhole
                 /\ []DelayIsReference
                 /\ [](MailboxTypeOK /\ CapsHold /\ NothingLost)
  BY PartsAreParts, RoomsAlwaysAgree, RoomsAlwaysReclaimed, CreatorSlotsAlwaysFree,
     FramesAlwaysWhole, AlwaysHandedInOrder, RxQueueImplementsFrameQueue,
     AlwaysRunsAsSaved, AlwaysReplacedWhole, DelayAlwaysReference,
     MailboxAlwaysTyped, CapsAlwaysHold, NothingEverLost, PTL
=============================================================================
