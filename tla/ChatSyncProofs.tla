--------------------------- MODULE ChatSyncProofs ---------------------------
(***************************************************************************)
(* Proofs about ChatSync, for any number of chats, pages and steps, any    *)
(* versions and every hazard.  No chat is in the store twice, so the array *)
(* never needs more places than there are chats; an id that is the         *)
(* caller's own makes evergram_chat_leave drop the entry and the key of    *)
(* one and the same chat; and then a finished sync has brought every chat  *)
(* it reached up to date, from what each message in flight still owes the  *)
(* chat (Served).                                                          *)
(***************************************************************************)
EXTENDS ChatSync, FiniteSetTheorems, TLAPS

StoreTyped ==
    /\ entries \in [Chats -> Entries] /\ count \in 0 .. NumChats
    /\ keys \in [Chats -> Versions] /\ unopened \subseteq Chats

Distinct == \A i, j \in 1 .. count : entries[i].chat = entries[j].chat => i = j

StoreOK == StoreTyped /\ Distinct

(* The two halves of KeysFollowStore, entry by entry.                      *)
KeysByEntry ==
    /\ \A i \in 1 .. count :
          entries[i].chat \in unopened \/ keys[entries[i].chat] = entries[i].version
    /\ \A c \in Chats : (\A i \in 1 .. count : entries[i].chat # c) => keys[c] = 0

LinksTyped ==
    /\ member \in [Chats -> BOOLEAN] /\ generation \in [Chats -> Versions]
    /\ toGateway \in Seq(Queries \cup Requests) /\ toClient \in Seq(Pages \cup Answers)
    /\ steps \in 0 .. MaxSteps /\ online \in BOOLEAN
    /\ pages \in 0 .. MaxPages /\ call \in Calls \cup {NoCall}
    /\ dirty \subseteq Chats /\ cut \in BOOLEAN /\ strained \in BOOLEAN

Inv == LinksTyped /\ StoreOK

OwnIds == call # NoCall => call.slot = 0

-----------------------------------------------------------------------------
LEMMA Sizes ==
    /\ NumChats \in Nat /\ NumChats >= 1 /\ MaxPages \in Nat /\ MaxPages >= 1
    /\ MaxSteps \in Nat
    /\ 0 \in Versions /\ 1 \in Versions
  BY SizesAssumption DEF Versions

LEMMA Queueing ==
    ASSUME NEW S, NEW s \in Seq(S)
    PROVE  /\ \A x \in S : Append(s, x) \in Seq(S)
           /\ s # <<>> => Head(s) \in S /\ Tail(s) \in Seq(S)
           /\ <<>> \in Seq(S)
  OBVIOUS

(* Where a chat is, and what is stored for it.                             *)
LEMMA Places ==
    ASSUME StoreOK, NEW c \in Chats
    PROVE  /\ Known(c) <=> \E i \in 1 .. count : entries[i].chat = c
           /\ \A i \in 1 .. count : entries[i].chat = c =>
                 /\ Position(c) = {i} /\ Stored(c) = entries[i].version
           /\ ~Known(c) => Position(c) = {} /\ Stored(c) = 0
           /\ Stored(c) \in Versions
           /\ \A i \in 1 .. count : i \in Chats /\ entries[i].chat \in Chats
                                    /\ entries[i].version \in Versions
<1>1. /\ count \in Nat /\ count <= NumChats /\ entries \in [Chats -> Entries]
      /\ \A i \in 1 .. count : i \in Chats
  BY Sizes DEF StoreOK, StoreTyped, Chats
<1>2. \A e \in Entries : e.chat \in Chats /\ e.version \in Versions
  BY DEF Entries
<1>3. \A i \in 1 .. count : entries[i].chat \in Chats /\ entries[i].version \in Versions
  BY <1>1, <1>2
<1>4. Known(c) <=> \E i \in 1 .. count : entries[i].chat = c
  BY DEF Known, Position
<1>5. ASSUME NEW i \in 1 .. count, entries[i].chat = c
      PROVE  Position(c) = {i} /\ Stored(c) = entries[i].version
  <2>1. Position(c) = {i}
    BY <1>5 DEF Position, StoreOK, Distinct
  <2>2. (CHOOSE j \in Position(c) : TRUE) = i /\ Known(c)
    BY <2>1 DEF Known
  <2> QED BY <2>1, <2>2 DEF Stored
<1>6. ~Known(c) => Position(c) = {} /\ Stored(c) = 0
  BY DEF Known, Stored
<1> QED BY <1>1, <1>3, <1>4, <1>5, <1>6, Sizes

LEMMA KeysEquivalent ==
    ASSUME StoreOK
    PROVE  KeysByEntry <=> KeysFollowStore
<1>1. ASSUME KeysByEntry, NEW c \in Chats
      PROVE  IF Known(c) THEN c \in unopened \/ keys[c] = Stored(c) ELSE keys[c] = 0
  <2>1. CASE Known(c)
    <3>1. PICK i \in 1 .. count : entries[i].chat = c
      BY <2>1, Places
    <3>2. Stored(c) = entries[i].version
      BY <3>1, Places
    <3> QED BY <1>1, <2>1, <3>1, <3>2 DEF KeysByEntry
  <2>2. CASE ~Known(c)
    BY <1>1, <2>2, Places DEF KeysByEntry
  <2> QED BY <2>1, <2>2
<1>2. ASSUME KeysFollowStore
      PROVE  KeysByEntry
  <2>1. ASSUME NEW i \in 1 .. count
        PROVE  entries[i].chat \in unopened \/ keys[entries[i].chat] = entries[i].version
    <3> DEFINE c == entries[i].chat
    <3>1. c \in Chats
      BY Places, Sizes DEF Chats
    <3>2. Known(c) /\ Stored(c) = entries[i].version
      BY <3>1, Places
    <3> QED BY <1>2, <3>1, <3>2 DEF KeysFollowStore
  <2>2. ASSUME NEW c \in Chats, \A i \in 1 .. count : entries[i].chat # c
        PROVE  keys[c] = 0
    BY <1>2, <2>2, Places DEF KeysFollowStore
  <2> QED BY <2>1, <2>2 DEF KeysByEntry
<1> QED BY <1>1, <1>2 DEF KeysFollowStore

(* A chat that is not in the store has a place left for it.                *)
LEMMA RoomForUnknown ==
    ASSUME StoreOK, NEW c \in Chats, ~Known(c)
    PROVE  count < NumChats
<1> SUFFICES ASSUME ~(count < NumChats) PROVE FALSE
  OBVIOUS
<1>1. count = NumChats
  BY Sizes DEF StoreOK, StoreTyped
<1> DEFINE f == [i \in 1 .. count |-> entries[i].chat]
<1>2. f \in [1 .. count -> Chats \ {c}]
  BY Places
<1>3. /\ IsFiniteSet(Chats) /\ Cardinality(Chats) = NumChats
      /\ IsFiniteSet(1 .. count) /\ Cardinality(1 .. count) = NumChats
  BY <1>1, Sizes, FS_Interval DEF Chats
<1>4. IsFiniteSet(Chats \ {c}) /\ Cardinality(Chats \ {c}) = NumChats - 1
  BY <1>3, FS_RemoveElement
<1> HIDE DEF f
<1>5. ASSUME f \in Injection(1 .. count, Chats \ {c})
      PROVE  FALSE
  <2>1. Cardinality(1 .. count) <= Cardinality(Chats \ {c})
    BY <1>4, <1>5, FS_Injection, Zenon
  <2> QED BY <1>3, <1>4, <2>1, Sizes
<1>6. f \in Injection(1 .. count, Chats \ {c})
  <2> USE DEF f
  <2> QED BY <1>2 DEF Injection, IsInjective, StoreOK, Distinct
<1> QED BY <1>5, <1>6

-----------------------------------------------------------------------------
(* The store.                                                              *)

(* chats_upsert and the key: with a key that follows, it still does.       *)
LEMMA ApplyKeeps ==
    ASSUME StoreOK, NEW c \in Chats, NEW v \in Versions, NEW opened \in BOOLEAN,
           Apply(c, v, opened)
    PROVE  StoreOK' /\ (KeysByEntry => KeysByEntry')
<1>1. /\ keys' \in [Chats -> Versions] /\ unopened' \subseteq Chats
      /\ \A d \in Chats : d # c => keys'[d] = keys[d] /\ (d \in unopened' <=> d \in unopened)
      /\ c \in unopened' \/ keys'[c] = v
  BY DEF Apply, StoreOK, StoreTyped
<1>2. [chat |-> c, version |-> v] \in Entries
  BY DEF Entries
<1>3. /\ count \in Nat /\ count <= NumChats /\ entries \in [Chats -> Entries]
      /\ \A i \in 1 .. count : i \in Chats /\ entries[i].chat \in Chats
  BY Places DEF StoreOK, StoreTyped
<1>4. CASE Known(c)
  <2>1. PICK p \in 1 .. count : entries[p].chat = c
    BY <1>4, Places
  <2>2. Position(c) = {p}
    BY <2>1, Places
  <2>3. /\ count' = count
        /\ entries' = [i \in Chats |-> IF i = p THEN [chat |-> c, version |-> v] ELSE entries[i]]
    BY <1>4, <2>2 DEF Apply
  <2>4. \A i \in 1 .. count : /\ entries'[i].chat = entries[i].chat
                              /\ entries'[i].version = IF i = p THEN v ELSE entries[i].version
    BY <1>3, <2>1, <2>3
  <2>5. entries' \in [Chats -> Entries]
    BY <1>2, <1>3, <2>3
  <2>6. StoreOK'
    BY <1>1, <2>3, <2>4, <2>5 DEF StoreOK, StoreTyped, Distinct
  <2>7. ASSUME KeysByEntry
        PROVE  KeysByEntry'
    <3>1. ASSUME NEW i \in 1 .. count
          PROVE  entries'[i].chat \in unopened' \/ keys'[entries'[i].chat] = entries'[i].version
      <4>1. CASE i = p
        BY <1>1, <2>1, <2>4, <4>1
      <4>2. CASE i # p
        <5>1. entries[i].chat # c /\ entries[i].chat \in Chats
          BY <1>3, <2>1, <4>2 DEF StoreOK, Distinct
        <5> QED BY <1>1, <2>4, <2>7, <4>2, <5>1 DEF KeysByEntry
      <4> QED BY <4>1, <4>2
    <3>2. ASSUME NEW d \in Chats, \A i \in 1 .. count : entries'[i].chat # d
          PROVE  keys'[d] = 0
      <4>1. d # c /\ \A i \in 1 .. count : entries[i].chat # d
        BY <2>1, <2>4, <3>2
      <4> QED BY <1>1, <2>7, <4>1 DEF KeysByEntry
    <3> QED BY <2>3, <3>1, <3>2 DEF KeysByEntry
  <2> QED BY <2>6, <2>7
<1>5. CASE ~Known(c)
  <2>1. count < NumChats /\ \A i \in 1 .. count : entries[i].chat # c
    BY <1>5, RoomForUnknown, Places
  <2>2. /\ count' = count + 1
        /\ entries' = [entries EXCEPT ![count + 1] = [chat |-> c, version |-> v]]
    BY <1>5 DEF Apply
  <2>3. /\ count' \in 0 .. NumChats /\ entries' \in [Chats -> Entries]
        /\ \A i \in 1 .. count : entries'[i] = entries[i]
        /\ entries'[count + 1] = [chat |-> c, version |-> v]
        /\ \A i \in 1 .. count' : i \in 1 .. count \/ i = count + 1
    <3>1. count + 1 \in Chats
      BY <1>3, <2>1, Sizes DEF Chats
    <3> QED BY <1>2, <1>3, <2>1, <2>2, <3>1, Sizes
  <2>4. Distinct'
    <3> SUFFICES ASSUME NEW i \in 1 .. count', NEW j \in 1 .. count',
                        entries'[i].chat = entries'[j].chat
                 PROVE  i = j
      BY DEF Distinct
    <3> QED BY <2>1, <2>3 DEF StoreOK, Distinct
  <2>5. ASSUME KeysByEntry
        PROVE  KeysByEntry'
    <3>1. ASSUME NEW i \in 1 .. count'
          PROVE  entries'[i].chat \in unopened' \/ keys'[entries'[i].chat] = entries'[i].version
      <4>1. CASE i = count + 1
        BY <1>1, <2>3, <4>1
      <4>2. CASE i \in 1 .. count
        <5>1. entries[i].chat # c /\ entries[i].chat \in Chats
          BY <1>3, <2>1, <4>2
        <5> QED BY <1>1, <2>3, <2>5, <4>2, <5>1 DEF KeysByEntry
      <4> QED BY <2>3, <4>1, <4>2
    <3>2. ASSUME NEW d \in Chats, \A i \in 1 .. count' : entries'[i].chat # d
          PROVE  keys'[d] = 0
      <4>1. count + 1 \in 1 .. count' /\ \A i \in 1 .. count : i \in 1 .. count'
        BY <1>3, <2>2
      <4>2. d # c /\ \A i \in 1 .. count : entries[i].chat # d
        BY <2>3, <3>2, <4>1
      <4> QED BY <1>1, <2>5, <4>2 DEF KeysByEntry
    <3> QED BY <3>1, <3>2 DEF KeysByEntry
  <2> QED BY <1>1, <2>3, <2>4, <2>5 DEF StoreOK, StoreTyped
<1> QED BY <1>4, <1>5

(* chats_remove: one entry goes, the ones behind it move down.             *)
LEMMA DropKeeps ==
    ASSUME StoreOK, NEW c \in Chats, NEW k \in Chats, Drop(c, k)
    PROVE  StoreOK' /\ (k = c /\ KeysByEntry => KeysByEntry')
<1>1. /\ keys' = [keys EXCEPT ![k] = 0] /\ unopened' = unopened \ {c}
      /\ entries' = EntriesWithout(c)
      /\ keys' \in [Chats -> Versions] /\ unopened' \subseteq Chats
  BY Sizes DEF Drop, StoreOK, StoreTyped
<1>2. /\ count \in Nat /\ count <= NumChats /\ entries \in [Chats -> Entries] /\ NumChats \in Nat
      /\ \A i \in 1 .. count : i \in Chats /\ entries[i].chat \in Chats
      /\ \A d \in Chats : keys[d] \in Versions
  BY Places, Sizes DEF StoreOK, StoreTyped
<1>3. CASE Known(c)
  <2>1. PICK p \in 1 .. count : entries[p].chat = c
    BY <1>3, Places
  <2>2. Position(c) = {p}
    BY <2>1, Places
  <2>3. /\ count' = count - 1
        /\ entries' = [i \in Chats |-> IF i < count /\ p <= i THEN entries[i + 1] ELSE entries[i]]
    BY <1>1, <1>3, <2>2 DEF Drop, EntriesWithout
  <2>4. count' \in 0 .. NumChats /\ p \in Nat /\ 1 <= p /\ p <= count
    BY <1>2, <2>1, <2>3
  <2>5. entries' \in [Chats -> Entries]
    <3>1. ASSUME NEW i \in Chats, i < count
          PROVE  i + 1 \in Chats
      BY <1>2, <3>1 DEF Chats
    <3> QED BY <1>2, <2>3, <3>1
  <2> DEFINE from(i) == IF p <= i THEN i + 1 ELSE i
  <2>6. ASSUME NEW i \in 1 .. count'
        PROVE  entries'[i] = entries[from(i)] /\ from(i) \in 1 .. count /\ from(i) # p
    BY <1>2, <2>3, <2>4 DEF Chats
  <2>7. \A i, j \in 1 .. count' : from(i) = from(j) => i = j
    BY <1>2, <2>3, <2>4
  <2>8. ASSUME NEW n \in 1 .. count, n # p
        PROVE  \E i \in 1 .. count' : from(i) = n
    <3>1. CASE n < p
      BY <1>2, <2>3, <2>4, <3>1
    <3>2. CASE n > p
      <4>1. n - 1 \in 1 .. count' /\ from(n - 1) = n
        BY <1>2, <2>3, <2>4, <3>2
      <4> QED BY <4>1
    <3> QED BY <1>2, <2>4, <2>8, <3>1, <3>2
  <2> HIDE DEF from
  <2>9. Distinct'
    <3> SUFFICES ASSUME NEW i \in 1 .. count', NEW j \in 1 .. count',
                        entries'[i].chat = entries'[j].chat
                 PROVE  i = j
      BY DEF Distinct
    <3> QED BY <2>6, <2>7 DEF StoreOK, Distinct
  <2>10. ASSUME k = c, KeysByEntry
         PROVE  KeysByEntry'
    <3>1. ASSUME NEW i \in 1 .. count'
          PROVE  entries'[i].chat \in unopened' \/ keys'[entries'[i].chat] = entries'[i].version
      <4> DEFINE d == entries[from(i)].chat
      <4>1. d # c /\ d \in Chats
        BY <1>2, <2>1, <2>6 DEF StoreOK, Distinct
      <4>2. d \in unopened \/ keys[d] = entries[from(i)].version
        BY <2>6, <2>10 DEF KeysByEntry
      <4>3. keys'[d] = keys[d] /\ (d \in unopened => d \in unopened')
        BY <1>1, <2>10, <4>1 DEF StoreOK, StoreTyped
      <4> QED BY <2>6, <4>2, <4>3
    <3>2. ASSUME NEW d \in Chats, \A i \in 1 .. count' : entries'[i].chat # d
          PROVE  keys'[d] = 0
      <4>1. CASE d = c
        BY <1>1, <2>10, <4>1 DEF StoreOK, StoreTyped
      <4>2. CASE d # c
        <5>1. ASSUME NEW n \in 1 .. count
              PROVE  entries[n].chat # d
          <6>1. CASE n = p
            BY <2>1, <4>2, <6>1
          <6>2. CASE n # p
            <7>1. PICK i \in 1 .. count' : from(i) = n
              BY <2>8, <6>2
            <7> QED BY <2>6, <3>2, <7>1
          <6> QED BY <6>1, <6>2
        <5>2. keys[d] = 0 /\ keys'[d] = keys[d]
          BY <1>1, <2>10, <4>2, <5>1 DEF KeysByEntry, StoreOK, StoreTyped
        <5> QED BY <5>2
      <4> QED BY <4>1, <4>2
    <3> QED BY <3>1, <3>2 DEF KeysByEntry
  <2> QED BY <1>1, <2>4, <2>5, <2>9, <2>10 DEF StoreOK, StoreTyped
<1>4. CASE ~Known(c)
  <2>1. Position(c) = {} /\ \A i \in 1 .. count : entries[i].chat # c
    BY <1>4, Places
  <2>2. count' = count /\ entries' = entries
    <3>1. entries' = [i \in Chats |-> entries[i]]
      BY <1>1, <2>1 DEF EntriesWithout
    <3> QED BY <1>2, <1>4, <3>1 DEF Drop
  <2>3. ASSUME k = c, KeysByEntry
        PROVE  KeysByEntry'
    <3>1. \A d \in Chats : d # c => keys'[d] = keys[d] /\ (d \in unopened => d \in unopened')
      BY <1>1, <2>3 DEF StoreOK, StoreTyped
    <3>2. keys'[c] = 0
      BY <1>1, <2>3 DEF StoreOK, StoreTyped
    <3> QED BY <1>2, <2>1, <2>2, <2>3, <3>1, <3>2 DEF KeysByEntry
  <2> QED BY <1>1, <2>2, <2>3 DEF StoreOK, StoreTyped, Distinct
<1> QED BY <1>3, <1>4

LEMMA StoreUnchanged ==
    ASSUME StoreOK, UNCHANGED <<entries, count, keys, unopened>>
    PROVE  StoreOK' /\ (KeysByEntry => KeysByEntry')
  BY DEF StoreOK, StoreTyped, Distinct, KeysByEntry

-----------------------------------------------------------------------------
(* What the members of the queues and the call are.                        *)
LEMMA Fields ==
    /\ \A m \in Queries \cup Requests :
          IF m.kind = "query"
          THEN /\ m.cursor \in 0 .. NumChats - 1
               /\ \A c \in Chats : m.known[c].known \in BOOLEAN /\ m.known[c].version \in Versions
          ELSE m.kind \in {"create", "rotate", "leave"} /\ m.chat \in Chats /\ m.id \in 1 .. MaxSteps
    /\ \A m \in Pages \cup Answers :
          IF m.kind = "page"
          THEN m.chat \in Chats /\ m.version \in Versions /\ m.next \in 0 .. NumChats - 1
          ELSE m.chat \in Chats /\ m.version \in Versions /\ m.id \in 1 .. MaxSteps
    /\ \A k \in Calls : k.chat \in Chats /\ k.slot \in 0 .. NumChats
  BY DEF Queries, Requests, Pages, Answers, Calls

LEMMA KnownVersionsTyped ==
    ASSUME StoreOK
    PROVE  KnownVersions \in [Chats -> [known : BOOLEAN, version : Versions]]
<1>1. \A c \in Chats : Known(c) \in BOOLEAN /\ Stored(c) \in Versions
  BY Places DEF Known
<1> QED BY <1>1 DEF KnownVersions

LEMMA NextKnownVersionsTyped ==
    ASSUME StoreOK'
    PROVE  KnownVersions' \in [Chats -> [known : BOOLEAN, version : Versions]]
<1>1. ASSUME NEW c \in Chats
      PROVE  Known(c)' \in BOOLEAN /\ Stored(c)' \in Versions
  <2>1. CASE Known(c)'
    <3>1. PICK i \in Position(c)' : i = CHOOSE j \in Position(c)' : TRUE
      BY <2>1 DEF Known
    <3>2. i \in Chats
      BY <3>1, Sizes DEF Position, StoreOK, StoreTyped, Chats
    <3>3. Stored(c)' = entries'[i].version
      BY <2>1, <3>1 DEF Stored
    <3>4. entries'[i] \in Entries
      BY <3>2 DEF StoreOK, StoreTyped
    <3>5. entries'[i].version \in Versions
      BY <3>4 DEF Entries
    <3> QED BY <2>1, <3>3, <3>5
  <2>2. CASE ~Known(c)'
    BY <2>2, Sizes DEF Known, Stored
  <2> QED BY <2>1, <2>2
<1> QED BY <1>1 DEF KnownVersions

LEMMA QueryTyped ==
    ASSUME StoreOK, NEW cursor \in 0 .. NumChats - 1
    PROVE  QueryFrom(cursor, KnownVersions) \in Queries
  BY KnownVersionsTyped DEF QueryFrom, Queries

LEMMA StartSyncTyped ==
    ASSUME LinksTyped, StoreOK, StartSync
    PROVE  /\ toGateway' \in Seq(Queries \cup Requests) /\ pages' \in 0 .. MaxPages
           /\ dirty' \subseteq Chats /\ cut' \in BOOLEAN /\ strained' \in BOOLEAN
<1>1. QueryFrom(0, KnownVersions) \in Queries \cup Requests
  BY QueryTyped, Sizes
<1>2. toGateway' \in Seq(Queries \cup Requests)
  BY <1>1 DEF StartSync, LinksTyped
<1>3. pages' \in 0 .. MaxPages
  BY Sizes DEF StartSync
<1>4. dirty' \subseteq Chats /\ cut' \in BOOLEAN /\ strained' \in BOOLEAN
  BY Zenon DEF StartSync
<1> QED BY <1>2, <1>3, <1>4

LEMMA VersionTyped ==
    ASSUME LinksTyped, NEW c \in Chats
    PROVE  Version(c) \in Versions
  BY Sizes DEF LinksTyped, Version

-----------------------------------------------------------------------------
(* One lemma per action: types, a store without doubles, and the two       *)
(* facts that follow when every id is the caller's own.                    *)
Kept == /\ Inv'
        /\ ~BorrowedIds /\ OwnIds => OwnIds' /\ (KeysByEntry => KeysByEntry')

LEMMA OthersStep ==
    ASSUME Inv, NEW c \in Chats, ChangedByOthers(c)
    PROVE  Kept
<1>1. StoreOK' /\ (KeysByEntry => KeysByEntry')
  BY StoreUnchanged DEF Inv, ChangedByOthers, storeVars
<1>2. member' \in [Chats -> BOOLEAN] /\ generation' \in [Chats -> Versions]
  <2>1. CASE member' = [member EXCEPT ![c] = FALSE] /\ UNCHANGED generation
    BY <2>1 DEF Inv, LinksTyped
  <2>2. CASE /\ generation' = [generation EXCEPT ![c] = @ + 1]
             /\ member' = [member EXCEPT ![c] = TRUE]
    <3>1. generation[c] + 1 \in Versions
      BY DEF Inv, LinksTyped, Versions
    <3> QED BY <2>2, <3>1 DEF Inv, LinksTyped
  <2> QED BY <2>1, <2>2 DEF ChangedByOthers
<1>3. LinksTyped'
  BY <1>2, Sizes DEF Inv, LinksTyped, ChangedByOthers, Step
<1>4. OwnIds => OwnIds'
  BY DEF OwnIds, ChangedByOthers
<1> QED BY <1>1, <1>3, <1>4 DEF Kept, Inv

LEMMA AnswersQueryStep ==
    ASSUME Inv, GatewayAnswersQuery
    PROVE  Kept
<1> DEFINE query == Head(toGateway)
           next  == IF MoreAfter(query) THEN query.cursor + 1 ELSE 0
<1>1. StoreOK' /\ (KeysByEntry => KeysByEntry')
  BY StoreUnchanged DEF Inv, GatewayAnswersQuery, storeVars
<1>2. query \in Queries \cup Requests /\ Tail(toGateway) \in Seq(Queries \cup Requests)
  BY Queueing DEF Inv, LinksTyped, GatewayAnswersQuery
<1>3. query.cursor \in 0 .. NumChats - 1 /\ query.cursor + 1 \in Chats
  BY <1>2, Fields, Sizes DEF GatewayAnswersQuery, Chats
<1>4. next \in 0 .. NumChats - 1
  <2>1. CASE MoreAfter(query)
    <3>1. PICK c \in Chats : c > query.cursor + 1
      BY <2>1 DEF MoreAfter
    <3> QED BY <1>3, <2>1, <3>1, Sizes DEF Chats
  <2>2. CASE ~MoreAfter(query)
    BY <2>2, Sizes
  <2> QED BY <2>1, <2>2
<1>5. \A n \in 0 .. NumChats - 1 : PageFor(query, n) \in Pages \cup Answers
  <2>1. Version(query.cursor + 1) \in Versions
    BY <1>3, VersionTyped DEF Inv
  <2> QED BY <1>3, <2>1 DEF PageFor, Pages
<1>6. toClient' \in Seq(Pages \cup Answers) /\ strained' \in BOOLEAN
  <2>1. \/ toClient' = Append(toClient, PageFor(query, next)) /\ strained' = strained
        \/ toClient' = Append(toClient, PageFor(query, query.cursor)) /\ strained' = TRUE
    BY DEF GatewayAnswersQuery
  <2>2. PageFor(query, next) \in Pages \cup Answers /\ PageFor(query, query.cursor) \in Pages \cup Answers
    BY <1>3, <1>4, <1>5
  <2> HIDE DEF query, next
  <2> QED BY <2>1, <2>2, Queueing DEF Inv, LinksTyped
<1>7. LinksTyped'
  BY <1>2, <1>6 DEF Inv, LinksTyped, GatewayAnswersQuery, gatewayVars
<1>8. OwnIds => OwnIds'
  BY DEF OwnIds, GatewayAnswersQuery
<1> QED BY <1>1, <1>7, <1>8 DEF Kept, Inv

LEMMA AnswersCallStep ==
    ASSUME Inv, GatewayAnswersCall
    PROVE  Kept
<1> DEFINE request == Head(toGateway)
           c  == request.chat
           ok == IF request.kind = "create" THEN ~member[c] ELSE member[c]
           grown == IF ok /\ request.kind # "leave" THEN generation[c] + 1 ELSE generation[c]
           answer == [kind |-> "answer", chat |-> c, ok |-> ok, id |-> request.id,
                      version |-> IF ok /\ request.kind # "leave" THEN grown ELSE 0]
<1>1. StoreOK' /\ (KeysByEntry => KeysByEntry')
  BY StoreUnchanged DEF Inv, GatewayAnswersCall, storeVars
<1>2. request \in Queries \cup Requests /\ Tail(toGateway) \in Seq(Queries \cup Requests)
  BY Queueing DEF Inv, LinksTyped, GatewayAnswersCall
<1>3. c \in Chats /\ request.id \in 1 .. MaxSteps
  BY <1>2, Fields DEF GatewayAnswersCall
<1>4. ok \in BOOLEAN
  BY <1>3 DEF Inv, LinksTyped
<1>5. generation[c] \in Versions
  BY <1>3 DEF Inv, LinksTyped
<1>6. grown \in Versions
  BY <1>5, Sizes DEF Versions
<1>7. answer \in Pages \cup Answers
  BY <1>3, <1>4, <1>6, Sizes DEF Answers
<1>8. /\ member' = [member EXCEPT ![c] = IF ok THEN request.kind # "leave" ELSE @]
      /\ generation' = [generation EXCEPT ![c] = grown]
      /\ toClient' = Append(toClient, answer)
      /\ dirty' = dirty \cup {c} \/ dirty' = dirty
      /\ toGateway' = Tail(toGateway)
      /\ UNCHANGED <<steps, online, storeVars, pages, call, cut, strained, unopened>>
  BY DEF GatewayAnswersCall
<1> HIDE DEF request, c, ok, grown, answer
<1>9. member' \in [Chats -> BOOLEAN] /\ generation' \in [Chats -> Versions]
  <2>1. (IF ok THEN request.kind # "leave" ELSE member[c]) \in BOOLEAN
    BY <1>3 DEF Inv, LinksTyped
  <2> QED BY <1>3, <1>6, <1>8, <2>1 DEF Inv, LinksTyped
<1>10. toClient' \in Seq(Pages \cup Answers) /\ dirty' \subseteq Chats
  BY <1>3, <1>7, <1>8 DEF Inv, LinksTyped
<1>11. LinksTyped'
  BY <1>2, <1>8, <1>9, <1>10 DEF Inv, LinksTyped
<1>12. OwnIds => OwnIds'
  BY <1>8 DEF OwnIds
<1> QED BY <1>1, <1>11, <1>12 DEF Kept, Inv

LEMMA SyncStep ==
    ASSUME Inv, SyncChats \/ Authenticated
    PROVE  Kept
<1>1. /\ StartSync /\ steps' \in 0 .. MaxSteps /\ online' \in BOOLEAN
      /\ UNCHANGED <<gatewayVars, toClient, storeVars, call, unopened>>
  <2>1. StartSync /\ UNCHANGED <<gatewayVars, toClient, storeVars, call, unopened>>
    BY DEF SyncChats, Authenticated
  <2>2. steps' \in 0 .. MaxSteps
    <3>1. steps' = steps \/ Step
      BY DEF SyncChats, Authenticated
    <3> QED BY <3>1, Sizes DEF Inv, LinksTyped, Step
  <2>3. online' \in BOOLEAN
    BY Zenon DEF Inv, LinksTyped, SyncChats, Authenticated
  <2> QED BY <2>1, <2>2, <2>3
<1>2. StoreOK' /\ (KeysByEntry => KeysByEntry')
  BY <1>1, StoreUnchanged DEF Inv, storeVars
<1>3. LinksTyped'
  BY <1>1, StartSyncTyped DEF Inv, LinksTyped, gatewayVars
<1>4. OwnIds => OwnIds'
  BY <1>1 DEF OwnIds
<1> QED BY <1>2, <1>3, <1>4 DEF Kept, Inv

LEMMA ContinueTyped ==
    ASSUME LinksTyped, StoreOK', NEW next \in 0 .. NumChats - 1, Continue(next)
    PROVE  /\ toGateway' \in Seq(Queries \cup Requests)
           /\ pages' \in 0 .. MaxPages /\ cut' \in BOOLEAN
<1>1. CASE next # 0 /\ pages < MaxPages
  <2>1. KnownVersions' \in [Chats -> [known : BOOLEAN, version : Versions]]
    BY NextKnownVersionsTyped
  <2>2. QueryFrom(next, KnownVersions') \in Queries \cup Requests
    BY <2>1 DEF QueryFrom, Queries
  <2>3. /\ toGateway' = Append(toGateway, QueryFrom(next, KnownVersions'))
        /\ pages' = pages + 1 /\ cut' = cut
    BY <1>1 DEF Continue
  <2>4. toGateway' \in Seq(Queries \cup Requests)
    BY <2>2, <2>3, Queueing DEF LinksTyped
  <2> QED BY <1>1, <2>3, <2>4, Sizes DEF LinksTyped
<1>2. CASE ~(next # 0 /\ pages < MaxPages)
  BY <1>2 DEF Continue, LinksTyped
<1> QED BY <1>1, <1>2

LEMMA PageStep ==
    ASSUME Inv, DispatchPage
    PROVE  Kept
<1> DEFINE page == Head(toClient)
<1>1. page \in Pages \cup Answers /\ Tail(toClient) \in Seq(Pages \cup Answers)
  BY Queueing DEF Inv, LinksTyped, DispatchPage
<1>2. page.chat \in Chats /\ page.version \in Versions /\ page.next \in 0 .. NumChats - 1
  BY <1>1, Fields DEF DispatchPage
<1>3. HandlePage(page) /\ toClient' = Tail(toClient)
      /\ UNCHANGED <<gatewayVars, steps, online, call, dirty, strained>>
  BY DEF DispatchPage
<1> HIDE DEF page
<1>4. StoreOK' /\ (KeysByEntry => KeysByEntry')
  <2>1. CASE Forget(page.chat)
    BY <1>2, <2>1, DropKeeps DEF Inv, Forget
  <2>2. ASSUME NEW opened \in OpenOutcomes, Apply(page.chat, page.version, opened)
        PROVE  StoreOK' /\ (KeysByEntry => KeysByEntry')
    <3>1. opened \in BOOLEAN
      BY DEF OpenOutcomes
    <3> QED BY <1>2, <2>2, <3>1, ApplyKeeps DEF Inv
  <2>3. CASE UNCHANGED <<storeVars, unopened>>
    BY <2>3, StoreUnchanged DEF Inv, storeVars
  <2> QED BY <1>3, <2>1, <2>2, <2>3 DEF HandlePage
<1>5. LinksTyped'
  <2>1. Continue(page.next)
    BY <1>3 DEF HandlePage
  <2> QED BY <1>1, <1>2, <1>3, <1>4, <2>1, ContinueTyped DEF Inv, LinksTyped, gatewayVars, page
<1>6. OwnIds => OwnIds'
  BY <1>3 DEF OwnIds
<1> QED BY <1>4, <1>5, <1>6 DEF Kept, Inv

LEMMA CallStep ==
    ASSUME Inv, NEW c \in Chats, NEW kind \in {"create", "rotate", "leave"}, StartCall(kind, c)
    PROVE  Kept
<1>1. StoreOK' /\ (KeysByEntry => KeysByEntry')
  BY StoreUnchanged DEF Inv, StartCall, storeVars, historyVars
<1>2. steps \in 1 .. MaxSteps /\ steps' \in 0 .. MaxSteps
  BY Sizes DEF Inv, LinksTyped, StartCall, Step
<1>3. PICK slot \in Slots(kind, c) :
         call' = [kind |-> kind, chat |-> c, slot |-> slot, id |-> steps, status |-> "waiting"]
  BY DEF StartCall
<1>4. slot \in 0 .. NumChats /\ (~BorrowedIds => slot = 0)
  BY Sizes DEF Slots, Position, Inv, StoreOK, StoreTyped
<1>5. call' \in Calls \cup {NoCall} /\ (~BorrowedIds => OwnIds')
  BY <1>2, <1>3, <1>4 DEF Calls, OwnIds
<1>6. toGateway' \in Seq(Queries \cup Requests)
  <2>1. [kind |-> kind, chat |-> c, id |-> steps] \in Queries \cup Requests
    BY <1>2 DEF Requests
  <2> QED BY <2>1, Queueing DEF StartCall, Inv, LinksTyped
<1>7. LinksTyped'
  BY <1>2, <1>5, <1>6 DEF Inv, LinksTyped, StartCall, gatewayVars, historyVars
<1> QED BY <1>1, <1>5, <1>7 DEF Kept, Inv

LEMMA AnswerStep ==
    ASSUME Inv, DispatchAnswer
    PROVE  Kept
<1> DEFINE answer == Head(toClient)
<1>1. answer \in Pages \cup Answers /\ Tail(toClient) \in Seq(Pages \cup Answers)
  BY Queueing DEF Inv, LinksTyped, DispatchAnswer
<1>2. answer.chat \in Chats /\ answer.version \in Versions
  BY <1>1, Fields DEF DispatchAnswer
<1>3. StoreOK' /\ (KeysByEntry => KeysByEntry')
  <2>1. ASSUME NEW opened \in OpenOutcomes, Apply(answer.chat, answer.version, opened)
        PROVE  StoreOK' /\ (KeysByEntry => KeysByEntry')
    <3>1. opened \in BOOLEAN
      BY DEF OpenOutcomes
    <3> HIDE DEF answer
    <3> QED BY <1>2, <2>1, <3>1, ApplyKeeps DEF Inv
  <2>2. CASE UNCHANGED <<storeVars, unopened>>
    BY <2>2, StoreUnchanged DEF Inv, storeVars
  <2> QED BY <2>1, <2>2 DEF DispatchAnswer
<1>4. call' \in Calls \cup {NoCall} /\ (OwnIds => OwnIds')
  <2>1. CASE call' = call
    BY <2>1 DEF Inv, LinksTyped, OwnIds
  <2>2. CASE call # NoCall /\ \E status \in {"ok", "failed"} : call' = [call EXCEPT !.status = status]
    <3>1. call \in Calls
      BY <2>2 DEF Inv, LinksTyped
    <3> QED BY <2>2, <3>1 DEF Calls, OwnIds
  <2> QED BY <2>1, <2>2 DEF DispatchAnswer
<1>5. LinksTyped'
  BY <1>1, <1>4 DEF Inv, LinksTyped, DispatchAnswer, gatewayVars
<1> QED BY <1>3, <1>4, <1>5 DEF Kept, Inv

LEMMA ReturnStep ==
    ASSUME Inv, CallReturns
    PROVE  Kept
<1>1. /\ call # NoCall /\ call' = NoCall
      /\ UNCHANGED <<gatewayVars, toGateway, toClient, steps, online, pages, cut, strained>>
  BY DEF CallReturns
<1>2. call \in Calls /\ call.chat \in Chats /\ call.slot \in 0 .. NumChats
  BY <1>1, Fields DEF Inv, LinksTyped
<1>3. CASE LeaveDropsChat
  <2> DEFINE c == Named(entries)
             k == Named(EntriesWithout(c))
  <2>1. ASSUME NEW f \in [Chats -> Entries]
        PROVE  Named(f) \in Chats
    <3>1. CASE call.slot = 0
      BY <1>2, <3>1 DEF Named
    <3>2. CASE call.slot # 0
      <4>1. call.slot \in Chats
        BY <1>2, <3>2, Sizes DEF Chats
      <4> QED BY <3>2, <4>1 DEF Named, Entries
    <3> QED BY <3>1, <3>2
  <2>2. c \in Chats
    BY <2>1 DEF Inv, StoreOK, StoreTyped
  <2>3. EntriesWithout(c) \in [Chats -> Entries]
    <3>1. \A i \in Chats : i < count => i + 1 \in Chats
      BY Sizes DEF Inv, StoreOK, StoreTyped, Chats
    <3> QED BY <3>1 DEF EntriesWithout, Inv, StoreOK, StoreTyped
  <2>4. k \in Chats
    BY <2>1, <2>3
  <2>5. OwnIds => k = c
    BY <1>1 DEF OwnIds, Named
  <2>6. Drop(c, k) /\ dirty' \subseteq Chats
    BY <1>3, <2>2 DEF LeaveDropsChat, Inv, LinksTyped
  <2> HIDE DEF c, k
  <2>7. StoreOK' /\ (OwnIds /\ KeysByEntry => KeysByEntry')
    BY <2>2, <2>4, <2>5, <2>6, DropKeeps DEF Inv
  <2>8. LinksTyped' /\ OwnIds'
    BY <1>1, <2>6 DEF Inv, LinksTyped, OwnIds, gatewayVars
  <2> QED BY <2>7, <2>8 DEF Kept, Inv
<1>4. CASE UNCHANGED <<storeVars, dirty, unopened>>
  <2>1. StoreOK' /\ (KeysByEntry => KeysByEntry')
    BY <1>4, StoreUnchanged DEF Inv, storeVars
  <2>2. LinksTyped' /\ OwnIds'
    BY <1>1, <1>4 DEF Inv, LinksTyped, OwnIds, gatewayVars
  <2> QED BY <2>1, <2>2 DEF Kept, Inv
<1> QED BY <1>3, <1>4 DEF CallReturns

LEMMA TimeoutStep ==
    ASSUME Inv, CallTimesOut
    PROVE  Kept
<1>1. StoreOK' /\ (KeysByEntry => KeysByEntry')
  BY StoreUnchanged DEF Inv, CallTimesOut, storeVars
<1>2. dirty' \subseteq Chats
  <2>1. call.chat \in Chats
    BY Fields DEF CallTimesOut, Inv, LinksTyped
  <2> QED BY <2>1 DEF CallTimesOut, Inv, LinksTyped
<1>3. LinksTyped' /\ OwnIds'
  BY <1>2 DEF Inv, LinksTyped, CallTimesOut, OwnIds, gatewayVars
<1> QED BY <1>1, <1>3 DEF Kept, Inv

LEMMA LoseStep ==
    ASSUME Inv, Lose
    PROVE  Kept
<1>1. StoreOK' /\ (KeysByEntry => KeysByEntry')
  BY StoreUnchanged DEF Inv, Lose, storeVars, historyVars
<1>2. toGateway' \in Seq(Queries \cup Requests) /\ toClient' \in Seq(Pages \cup Answers)
  BY Queueing DEF Lose, Inv, LinksTyped
<1>3. LinksTyped' /\ OwnIds'
  <2>1. steps' \in 0 .. MaxSteps
    BY Sizes DEF Inv, LinksTyped, Lose, Step
  <2>2. call' = NoCall /\ online' \in BOOLEAN
        /\ UNCHANGED <<gatewayVars, pages, dirty, cut, strained>>
    BY Zenon DEF Lose, historyVars
  <2> QED BY <1>2, <2>1, <2>2 DEF Inv, LinksTyped, OwnIds, gatewayVars
<1> QED BY <1>1, <1>3 DEF Kept, Inv

LEMMA StutterStep ==
    ASSUME Inv, UNCHANGED vars
    PROVE  Kept
<1>1. StoreOK' /\ (KeysByEntry => KeysByEntry')
  BY StoreUnchanged DEF Inv, vars, storeVars, historyVars
<1>2. LinksTyped' /\ (OwnIds => OwnIds')
  BY DEF Inv, LinksTyped, OwnIds, vars, gatewayVars, historyVars
<1> QED BY <1>1, <1>2 DEF Kept, Inv

LEMMA EveryStepKeeps ==
    ASSUME Inv, [Next]_vars
    PROVE  Kept
  BY OthersStep, CallStep, AnswersQueryStep, AnswersCallStep, SyncStep, PageStep, AnswerStep,
     ReturnStep, TimeoutStep, LoseStep, StutterStep DEF Next

LEMMA InitHolds == Init => Inv /\ OwnIds /\ KeysByEntry
<1> SUFFICES ASSUME Init PROVE Inv /\ OwnIds /\ KeysByEntry
  OBVIOUS
<1>1. entries \in [Chats -> Entries] /\ count = 0 /\ keys = [c \in Chats |-> 0] /\ unopened = {}
  BY Sizes DEF Init, Entries
<1>2. StoreOK /\ KeysByEntry
  BY <1>1, Sizes DEF StoreOK, StoreTyped, Distinct, KeysByEntry
<1>3. toGateway \in Seq(Queries \cup Requests) /\ toClient \in Seq(Pages \cup Answers)
  BY Queueing DEF Init
<1>4. generation \in [Chats -> Versions]
  BY Sizes DEF Init
<1>5. steps \in 0 .. MaxSteps /\ pages \in 0 .. MaxPages
  BY Sizes DEF Init
<1>6. online \in BOOLEAN /\ cut \in BOOLEAN /\ strained \in BOOLEAN
  BY Zenon DEF Init
<1>7. LinksTyped /\ OwnIds
  BY <1>3, <1>4, <1>5, <1>6 DEF Init, LinksTyped, OwnIds
<1> QED BY <1>2, <1>7 DEF Inv

(* The store never holds a chat twice, so chats_upsert (chats.c 104) needs *)
(* no more places than there are chats, and everything has its type.       *)
THEOREM StoreAlwaysTyped == Spec => []TypeOK
<1>1. Inv /\ [Next]_vars => Inv'
  BY EveryStepKeeps DEF Kept
<1>2. Inv => TypeOK
  BY DEF Inv, LinksTyped, StoreOK, StoreTyped, TypeOK
<1> QED BY InitHolds, <1>1, <1>2, PTL DEF Spec

(* When no id passed to evergram_chat_leave points into the store, the key *)
(* held for a chat is the one of the stored version, and no key outlives   *)
(* its chat (chats.c, chatkeys.c, parser.c 36).                            *)
THEOREM KeysAlwaysFollow == ~BorrowedIds => (Spec => []KeysFollowStore)
<1> SUFFICES ASSUME ~BorrowedIds PROVE Spec => []KeysFollowStore
  OBVIOUS
<1> DEFINE I == Inv /\ OwnIds /\ KeysByEntry
<1>1. I /\ [Next]_vars => I'
  BY EveryStepKeeps DEF Kept
<1>2. I => KeysFollowStore
  BY KeysEquivalent DEF Inv
<1>3. Init => I
  BY InitHolds
<1> QED BY <1>1, <1>2, <1>3, PTL DEF Spec

-----------------------------------------------------------------------------
(* Messages in flight.                                                     *)
Members(s) == {s[n] : n \in DOMAIN s}

LEMMA AppendMoves ==
    ASSUME NEW S, NEW s \in Seq(S), NEW x \in S
    PROVE  /\ DOMAIN s = 1 .. Len(s) /\ Len(s) \in Nat
           /\ DOMAIN Append(s, x) = 1 .. Len(s) + 1
           /\ \A n \in DOMAIN s : n \in DOMAIN Append(s, x) /\ Append(s, x)[n] = s[n]
           /\ Len(s) + 1 \in DOMAIN Append(s, x) /\ Append(s, x)[Len(s) + 1] = x
           /\ \A n \in DOMAIN Append(s, x) : n \in DOMAIN s \/ n = Len(s) + 1
           /\ \A n \in DOMAIN s : n < Len(s) + 1
           /\ Members(Append(s, x)) = Members(s) \cup {x}
<1>1. /\ DOMAIN s = 1 .. Len(s) /\ Len(s) \in Nat
      /\ DOMAIN Append(s, x) = 1 .. Len(s) + 1
      /\ \A n \in DOMAIN s : n \in DOMAIN Append(s, x) /\ Append(s, x)[n] = s[n]
      /\ Len(s) + 1 \in DOMAIN Append(s, x) /\ Append(s, x)[Len(s) + 1] = x
      /\ \A n \in DOMAIN Append(s, x) : n \in DOMAIN s \/ n = Len(s) + 1
      /\ \A n \in DOMAIN s : n < Len(s) + 1
  OBVIOUS
<1> DEFINE t == Append(s, x)
<1> HIDE DEF t
<1>2. Members(t) = Members(s) \cup {x}
  BY <1>1 DEF Members, t
<1> QED BY <1>1, <1>2 DEF t

LEMMA TailMoves ==
    ASSUME NEW S, NEW s \in Seq(S), s # <<>>
    PROVE  /\ 1 \in DOMAIN s /\ Head(s) = s[1] /\ Head(s) \in Members(s)
           /\ DOMAIN s = 1 .. Len(s) /\ Len(s) \in Nat /\ DOMAIN Tail(s) = 1 .. Len(s) - 1
           /\ \A n \in DOMAIN Tail(s) : n + 1 \in DOMAIN s /\ Tail(s)[n] = s[n + 1] /\ 1 < n + 1
           /\ \A n \in DOMAIN s : n # 1 => n - 1 \in DOMAIN Tail(s) /\ Tail(s)[n - 1] = s[n]
           /\ Members(s) = {Head(s)} \cup Members(Tail(s))
<1>1. /\ 1 \in DOMAIN s /\ Head(s) = s[1]
      /\ DOMAIN s = 1 .. Len(s) /\ Len(s) \in Nat /\ DOMAIN Tail(s) = 1 .. Len(s) - 1
      /\ \A n \in DOMAIN Tail(s) : n + 1 \in DOMAIN s /\ Tail(s)[n] = s[n + 1] /\ 1 < n + 1
      /\ \A n \in DOMAIN s : n # 1 => n - 1 \in DOMAIN Tail(s) /\ Tail(s)[n - 1] = s[n]
  OBVIOUS
<1> DEFINE t == Tail(s)
           h == Head(s)
<1> HIDE DEF t, h
<1>2. /\ 1 \in DOMAIN s /\ h = s[1]
      /\ \A n \in DOMAIN t : n + 1 \in DOMAIN s /\ t[n] = s[n + 1]
      /\ \A n \in DOMAIN s : n # 1 => n - 1 \in DOMAIN t /\ t[n - 1] = s[n]
  BY <1>1 DEF t, h
<1>3. Members(s) = {h} \cup Members(t)
  <2>1. ASSUME NEW x \in Members(s)
        PROVE  x \in {h} \cup Members(t)
    <3>1. PICK n \in DOMAIN s : x = s[n]
      BY DEF Members
    <3> QED BY <1>2, <3>1 DEF Members
  <2>2. ASSUME NEW x \in Members(t)
        PROVE  x \in Members(s)
    <3>1. PICK n \in DOMAIN t : x = t[n]
      BY DEF Members
    <3> QED BY <1>2, <3>1 DEF Members
  <2>3. h \in Members(s)
    BY <1>2 DEF Members
  <2> QED BY <2>1, <2>2, <2>3
<1> QED BY <1>1, <1>3 DEF t, h

LEMMA MembersTyped ==
    ASSUME NEW S, NEW s \in Seq(S)
    PROVE  /\ \A n \in DOMAIN s : s[n] \in S /\ s[n] \in Members(s)
           /\ Members(s) \subseteq S /\ Members(<<>>) = {}
           /\ \A x \in Members(s) : \E n \in DOMAIN s : x = s[n]
  BY DEF Members

LEMMA Messages ==
    /\ \A m \in Pages \cup Answers :
          /\ m.chat \in Chats /\ m.version \in Nat
          /\ \/ /\ m.kind = "page" /\ m.result \in {"none", "missing", "record"}
                /\ m.next \in 0 .. NumChats - 1
             \/ m.kind = "answer" /\ m.ok \in BOOLEAN /\ m.id \in 1 .. MaxSteps
    /\ \A m \in Queries \cup Requests :
          \/ /\ m.kind = "query" /\ m.cursor \in 0 .. NumChats - 1
             /\ \A c \in Chats : m.known[c].known \in BOOLEAN /\ m.known[c].version \in Nat
          \/ m.kind \in {"create", "rotate", "leave"} /\ m.chat \in Chats /\ m.id \in 1 .. MaxSteps
<1>1. \A m \in Pages : /\ m.chat \in Chats /\ m.version \in Nat /\ m.kind = "page"
                       /\ m.result \in {"none", "missing", "record"} /\ m.next \in 0 .. NumChats - 1
  BY DEF Pages, Versions
<1>2. \A m \in Answers : /\ m.chat \in Chats /\ m.version \in Nat /\ m.kind = "answer"
                         /\ m.ok \in BOOLEAN /\ m.id \in 1 .. MaxSteps
  BY DEF Answers, Versions
<1>3. \A m \in Queries : /\ m.kind = "query" /\ m.cursor \in 0 .. NumChats - 1
                         /\ \A c \in Chats : m.known[c].known \in BOOLEAN /\ m.known[c].version \in Nat
  BY DEF Queries, Versions
<1>4. \A m \in Requests : m.kind \in {"create", "rotate", "leave"} /\ m.chat \in Chats /\ m.id \in 1 .. MaxSteps
  BY DEF Requests
<1> QED BY <1>1, <1>2, <1>3, <1>4

-----------------------------------------------------------------------------
(* What is stored for each chat after a change of the store.               *)
LEMMA NextPlaces ==
    ASSUME StoreOK', NEW c \in Chats
    PROVE  /\ Known(c)' <=> \E i \in 1 .. count' : entries'[i].chat = c
           /\ \A i \in 1 .. count' : entries'[i].chat = c => Stored(c)' = entries'[i].version
           /\ ~Known(c)' => Stored(c)' = 0
<1>1. Known(c)' <=> \E i \in 1 .. count' : entries'[i].chat = c
  BY DEF Known, Position
<1>2. ASSUME NEW i \in 1 .. count', entries'[i].chat = c
      PROVE  Stored(c)' = entries'[i].version
  <2>1. Position(c)' = {i}
    BY <1>2 DEF Position, StoreOK, Distinct
  <2>2. (CHOOSE j \in Position(c)' : TRUE) = i /\ Known(c)'
    BY <2>1 DEF Known
  <2> QED BY <2>1, <2>2 DEF Stored
<1>3. ~Known(c)' => Stored(c)' = 0
  BY DEF Known, Stored
<1> QED BY <1>1, <1>2, <1>3

LEMMA ApplyStores ==
    ASSUME StoreOK, NEW c \in Chats, NEW v \in Versions, NEW opened \in BOOLEAN,
           Apply(c, v, opened), NEW d \in Chats
    PROVE  /\ Stored(d)' = IF d = c THEN v ELSE Stored(d)
           /\ Known(d)' <=> d = c \/ Known(d)
<1>1. StoreOK'
  BY ApplyKeeps
<1>2. /\ count \in Nat /\ count <= NumChats /\ entries \in [Chats -> Entries] /\ NumChats \in Nat
      /\ \A i \in 1 .. count : i \in Chats
  BY Places, Sizes DEF StoreOK, StoreTyped
<1>3. /\ \A i \in 1 .. count : /\ i \in 1 .. count' /\ entries'[i].chat = entries[i].chat
                               /\ entries[i].chat # c => entries'[i].version = entries[i].version
      /\ \A i \in 1 .. count' : i \in 1 .. count \/ entries'[i].chat = c
      /\ \E i \in 1 .. count' : entries'[i].chat = c /\ entries'[i].version = v
  <2>1. CASE Known(c)
    <3>1. PICK p \in 1 .. count : entries[p].chat = c
      BY <2>1, Places
    <3>2. Position(c) = {p}
      BY <3>1, Places
    <3>3. /\ count' = count
          /\ entries' = [i \in Chats |-> IF i = p THEN [chat |-> c, version |-> v] ELSE entries[i]]
      BY <2>1, <3>2 DEF Apply
    <3> QED BY <1>2, <3>1, <3>3
  <2>2. CASE ~Known(c)
    <3>1. count < NumChats /\ \A i \in 1 .. count : entries[i].chat # c
      BY <2>2, RoomForUnknown, Places
    <3>2. /\ count' = count + 1
          /\ entries' = [entries EXCEPT ![count + 1] = [chat |-> c, version |-> v]]
      BY <2>2 DEF Apply
    <3>3. count + 1 \in Chats /\ \A i \in 1 .. count : i # count + 1
      BY <1>2, <3>1 DEF Chats
    <3> QED BY <1>2, <3>1, <3>2, <3>3
  <2> QED BY <2>1, <2>2
<1>4. CASE d = c
  BY <1>1, <1>3, <1>4, NextPlaces
<1>5. CASE d # c
  <2>1. CASE Known(d)
    <3>1. PICK i \in 1 .. count : entries[i].chat = d
      BY <2>1, Places
    <3>2. Stored(d) = entries[i].version
      BY <3>1, Places
    <3>3. i \in 1 .. count' /\ entries'[i].chat = d /\ entries'[i].version = entries[i].version
      BY <1>3, <1>5, <3>1
    <3> QED BY <1>1, <1>5, <2>1, <3>2, <3>3, NextPlaces
  <2>2. CASE ~Known(d)
    <3>1. \A i \in 1 .. count : entries[i].chat # d
      BY <2>2, Places
    <3>2. \A i \in 1 .. count' : entries'[i].chat # d
      BY <1>3, <1>5, <3>1
    <3> QED BY <1>1, <1>5, <2>2, <3>2, NextPlaces, Places
  <2> QED BY <2>1, <2>2
<1> QED BY <1>4, <1>5

LEMMA DropStores ==
    ASSUME StoreOK, NEW c \in Chats, NEW k \in Chats, Drop(c, k), NEW d \in Chats
    PROVE  /\ Stored(d)' = IF d = c THEN 0 ELSE Stored(d)
           /\ Known(d)' <=> d # c /\ Known(d)
<1>1. StoreOK'
  BY DropKeeps
<1>2. /\ count \in Nat /\ count <= NumChats /\ entries \in [Chats -> Entries] /\ NumChats \in Nat
      /\ \A i \in 1 .. count : i \in Chats
  BY Places, Sizes DEF StoreOK, StoreTyped
<1>3. /\ \A i \in 1 .. count' : \E n \in 1 .. count : entries'[i] = entries[n] /\ entries[n].chat # c
      /\ \A n \in 1 .. count : entries[n].chat # c => \E i \in 1 .. count' : entries'[i] = entries[n]
  <2>1. CASE Known(c)
    <3>1. PICK p \in 1 .. count : entries[p].chat = c
      BY <2>1, Places
    <3>2. Position(c) = {p}
      BY <3>1, Places
    <3>3. /\ count' = count - 1
          /\ entries' = [i \in Chats |-> IF i < count /\ p <= i THEN entries[i + 1] ELSE entries[i]]
      BY <2>1, <3>2 DEF Drop, EntriesWithout
    <3>4. \A n \in 1 .. count : n # p => entries[n].chat # c
      BY <3>1 DEF StoreOK, Distinct
    <3>5. ASSUME NEW i \in 1 .. count'
          PROVE  \E n \in 1 .. count : entries'[i] = entries[n] /\ entries[n].chat # c
      <4> DEFINE n == IF p <= i THEN i + 1 ELSE i
      <4>1. n \in 1 .. count /\ n # p /\ i \in Chats /\ i < count
        BY <1>2, <3>1, <3>3
      <4>2. entries'[i] = entries[n]
        BY <3>3, <4>1
      <4> HIDE DEF n
      <4> QED BY <3>4, <4>1, <4>2
    <3>6. ASSUME NEW n \in 1 .. count, entries[n].chat # c
          PROVE  \E i \in 1 .. count' : entries'[i] = entries[n]
      <4> DEFINE i == IF n < p THEN n ELSE n - 1
      <4>1. i \in 1 .. count' /\ i \in Chats /\ i < count /\ n # p /\ (p <= i => i + 1 = n) /\ (~(p <= i) => i = n)
        BY <1>2, <3>1, <3>3, <3>6 DEF Chats
      <4>2. entries'[i] = entries[n]
        BY <3>3, <4>1
      <4> HIDE DEF i
      <4> QED BY <4>1, <4>2
    <3> QED BY <3>5, <3>6
  <2>2. CASE ~Known(c)
    <3>1. Position(c) = {} /\ \A i \in 1 .. count : entries[i].chat # c
      BY <2>2, Places
    <3>2. entries' = [i \in Chats |-> entries[i]] /\ count' = count
      BY <2>2, <3>1 DEF Drop, EntriesWithout
    <3> QED BY <1>2, <3>1, <3>2
  <2> QED BY <2>1, <2>2
<1>4. CASE d = c
  <2>1. \A i \in 1 .. count' : entries'[i].chat # c
    BY <1>3
  <2> QED BY <1>1, <1>4, <2>1, NextPlaces
<1>5. CASE d # c
  <2>1. CASE Known(d)
    <3>1. PICK n \in 1 .. count : entries[n].chat = d
      BY <2>1, Places
    <3>2. Stored(d) = entries[n].version
      BY <3>1, Places
    <3>3. PICK i \in 1 .. count' : entries'[i] = entries[n]
      BY <1>3, <1>5, <3>1
    <3> QED BY <1>1, <1>5, <2>1, <3>1, <3>2, <3>3, NextPlaces
  <2>2. CASE ~Known(d)
    <3>1. \A n \in 1 .. count : entries[n].chat # d
      BY <2>2, Places
    <3>2. \A i \in 1 .. count' : entries'[i].chat # d
      BY <1>3, <3>1
    <3> QED BY <1>1, <1>5, <2>2, <3>2, NextPlaces, Places
  <2> QED BY <2>1, <2>2
<1> QED BY <1>4, <1>5

LEMMA SameStored ==
    ASSUME UNCHANGED <<entries, count>>
    PROVE  \A c \in Chats : Stored(c)' = Stored(c) /\ (Known(c)' <=> Known(c))
  BY DEF Stored, Known, Position

-----------------------------------------------------------------------------
(* What a message says of a chat: a record or an answer its version, a     *)
(* chat that is missing version 0.                                         *)
Tells(m, c) == m.chat = c /\ IF m.kind = "page" THEN m.result # "none" ELSE m.version > 0

(* Nothing is ahead of the gateway, and version 0 means an absent chat.    *)
Sound(m) ==
    /\ m.version <= generation[m.chat]
    /\ m.kind = "page" => /\ m.result = "missing" => m.version = 0
                          /\ m.result = "record" => m.version > 0

Behind ==
    /\ \A c \in Chats : /\ Stored(c) <= generation[c] /\ (Known(c) <=> Stored(c) > 0)
                        /\ member[c] => generation[c] > 0
    /\ \A m \in Members(toClient) : Sound(m)
    /\ \A q \in Members(toGateway) : q.kind = "query" =>
          \A c \in Chats : q.known[c].version <= generation[c]

(* Once the newest version of a chat is stored, or on its way, what comes  *)
(* after it is no older.                                                   *)
NewestLast(c) ==
    member[c] =>
        /\ Stored(c) = generation[c] =>
              \A m \in Members(toClient) : Tells(m, c) => m.version = generation[c]
        /\ \A i, j \in DOMAIN toClient :
              i < j /\ Tells(toClient[i], c) /\ Tells(toClient[j], c)
                    /\ toClient[i].version = generation[c]
              => toClient[j].version = generation[c]

(* A dispatched message is believed.                                       *)
Believed(m) ==
    \A c \in Chats : /\ Stored(c)' = IF Tells(m, c) THEN m.version ELSE Stored(c)
                     /\ Known(c)' <=> IF Tells(m, c) THEN m.version > 0 ELSE Known(c)

LEMMA Typing ==
    ASSUME Inv
    PROVE  /\ toClient \in Seq(Pages \cup Answers) /\ toGateway \in Seq(Queries \cup Requests)
           /\ Members(toClient) \subseteq Pages \cup Answers
           /\ Members(toGateway) \subseteq Queries \cup Requests
           /\ \A c \in Chats : generation[c] \in Nat /\ Stored(c) \in Nat /\ member[c] \in BOOLEAN
           /\ \A m \in Members(toClient) : m.chat \in Chats /\ m.version \in Nat
                                           /\ generation[m.chat] \in Nat
<1>1. /\ toClient \in Seq(Pages \cup Answers) /\ toGateway \in Seq(Queries \cup Requests)
      /\ \A c \in Chats : generation[c] \in Nat /\ member[c] \in BOOLEAN
  BY DEF Inv, LinksTyped, Versions
<1>2. \A c \in Chats : Stored(c) \in Nat
  BY Places DEF Inv, Versions
<1>3. Members(toClient) \subseteq Pages \cup Answers /\ Members(toGateway) \subseteq Queries \cup Requests
  BY <1>1, MembersTyped
<1> QED BY <1>1, <1>2, <1>3, Messages

LEMMA DispatchBelieved ==
    ASSUME Inv, Behind, DispatchPage \/ DispatchAnswer
    PROVE  /\ toClient # <<>> /\ toClient' = Tail(toClient) /\ Head(toClient) \in Members(toClient)
           /\ Head(toClient) \in Pages \cup Answers
           /\ Believed(Head(toClient)) /\ UNCHANGED <<member, generation>>
<1> DEFINE m == Head(toClient)
<1>1. toClient # <<>> /\ toClient' = Tail(toClient) /\ UNCHANGED <<member, generation>>
  BY DEF DispatchPage, DispatchAnswer, gatewayVars
<1>2. m \in Members(toClient) /\ m \in Pages \cup Answers
  BY <1>1, Typing, TailMoves
<1>3. /\ m.chat \in Chats /\ m.version \in Versions /\ Sound(m)
      /\ StoreOK /\ \A c \in Chats : Stored(c) \in Nat /\ (Known(c) <=> Stored(c) > 0)
  BY <1>2, Typing, Messages DEF Behind, Versions, Inv
<1>4. CASE UNCHANGED <<storeVars, unopened>> /\ \A c \in Chats : ~Tells(m, c)
  <2>1. \A c \in Chats : Stored(c)' = Stored(c) /\ (Known(c)' <=> Known(c))
    BY <1>4, SameStored DEF storeVars
  <2> HIDE DEF m
  <2> QED BY <1>1, <1>2, <1>4, <2>1 DEF Believed, m
<1>5. ASSUME NEW opened \in OpenOutcomes, Apply(m.chat, m.version, opened),
             m.version > 0, Tells(m, m.chat)
      PROVE  Believed(m)
  <2>1. opened \in BOOLEAN
    BY DEF OpenOutcomes
  <2> HIDE DEF m
  <2>2. \A d \in Chats : /\ Stored(d)' = IF d = m.chat THEN m.version ELSE Stored(d)
                         /\ Known(d)' <=> d = m.chat \/ Known(d)
    BY <1>3, <1>5, <2>1, ApplyStores
  <2>3. \A d \in Chats : Tells(m, d) <=> d = m.chat
    BY <1>5 DEF Tells
  <2> QED BY <1>5, <2>2, <2>3 DEF Believed
<1>6. CASE Forget(m.chat) /\ m.kind = "page" /\ m.result = "missing"
  <2> HIDE DEF m
  <2>1. \A d \in Chats : /\ Stored(d)' = IF d = m.chat THEN 0 ELSE Stored(d)
                         /\ Known(d)' <=> d # m.chat /\ Known(d)
    BY <1>3, <1>6, DropStores DEF Forget
  <2>2. m.version = 0 /\ \A d \in Chats : Tells(m, d) <=> d = m.chat
    BY <1>3, <1>6 DEF Tells, Sound
  <2>3. Believed(m)
    BY <2>1, <2>2 DEF Believed
  <2> QED BY <1>1, <1>2, <2>3 DEF m
<1>7. CASE DispatchPage
  <2>1. m.kind = "page" /\ HandlePage(m)
    BY <1>7 DEF DispatchPage
  <2> HIDE DEF m
  <2>2. CASE m.result = "missing" /\ Forget(m.chat)
    BY <1>6, <2>1, <2>2 DEF m
  <2>3. CASE m.result = "record" /\ \E opened \in OpenOutcomes : Apply(m.chat, m.version, opened)
    <3>1. m.version > 0 /\ Tells(m, m.chat)
      BY <1>3, <2>1, <2>3 DEF Sound, Tells
    <3>2. Believed(m)
      BY <1>5, <2>3, <3>1
    <3> QED BY <1>1, <1>2, <3>2 DEF m
  <2>4. CASE m.result = "none" /\ UNCHANGED <<storeVars, unopened>>
    <3>1. \A c \in Chats : ~Tells(m, c)
      BY <2>1, <2>4 DEF Tells
    <3> QED BY <1>4, <2>4, <3>1 DEF m
  <2> QED BY <2>1, <2>2, <2>3, <2>4 DEF HandlePage
<1>8. CASE DispatchAnswer
  <2>1. /\ m.kind = "answer"
        /\ IF m.version > 0
           THEN \E opened \in OpenOutcomes : Apply(m.chat, m.version, opened)
           ELSE UNCHANGED <<storeVars, unopened>>
    BY <1>8 DEF DispatchAnswer
  <2> HIDE DEF m
  <2>2. CASE m.version > 0
    <3>1. Tells(m, m.chat)
      BY <2>1, <2>2 DEF Tells
    <3>2. Believed(m)
      BY <1>5, <2>1, <2>2, <3>1
    <3> QED BY <1>1, <1>2, <3>2 DEF m
  <2>3. CASE ~(m.version > 0)
    <3>1. \A c \in Chats : ~Tells(m, c)
      BY <2>1, <2>3 DEF Tells
    <3> QED BY <1>4, <2>1, <2>3, <3>1 DEF m
  <2> QED BY <2>2, <2>3
<1> QED BY <1>7, <1>8

-----------------------------------------------------------------------------
(* NewestLast through each kind of step.                                   *)
LEMMA NewestTaken ==
    ASSUME Inv, Behind, NEW c \in Chats, NewestLast(c), UNCHANGED <<member, generation>>,
           toClient # <<>>, toClient' = Tail(toClient), Believed(Head(toClient))
    PROVE  NewestLast(c)'
<1> SUFFICES ASSUME member[c] PROVE NewestLast(c)'
  BY DEF NewestLast
<1> DEFINE h == Head(toClient)
           t == Tail(toClient)
           g == generation[c]
<1>1. /\ 1 \in DOMAIN toClient /\ h = toClient[1] /\ h \in Members(toClient)
      /\ DOMAIN toClient = 1 .. Len(toClient) /\ Len(toClient) \in Nat /\ DOMAIN t = 1 .. Len(toClient) - 1
      /\ \A n \in DOMAIN t : n + 1 \in DOMAIN toClient /\ t[n] = toClient[n + 1] /\ 1 < n + 1
      /\ Members(toClient) = {h} \cup Members(t)
  BY Typing, TailMoves
<1>2. /\ Stored(c) = g => \A m \in Members(toClient) : Tells(m, c) => m.version = g
      /\ \A i, j \in DOMAIN toClient :
            i < j /\ Tells(toClient[i], c) /\ Tells(toClient[j], c) /\ toClient[i].version = g
            => toClient[j].version = g
  BY DEF NewestLast
<1>3. Stored(c)' = IF Tells(h, c) THEN h.version ELSE Stored(c)
  BY DEF Believed
<1> HIDE DEF h, t, g
<1>4. ASSUME Stored(c)' = g, NEW m \in Members(t), Tells(m, c)
      PROVE  m.version = g
  <2>1. CASE Tells(h, c)
    <3>1. PICK n \in DOMAIN t : m = t[n]
      BY DEF Members
    <3>2. n + 1 \in DOMAIN toClient /\ m = toClient[n + 1] /\ 1 < n + 1
      BY <1>1, <3>1
    <3> QED BY <1>1, <1>2, <1>3, <1>4, <2>1, <3>2
  <2>2. CASE ~Tells(h, c)
    BY <1>1, <1>2, <1>3, <1>4, <2>2
  <2> QED BY <2>1, <2>2
<1>5. ASSUME NEW i \in DOMAIN t, NEW j \in DOMAIN t, i < j, Tells(t[i], c), Tells(t[j], c), t[i].version = g
      PROVE  t[j].version = g
  <2>1. /\ i + 1 \in DOMAIN toClient /\ t[i] = toClient[i + 1] /\ i + 1 < j + 1
        /\ j + 1 \in DOMAIN toClient /\ t[j] = toClient[j + 1]
    BY <1>1, <1>5
  <2> QED BY <1>2, <1>5, <2>1
<1>6. toClient' = t /\ generation'[c] = g
  BY DEF t, g
<1> QED BY <1>4, <1>5, <1>6 DEF NewestLast

(* What the gateway says of a chat at this moment is its newest version.   *)
Fresh(c) ==
    member'[c] => \/ generation'[c] = generation[c] /\ member[c]
                  \/ generation'[c] = generation[c] + 1

LEMMA NewestAppended ==
    ASSUME Inv, Behind, NEW c \in Chats, NewestLast(c), Fresh(c), Stored(c)' = Stored(c),
           NEW x \in Pages \cup Answers, toClient' = Append(toClient, x),
           member'[c] /\ Tells(x, c) => x.version = generation'[c]
    PROVE  NewestLast(c)'
<1> SUFFICES ASSUME member'[c] PROVE NewestLast(c)'
  BY DEF NewestLast
<1> DEFINE t == Append(toClient, x)
           l == Len(toClient) + 1
           g == generation[c]
           h == generation'[c]
<1>1. /\ l \in DOMAIN t /\ t[l] = x /\ Members(t) = Members(toClient) \cup {x} /\ l \in Nat
      /\ \A n \in DOMAIN t : n \in DOMAIN toClient \/ n = l
      /\ \A n \in DOMAIN toClient : t[n] = toClient[n] /\ n < l /\ n \in Nat /\ toClient[n] \in Members(toClient)
  <2>1. toClient \in Seq(Pages \cup Answers)
    BY Typing
  <2>2. \A n \in DOMAIN toClient : toClient[n] \in Members(toClient)
    BY <2>1, MembersTyped
  <2>3. /\ DOMAIN toClient = 1 .. Len(toClient) /\ Len(toClient) \in Nat
        /\ l \in DOMAIN t /\ t[l] = x /\ Members(t) = Members(toClient) \cup {x}
        /\ \A n \in DOMAIN t : n \in DOMAIN toClient \/ n = l
        /\ \A n \in DOMAIN toClient : t[n] = toClient[n] /\ n < l
    BY <2>1, AppendMoves
  <2> QED BY <2>2, <2>3
<1>2. /\ g \in Nat /\ Stored(c) \in Nat /\ Stored(c) <= g
      /\ \A m \in Members(toClient) : Tells(m, c) => m.version \in Nat /\ m.version <= g
  BY Typing DEF Behind, Sound, Tells
<1>3. (h = g /\ member[c]) \/ h = g + 1
  BY DEF Fresh
<1>4. member[c] => /\ Stored(c) = g => \A m \in Members(toClient) : Tells(m, c) => m.version = g
                   /\ \A i, j \in DOMAIN toClient :
                         i < j /\ Tells(toClient[i], c) /\ Tells(toClient[j], c) /\ toClient[i].version = g
                         => toClient[j].version = g
  BY DEF NewestLast
<1>5. Tells(x, c) => x.version = h
  OBVIOUS
<1> HIDE DEF t, l, g, h
<1>6. ASSUME Stored(c) = h, NEW m \in Members(t), Tells(m, c)
      PROVE  m.version = h
  BY <1>1, <1>2, <1>3, <1>4, <1>5, <1>6
<1>7. ASSUME NEW i \in DOMAIN t, NEW j \in DOMAIN t, i < j, Tells(t[i], c), Tells(t[j], c), t[i].version = h
      PROVE  t[j].version = h
  <2>1. CASE j = l
    BY <1>1, <1>5, <1>7, <2>1
  <2>2. CASE j # l
    <3>1. j \in DOMAIN toClient /\ i # l
      BY <1>1, <1>7, <2>2
    <3>2. i \in DOMAIN toClient
      BY <1>1, <3>1
    <3>3. t[i] = toClient[i] /\ t[j] = toClient[j] /\ toClient[i] \in Members(toClient)
      BY <1>1, <3>1, <3>2
    <3>4. h = g /\ member[c]
      BY <1>2, <1>3, <1>7, <3>3
    <3> QED BY <1>4, <1>7, <3>1, <3>2, <3>3, <3>4
  <2> QED BY <2>1, <2>2
<1>8. toClient' = t /\ generation'[c] = h
  BY DEF t, h
<1> QED BY <1>6, <1>7, <1>8 DEF NewestLast, Tells

LEMMA NewestWaits ==
    ASSUME Inv, Behind, NEW c \in Chats, NewestLast(c), Fresh(c), Stored(c)' \in {Stored(c), 0},
           toClient' = toClient
    PROVE  NewestLast(c)'
<1> SUFFICES ASSUME member'[c] PROVE NewestLast(c)'
  BY DEF NewestLast
<1>2. /\ generation[c] \in Nat /\ Stored(c) \in Nat /\ Stored(c) <= generation[c]
      /\ member[c] => generation[c] > 0
      /\ \A m \in Members(toClient) : Tells(m, c) => m.version \in Nat /\ m.version <= generation[c]
      /\ \A n \in DOMAIN toClient : toClient[n] \in Members(toClient)
  BY Typing, MembersTyped DEF Behind, Sound, Tells
<1>3. CASE generation'[c] = generation[c] /\ member[c]
  BY <1>2, <1>3 DEF NewestLast, Tells
<1>4. CASE generation'[c] = generation[c] + 1
  <2>1. Stored(c)' # generation'[c]
    BY <1>2, <1>4
  <2>2. \A n \in DOMAIN toClient : Tells(toClient[n], c) => toClient[n].version # generation'[c]
    BY <1>2, <1>4
  <2> QED BY <2>1, <2>2 DEF NewestLast, Tells
<1> QED BY <1>3, <1>4 DEF Fresh

-----------------------------------------------------------------------------
(* What the actions do to the messages, the gateway and the store.         *)
LEMMA AnswersQueryDoes ==
    ASSUME Inv, GatewayAnswersQuery
    PROVE  \E query \in Members(toGateway), next \in 0 .. NumChats - 1 :
              /\ toGateway # <<>> /\ query = Head(toGateway) /\ query.kind = "query"
              /\ query.cursor \in 0 .. NumChats - 1 /\ query.cursor + 1 \in Chats
              /\ toGateway' = Tail(toGateway)
              /\ PageFor(query, next) \in Pages /\ toClient' = Append(toClient, PageFor(query, next))
              /\ \/ strained' = strained /\ next = IF MoreAfter(query) THEN query.cursor + 1 ELSE 0
                 \/ strained' = TRUE /\ next = query.cursor /\ next > 0
              /\ UNCHANGED <<member, generation, steps, online, entries, count, pages, call, dirty, cut>>
<1> DEFINE query == Head(toGateway)
           next  == IF MoreAfter(query) THEN query.cursor + 1 ELSE 0
<1>1. /\ toGateway # <<>> /\ query.kind = "query" /\ toGateway' = Tail(toGateway)
      /\ UNCHANGED <<member, generation, steps, online, entries, count, pages, call, dirty, cut>>
  BY DEF GatewayAnswersQuery, gatewayVars, storeVars
<1>2. query \in Members(toGateway) /\ query \in Queries \cup Requests
  BY <1>1, Typing, TailMoves
<1>3. /\ query.cursor \in 0 .. NumChats - 1 /\ query.cursor \in Nat /\ query.cursor + 1 \in Chats
      /\ \A c \in Chats : query.known[c].known \in BOOLEAN
  <2> HIDE DEF query
  <2>1. query.cursor \in 0 .. NumChats - 1 /\ \A c \in Chats : query.known[c].known \in BOOLEAN
    BY <1>1, <1>2, Messages
  <2> QED BY <2>1, Sizes DEF Chats
<1>4. next \in 0 .. NumChats - 1
  <2>1. CASE MoreAfter(query)
    <3>1. PICK c \in Chats : c > query.cursor + 1
      BY <2>1 DEF MoreAfter
    <3> QED BY <1>3, <2>1, <3>1, Sizes DEF Chats
  <2>2. CASE ~MoreAfter(query)
    BY <2>2, Sizes
  <2> QED BY <2>1, <2>2
<1>5. \A n \in 0 .. NumChats - 1 : PageFor(query, n) \in Pages
  <2>1. Version(query.cursor + 1) \in Versions
    BY <1>3, VersionTyped DEF Inv
  <2> QED BY <1>3, <2>1 DEF PageFor, Pages
<1>6. \/ /\ toClient' = Append(toClient, PageFor(query, next)) /\ strained' = strained
      \/ /\ toClient' = Append(toClient, PageFor(query, query.cursor)) /\ strained' = TRUE
         /\ query.cursor > 0
  BY DEF GatewayAnswersQuery
<1> HIDE DEF query
<1>7. CASE toClient' = Append(toClient, PageFor(query, next)) /\ strained' = strained
  <2> HIDE DEF next
  <2>1. PageFor(query, next) \in Pages
    BY <1>4, <1>5
  <2>2. next = IF MoreAfter(query) THEN query.cursor + 1 ELSE 0
    BY DEF next
  <2>3. query = Head(toGateway)
    BY DEF query
  <2> QED BY <1>1, <1>2, <1>3, <1>4, <1>7, <2>1, <2>2, <2>3
<1>8. CASE /\ toClient' = Append(toClient, PageFor(query, query.cursor)) /\ strained' = TRUE
           /\ query.cursor > 0
  <2>1. PageFor(query, query.cursor) \in Pages
    BY <1>3, <1>5
  <2>2. query = Head(toGateway)
    BY DEF query
  <2> QED BY <1>1, <1>2, <1>3, <1>8, <2>1, <2>2
<1> QED BY <1>6, <1>7, <1>8

LEMMA PageSays ==
    ASSUME Inv, Behind, NEW query \in Queries \cup Requests, query.kind = "query",
           query.cursor + 1 \in Chats, NEW next \in 0 .. NumChats - 1,
           NEW x \in Pages, x = PageFor(query, next), NEW c \in Chats
    PROVE  /\ x.kind = "page" /\ x.chat = query.cursor + 1 /\ x.next = next
           /\ Tells(x, c) => x.chat = c
           /\ member[c] /\ Tells(x, c) => x.version = generation[c]
           /\ member[c] /\ x.chat = c /\ query.known[c].version < generation[c] => Tells(x, c)
           /\ ~member[c] /\ Tells(x, c) => x.version = 0
           /\ ~member[c] /\ x.chat = c /\ query.known[c].known => Tells(x, c) /\ x.result = "missing"
           /\ Sound(x)
<1> DEFINE d == query.cursor + 1
<1>1. /\ x.kind = "page" /\ x.chat = d /\ x.version = Version(d) /\ x.next = next
      /\ x.result = IF ~member[d] THEN IF query.known[d].known THEN "missing" ELSE "none"
                    ELSE IF query.known[d].version < Version(d) THEN "record" ELSE "none"
  BY DEF PageFor
<1>2. /\ d \in Chats /\ Version(d) = (IF member[d] THEN generation[d] ELSE 0)
      /\ generation[d] \in Nat /\ (member[d] => generation[d] > 0)
  BY Typing DEF Behind, Version
<1> HIDE DEF d
<1>3. Sound(x)
  BY <1>1, <1>2 DEF Sound
<1>4. /\ Tells(x, c) => x.chat = c
      /\ member[c] /\ Tells(x, c) => x.version = generation[c]
      /\ member[c] /\ x.chat = c /\ query.known[c].version < generation[c] => Tells(x, c)
      /\ ~member[c] /\ Tells(x, c) => x.version = 0
      /\ ~member[c] /\ x.chat = c /\ query.known[c].known => Tells(x, c) /\ x.result = "missing"
  BY <1>1, <1>2 DEF Tells
<1> QED BY <1>1, <1>3, <1>4 DEF d

LEMMA AnswersCallDoes ==
    ASSUME Inv, GatewayAnswersCall
    PROVE  \E request \in Members(toGateway), x \in Answers :
              /\ toGateway # <<>> /\ request = Head(toGateway) /\ request.kind # "query"
              /\ request.chat \in Chats /\ request.id \in 1 .. MaxSteps
              /\ toGateway' = Tail(toGateway) /\ toClient' = Append(toClient, x)
              /\ x.kind = "answer" /\ x.chat = request.chat /\ x.id = request.id
              /\ \A c \in Chats : c # request.chat =>
                    member'[c] = member[c] /\ generation'[c] = generation[c]
              /\ LET c == request.chat IN
                 \/ /\ ~x.ok /\ x.version = 0
                    /\ member'[c] = member[c] /\ generation'[c] = generation[c]
                 \/ /\ x.ok /\ request.kind # "leave" /\ x.version = generation[c] + 1
                    /\ member'[c] /\ generation'[c] = generation[c] + 1
                 \/ /\ x.ok /\ request.kind = "leave" /\ x.version = 0
                    /\ member[c] /\ ~member'[c] /\ generation'[c] = generation[c]
                    /\ (call # NoCall /\ call.id = request.id) \/ c \in dirty'
              /\ dirty \subseteq dirty'
              /\ UNCHANGED <<steps, online, entries, count, pages, call, cut, strained>>
<1> DEFINE request == Head(toGateway)
           c  == request.chat
           ok == IF request.kind = "create" THEN ~member[c] ELSE member[c]
           grown == IF ok /\ request.kind # "leave" THEN generation[c] + 1 ELSE generation[c]
           x == [kind |-> "answer", chat |-> c, ok |-> ok, id |-> request.id,
                 version |-> IF ok /\ request.kind # "leave" THEN grown ELSE 0]
<1>1. toGateway # <<>> /\ request.kind # "query" /\ toGateway' = Tail(toGateway)
  BY DEF GatewayAnswersCall
<1>2. request \in Members(toGateway) /\ request \in Queries \cup Requests
  BY <1>1, Typing, TailMoves
<1>3. /\ c \in Chats /\ request.id \in 1 .. MaxSteps /\ ok \in BOOLEAN
      /\ generation[c] \in Nat /\ member[c] \in BOOLEAN
  BY <1>1, <1>2, Messages, Typing
<1>4. x \in Answers
  BY <1>3 DEF Answers, Versions
<1>5. /\ member' = [member EXCEPT ![c] = IF ok THEN request.kind # "leave" ELSE @]
      /\ generation' = [generation EXCEPT ![c] = grown]
      /\ toClient' = Append(toClient, x)
      /\ dirty' = IF ok /\ request.kind = "leave" /\ ~(call # NoCall /\ call.id = request.id)
                  THEN dirty \cup {c} ELSE dirty
      /\ UNCHANGED <<steps, online, entries, count, pages, call, cut, strained>>
  BY DEF GatewayAnswersCall, storeVars
<1>6. member \in [Chats -> BOOLEAN] /\ generation \in [Chats -> Versions]
  BY DEF Inv, LinksTyped
<1>7. /\ x.kind = "answer" /\ x.chat = c /\ x.id = request.id /\ x.ok = ok
      /\ x.version = IF ok /\ request.kind # "leave" THEN grown ELSE 0
  OBVIOUS
<1> HIDE DEF request, x
<1>8. \A d \in Chats : d # c => member'[d] = member[d] /\ generation'[d] = generation[d]
  BY <1>3, <1>5, <1>6
<1>9. /\ member'[c] = (IF ok THEN request.kind # "leave" ELSE member[c])
      /\ generation'[c] = grown
  BY <1>3, <1>5, <1>6
<1>10. \/ /\ ~x.ok /\ x.version = 0
          /\ member'[c] = member[c] /\ generation'[c] = generation[c]
       \/ /\ x.ok /\ request.kind # "leave" /\ x.version = generation[c] + 1
          /\ member'[c] /\ generation'[c] = generation[c] + 1
       \/ /\ x.ok /\ request.kind = "leave" /\ x.version = 0
          /\ member[c] /\ ~member'[c] /\ generation'[c] = generation[c]
          /\ (call # NoCall /\ call.id = request.id) \/ c \in dirty'
  <2>1. CASE ~ok
    BY <1>7, <1>9, <2>1
  <2>2. CASE ok /\ request.kind # "leave"
    BY <1>7, <1>9, <2>2
  <2>3. CASE ok /\ request.kind = "leave"
    BY <1>3, <1>5, <1>7, <1>9, <2>3
  <2> QED BY <2>1, <2>2, <2>3
<1>11. dirty \subseteq dirty'
  BY <1>5
<1>12. request = Head(toGateway)
  BY DEF request
<1> HIDE DEF ok, grown
<1> QED BY <1>1, <1>2, <1>3, <1>4, <1>5, <1>7, <1>8, <1>10, <1>11, <1>12

LEMMA SyncDoes ==
    ASSUME Inv, SyncChats \/ Authenticated
    PROVE  LET q == QueryFrom(0, KnownVersions) IN
           /\ q \in Queries /\ q.kind = "query" /\ q.cursor = 0
           /\ \A c \in Chats : q.known[c].known = Known(c) /\ q.known[c].version = Stored(c)
           /\ toGateway' = Append(toGateway, q)
           /\ pages' = 1 /\ dirty' = {} /\ cut' = FALSE /\ online'
           /\ strained' <=> toGateway # <<>> \/ toClient # <<>>
           /\ steps' = steps \/ (steps' = steps - 1 /\ steps > 0)
           /\ UNCHANGED <<member, generation, toClient, entries, count, call>>
<1>1. /\ StartSync /\ online'
      /\ steps' = steps \/ (steps' = steps - 1 /\ steps > 0)
      /\ UNCHANGED <<member, generation, toClient, entries, count, call>>
  <2>1. StartSync /\ UNCHANGED <<member, generation, toClient, entries, count, call>>
    BY DEF SyncChats, Authenticated, gatewayVars, storeVars
  <2>2. online'
    <3>1. CASE SyncChats
      BY <3>1 DEF SyncChats
    <3>2. CASE Authenticated
      BY <3>2, Zenon DEF Authenticated
    <3> QED BY <3>1, <3>2
  <2>3. steps' = steps \/ (steps' = steps - 1 /\ steps > 0)
    BY DEF SyncChats, Authenticated, Step
  <2> QED BY <2>1, <2>2, <2>3
<1>2. QueryFrom(0, KnownVersions) \in Queries
  BY QueryTyped, Sizes DEF Inv
<1>3. \A c \in Chats : KnownVersions[c] = [known |-> Known(c), version |-> Stored(c)]
  BY DEF KnownVersions
<1>4. LET q == QueryFrom(0, KnownVersions) IN
      /\ q.kind = "query" /\ q.cursor = 0
      /\ \A c \in Chats : q.known[c].known = Known(c) /\ q.known[c].version = Stored(c)
  <2> DEFINE K == KnownVersions
  <2>1. \A c \in Chats : K[c].known = Known(c) /\ K[c].version = Stored(c)
    <3> SUFFICES ASSUME NEW c \in Chats
                 PROVE  K[c].known = Known(c) /\ K[c].version = Stored(c)
      OBVIOUS
    <3> DEFINE a == Known(c)
               b == Stored(c)
    <3>1. K[c] = [known |-> a, version |-> b]
      BY <1>3
    <3> HIDE DEF K, a, b
    <3>2. K[c].known = a /\ K[c].version = b
      BY <3>1
    <3> QED BY <3>2 DEF a, b
  <2> HIDE DEF K
  <2>2. LET q == QueryFrom(0, K) IN q.kind = "query" /\ q.cursor = 0 /\ q.known = K
    BY DEF QueryFrom
  <2>3. LET q == QueryFrom(0, K) IN
        \A c \in Chats : q.known[c].known = Known(c) /\ q.known[c].version = Stored(c)
    BY <2>1, <2>2
  <2> QED BY <2>2, <2>3 DEF K
<1> QED BY <1>1, <1>2, <1>4 DEF StartSync

(* The next query, or none: the cursor was the last or the budget is spent.*)
Resumed(next) ==
    \/ /\ next = 0 \/ (pages >= MaxPages /\ cut')
       /\ (next = 0 => cut' = cut) /\ UNCHANGED <<toGateway, pages>>
    \/ /\ next # 0 /\ pages < MaxPages /\ pages' = pages + 1 /\ cut' = cut
       /\ \E q \in Queries :
             /\ q.kind = "query" /\ q.cursor = next /\ toGateway' = Append(toGateway, q)
             /\ \A c \in Chats : (q.known[c].known <=> Known(c)') /\ q.known[c].version = Stored(c)'

LEMMA PageDoes ==
    ASSUME Inv, StoreOK', DispatchPage
    PROVE  /\ online /\ Head(toClient).kind = "page" /\ Resumed(Head(toClient).next)
           /\ UNCHANGED <<member, generation, steps, online, call, dirty, strained>>
<1> DEFINE page == Head(toClient)
<1>1. /\ online /\ toClient # <<>> /\ page.kind = "page" /\ Continue(page.next)
      /\ UNCHANGED <<member, generation, steps, online, call, dirty, strained>>
  BY DEF DispatchPage, HandlePage, gatewayVars
<1>2. page \in Pages \cup Answers
  BY <1>1, Typing, TailMoves
<1>3. page.next \in 0 .. NumChats - 1
  BY <1>1, <1>2, Messages
<1>4. pages \in Nat /\ MaxPages \in Nat
  BY Sizes DEF Inv, LinksTyped
<1> HIDE DEF page
<1>5. CASE page.next # 0 /\ pages < MaxPages
  <2> DEFINE K == KnownVersions'
             q == QueryFrom(page.next, K)
  <2>1. toGateway' = Append(toGateway, q) /\ pages' = pages + 1 /\ cut' = cut
    BY <1>1, <1>5 DEF Continue
  <2>2. KnownVersions' \in [Chats -> [known : BOOLEAN, version : Versions]]
    BY NextKnownVersionsTyped
  <2>3. q \in Queries
    BY <1>3, <2>2 DEF QueryFrom, Queries
  <2>4. \A c \in Chats : KnownVersions'[c] = [known |-> Known(c)', version |-> Stored(c)']
    BY DEF KnownVersions
  <2>5. /\ q.kind = "query" /\ q.cursor = page.next
        /\ \A c \in Chats : (q.known[c].known <=> Known(c)') /\ q.known[c].version = Stored(c)'
    <3>1. \A c \in Chats : (K[c].known <=> Known(c)') /\ K[c].version = Stored(c)'
      <4> SUFFICES ASSUME NEW c \in Chats
                   PROVE  (K[c].known <=> Known(c)') /\ K[c].version = Stored(c)'
        OBVIOUS
      <4> DEFINE a == Known(c)'
                 b == Stored(c)'
      <4>1. K[c] = [known |-> a, version |-> b]
        BY <2>4
      <4> HIDE DEF K, a, b
      <4>2. K[c].known = a /\ K[c].version = b
        BY <4>1
      <4> QED BY <4>2 DEF a, b
    <3> HIDE DEF K
    <3>2. q.kind = "query" /\ q.cursor = page.next /\ q.known = K
      BY DEF QueryFrom
    <3> HIDE DEF q
    <3> QED BY <3>1, <3>2
  <2> HIDE DEF q
  <2> QED BY <1>1, <1>5, <2>1, <2>3, <2>5 DEF Resumed, page
<1>6. CASE page.next = 0 \/ ~(pages < MaxPages)
  <2>1. CASE page.next = 0
    BY <1>1, <2>1 DEF Resumed, Continue, page
  <2>2. CASE page.next # 0 /\ ~(pages < MaxPages)
    <3>1. pages >= MaxPages /\ cut' /\ UNCHANGED <<toGateway, pages>>
      BY <1>1, <1>4, <2>2 DEF Continue
    <3> QED BY <1>1, <2>2, <3>1 DEF Resumed, page
  <2> QED BY <1>6, <2>1, <2>2
<1> QED BY <1>5, <1>6

LEMMA ReturnDoes ==
    ASSUME Inv, OwnIds, CallReturns
    PROVE  /\ call # NoCall /\ call.status # "waiting" /\ call' = NoCall
           /\ dirty \subseteq dirty'
           /\ UNCHANGED <<member, generation, toGateway, toClient, steps, online, pages, cut, strained>>
           /\ \/ /\ call.kind = "leave" /\ call.status = "ok"
                 /\ \A c \in Chats : /\ Stored(c)' = IF c = call.chat THEN 0 ELSE Stored(c)
                                     /\ Known(c)' <=> c # call.chat /\ Known(c)
                 /\ call.chat \in Chats /\ (member[call.chat] => call.chat \in dirty')
              \/ /\ ~(call.kind = "leave" /\ call.status = "ok")
                 /\ \A c \in Chats : Stored(c)' = Stored(c) /\ (Known(c)' <=> Known(c))
<1>1. /\ call # NoCall /\ call.status # "waiting" /\ call' = NoCall
      /\ UNCHANGED <<member, generation, toGateway, toClient, steps, online, pages, cut, strained>>
  BY DEF CallReturns, gatewayVars
<1>2. CASE call.kind = "leave" /\ call.status = "ok"
  <2>1. LeaveDropsChat /\ \A f : Named(f) = call.chat
    BY <1>1, <1>2 DEF CallReturns, OwnIds, Named
  <2>2. /\ Drop(call.chat, call.chat)
        /\ dirty' = IF member[call.chat] THEN dirty \cup {call.chat} ELSE dirty
    BY <2>1 DEF LeaveDropsChat
  <2>3. call.chat \in Chats
    BY <1>1, Fields DEF Inv, LinksTyped
  <2>4. \A c \in Chats : /\ Stored(c)' = IF c = call.chat THEN 0 ELSE Stored(c)
                         /\ Known(c)' <=> c # call.chat /\ Known(c)
    BY <2>2, <2>3, DropStores DEF Inv
  <2> QED BY <1>1, <1>2, <2>2, <2>3, <2>4
<1>3. CASE ~(call.kind = "leave" /\ call.status = "ok")
  <2>1. UNCHANGED <<entries, count>> /\ dirty' = dirty
    BY <1>3 DEF CallReturns, storeVars
  <2> QED BY <1>1, <1>3, <2>1, SameStored
<1> QED BY <1>2, <1>3

-----------------------------------------------------------------------------
(* Behind and NewestLast, action by action.                                *)
LEMMA BehindKept ==
    ASSUME Inv, Inv', Behind,
           \A c \in Chats : /\ generation[c] <= generation'[c]
                            /\ member'[c] => member[c] \/ generation'[c] = generation[c] + 1,
           \A c \in Chats :
              \/ Stored(c)' = Stored(c) /\ (Known(c)' <=> Known(c))
              \/ Stored(c)' = 0 /\ ~Known(c)'
              \/ \E m \in Members(toClient) :
                    Tells(m, c) /\ Stored(c)' = m.version /\ (Known(c)' <=> m.version > 0),
           \A m \in Members(toClient)' : m \in Members(toClient) \/ Sound(m)',
           \A q \in Members(toGateway)' :
              \/ q \in Members(toGateway) \/ q.kind # "query"
              \/ \A c \in Chats : q.known[c].version = Stored(c) \/ q.known[c].version = Stored(c)'
    PROVE  Behind'
<1>1. \A c \in Chats : /\ generation[c] \in Nat /\ generation'[c] \in Nat /\ Stored(c) \in Nat
                       /\ Stored(c) <= generation[c] /\ (Known(c) <=> Stored(c) > 0)
                       /\ member[c] => generation[c] > 0
  <2>1. \A c \in Chats : generation'[c] \in Nat
    BY DEF Inv, LinksTyped, Versions
  <2> QED BY <2>1, Typing DEF Behind
<1>2. \A m \in Members(toClient) : m.chat \in Chats /\ m.version \in Nat /\ Sound(m)
  BY Typing DEF Behind
<1>3. ASSUME NEW c \in Chats
      PROVE  /\ Stored(c)' <= generation'[c] /\ (Known(c)' <=> Stored(c)' > 0)
             /\ member'[c] => generation'[c] > 0
  <2>1. member'[c] => generation'[c] > 0
    BY <1>1
  <2>2. CASE Stored(c)' = Stored(c) /\ (Known(c)' <=> Known(c))
    BY <1>1, <2>1, <2>2
  <2>3. CASE Stored(c)' = 0 /\ ~Known(c)'
    BY <1>1, <2>1, <2>3
  <2>4. CASE \E m \in Members(toClient) :
                Tells(m, c) /\ Stored(c)' = m.version /\ (Known(c)' <=> m.version > 0)
    <3>1. PICK m \in Members(toClient) :
             Tells(m, c) /\ Stored(c)' = m.version /\ (Known(c)' <=> m.version > 0)
      BY <2>4
    <3>2. m.version <= generation[c] /\ m.version \in Nat
      BY <1>2, <3>1 DEF Sound, Tells
    <3> QED BY <1>1, <2>1, <3>1, <3>2
  <2> QED BY <2>2, <2>3, <2>4
<1>4. ASSUME NEW m \in Members(toClient)'
      PROVE  Sound(m)'
  <2>1. CASE m \in Members(toClient)
    <3>1. m.chat \in Chats /\ m.version \in Nat /\ Sound(m)
      BY <1>2, <2>1
    <3>2. m.version <= generation'[m.chat]
      BY <1>1, <3>1 DEF Sound
    <3> QED BY <3>1, <3>2 DEF Sound
  <2> QED BY <2>1
<1>5. ASSUME NEW q \in Members(toGateway)', q.kind = "query", NEW c \in Chats
      PROVE  q.known[c].version <= generation'[c]
  <2>1. CASE q \in Members(toGateway)
    <3>1. q.known[c].version \in Nat /\ q.known[c].version <= generation[c]
      <4>1. q \in Queries \cup Requests
        BY <2>1, Typing
      <4> QED BY <1>5, <2>1, <4>1, Messages DEF Behind
    <3> QED BY <1>1, <3>1
  <2>2. CASE q.known[c].version = Stored(c) \/ q.known[c].version = Stored(c)'
    BY <1>1, <1>3, <2>2
  <2> QED BY <1>5, <2>1, <2>2
<1> QED BY <1>3, <1>4, <1>5 DEF Behind

Grounded == Inv /\ OwnIds /\ Behind /\ \A c \in Chats : NewestLast(c)

LEMMA OthersGrounded ==
    ASSUME Grounded, Inv', NEW d \in Chats, ChangedByOthers(d)
    PROVE  Behind' /\ \A c \in Chats : NewestLast(c)'
<1>1. /\ UNCHANGED <<toGateway, toClient, entries, count>>
      /\ \/ member' = [member EXCEPT ![d] = FALSE] /\ generation' = generation
         \/ /\ generation' = [generation EXCEPT ![d] = @ + 1]
            /\ member' = [member EXCEPT ![d] = TRUE]
  BY DEF ChangedByOthers, storeVars
<1>2. /\ member \in [Chats -> BOOLEAN] /\ generation \in [Chats -> Versions]
      /\ \A c \in Chats : generation[c] \in Nat
  BY Typing DEF Grounded, Inv, LinksTyped
<1>3. \A c \in Chats : Fresh(c) /\ generation[c] <= generation'[c]
                       /\ (member'[c] => member[c] \/ generation'[c] = generation[c] + 1)
  BY <1>1, <1>2 DEF Fresh
<1>4. \A c \in Chats : Stored(c)' = Stored(c) /\ (Known(c)' <=> Known(c))
  BY <1>1, SameStored
<1>5. Behind'
  <2>1. Members(toClient)' = Members(toClient) /\ Members(toGateway)' = Members(toGateway)
    BY <1>1
  <2> QED BY <1>3, <1>4, <2>1, BehindKept DEF Grounded
<1>6. \A c \in Chats : NewestLast(c)'
  BY <1>1, <1>3, <1>4, NewestWaits DEF Grounded
<1> QED BY <1>5, <1>6

LEMMA AnswersQueryGrounded ==
    ASSUME Grounded, Inv', GatewayAnswersQuery
    PROVE  Behind' /\ \A c \in Chats : NewestLast(c)'
<1>1. PICK query \in Members(toGateway), next \in 0 .. NumChats - 1 :
         /\ toGateway # <<>> /\ query = Head(toGateway) /\ query.kind = "query"
         /\ query.cursor + 1 \in Chats /\ toGateway' = Tail(toGateway)
         /\ PageFor(query, next) \in Pages /\ toClient' = Append(toClient, PageFor(query, next))
         /\ UNCHANGED <<member, generation, entries, count>>
  BY AnswersQueryDoes DEF Grounded
<1> PICK x \in Pages : x = PageFor(query, next)
  BY <1>1
<1>2. query \in Queries \cup Requests /\ x \in Pages \cup Answers /\ toClient' = Append(toClient, x)
  BY <1>1, Typing DEF Grounded
<1>3. \A c \in Chats : Sound(x) /\ (member[c] /\ Tells(x, c) => x.version = generation[c])
  BY <1>1, <1>2, PageSays DEF Grounded
<1>4. Members(toClient)' = Members(toClient) \cup {x} /\ Members(toGateway)' \subseteq Members(toGateway)
  <2>1. toClient \in Seq(Pages \cup Answers) /\ toGateway \in Seq(Queries \cup Requests)
    BY Typing DEF Grounded
  <2>2. Members(toClient)' = Members(toClient) \cup {x}
    BY <1>2, <2>1, AppendMoves
  <2>3. Members(toGateway)' \subseteq Members(toGateway)
    BY <1>1, <2>1, TailMoves
  <2> QED BY <2>2, <2>3
<1>5. \A c \in Chats : Stored(c)' = Stored(c) /\ (Known(c)' <=> Known(c))
  BY <1>1, SameStored
<1>6. \A c \in Chats : Fresh(c) /\ generation[c] <= generation'[c] /\ (member'[c] => member[c])
  BY <1>1, Typing DEF Fresh, Grounded
<1>7. Sound(x)'
  BY <1>1, <1>3 DEF Sound
<1>8. Behind'
  BY <1>4, <1>5, <1>6, <1>7, BehindKept DEF Grounded
<1>9. \A c \in Chats : NewestLast(c)'
  BY <1>1, <1>2, <1>3, <1>5, <1>6, NewestAppended DEF Grounded
<1> QED BY <1>8, <1>9

LEMMA AnswersCallGrounded ==
    ASSUME Grounded, Inv', GatewayAnswersCall
    PROVE  Behind' /\ \A c \in Chats : NewestLast(c)'
<1>1. PICK request \in Members(toGateway), x \in Answers :
         /\ toGateway # <<>> /\ toGateway' = Tail(toGateway) /\ toClient' = Append(toClient, x)
         /\ x.kind = "answer" /\ x.chat = request.chat /\ request.chat \in Chats
         /\ \A c \in Chats : c # request.chat =>
               member'[c] = member[c] /\ generation'[c] = generation[c]
         /\ LET c == request.chat IN
            \/ x.version = 0 /\ member'[c] = member[c] /\ generation'[c] = generation[c]
            \/ x.version = generation[c] + 1 /\ generation'[c] = generation[c] + 1
            \/ x.version = 0 /\ ~member'[c] /\ generation'[c] = generation[c]
         /\ UNCHANGED <<entries, count>>
  BY AnswersCallDoes DEF Grounded
<1>2. \A c \in Chats : generation[c] \in Nat
  BY Typing DEF Grounded
<1>3. \A c \in Chats : Stored(c)' = Stored(c) /\ (Known(c)' <=> Known(c))
  BY <1>1, SameStored
<1>4. Members(toClient)' = Members(toClient) \cup {x} /\ Members(toGateway)' \subseteq Members(toGateway)
  <2>1. toClient \in Seq(Pages \cup Answers) /\ toGateway \in Seq(Queries \cup Requests)
    BY Typing DEF Grounded
  <2>2. Members(toClient)' = Members(toClient) \cup {x}
    BY <1>1, <2>1, AppendMoves
  <2>3. Members(toGateway)' \subseteq Members(toGateway)
    BY <1>1, <2>1, TailMoves
  <2> QED BY <2>2, <2>3
<1>5. \A c \in Chats : /\ Fresh(c) /\ generation[c] <= generation'[c]
                       /\ (member'[c] => member[c] \/ generation'[c] = generation[c] + 1)
                       /\ (Tells(x, c) => x.version = generation'[c])
  BY <1>1, <1>2 DEF Fresh, Tells
<1>6. Sound(x)'
  BY <1>1, <1>2 DEF Sound
<1>7. Behind'
  BY <1>3, <1>4, <1>5, <1>6, BehindKept DEF Grounded
<1>8. \A c \in Chats : NewestLast(c)'
  BY <1>1, <1>3, <1>5, NewestAppended DEF Grounded
<1> QED BY <1>7, <1>8

LEMMA SyncGrounded ==
    ASSUME Grounded, Inv', SyncChats \/ Authenticated
    PROVE  Behind' /\ \A c \in Chats : NewestLast(c)'
<1> DEFINE q == QueryFrom(0, KnownVersions)
<1>1. /\ q \in Queries /\ \A c \in Chats : q.known[c].version = Stored(c)
      /\ toGateway' = Append(toGateway, q)
      /\ UNCHANGED <<member, generation, toClient, entries, count>>
  BY SyncDoes DEF Grounded
<1> HIDE DEF q
<1>2. Members(toGateway)' = Members(toGateway) \cup {q} /\ Members(toClient)' = Members(toClient)
  BY <1>1, Typing, AppendMoves DEF Grounded
<1>3. \A c \in Chats : Stored(c)' = Stored(c) /\ (Known(c)' <=> Known(c))
  BY <1>1, SameStored
<1>4. \A c \in Chats : Fresh(c) /\ generation[c] <= generation'[c] /\ (member'[c] => member[c])
  BY <1>1, Typing DEF Fresh, Grounded
<1>5. Behind'
  BY <1>1, <1>2, <1>3, <1>4, BehindKept DEF Grounded
<1>6. \A c \in Chats : NewestLast(c)'
  BY <1>1, <1>3, <1>4, NewestWaits DEF Grounded
<1> QED BY <1>5, <1>6

LEMMA DispatchGrounded ==
    ASSUME Grounded, Inv', DispatchPage \/ DispatchAnswer
    PROVE  Behind' /\ \A c \in Chats : NewestLast(c)'
<1> DEFINE m == Head(toClient)
<1>1. /\ toClient # <<>> /\ toClient' = Tail(toClient) /\ m \in Members(toClient)
      /\ m \in Pages \cup Answers /\ Believed(m) /\ UNCHANGED <<member, generation>>
  BY DispatchBelieved DEF Grounded
<1>2. \A q \in Members(toGateway)' :
         q \in Members(toGateway) \/ \A c \in Chats : q.known[c].version = Stored(c)'
  <2>1. CASE DispatchPage
    <3>1. Resumed(m.next)
      BY <2>1, PageDoes DEF Grounded, Inv
    <3>2. CASE toGateway' = toGateway
      BY <3>2
    <3>3. CASE \E q \in Queries : /\ toGateway' = Append(toGateway, q)
                                  /\ \A c \in Chats : q.known[c].version = Stored(c)'
      <4>1. PICK q \in Queries : /\ toGateway' = Append(toGateway, q)
                                 /\ \A c \in Chats : q.known[c].version = Stored(c)'
        BY <3>3
      <4>2. Members(toGateway)' = Members(toGateway) \cup {q}
        BY <4>1, Typing, AppendMoves DEF Grounded
      <4> QED BY <4>1, <4>2
    <3> QED BY <3>1, <3>2, <3>3 DEF Resumed
  <2>2. CASE DispatchAnswer
    BY <2>2 DEF DispatchAnswer
  <2> QED BY <2>1, <2>2
<1> HIDE DEF m
<1>3. Members(toClient)' \subseteq Members(toClient)
  BY <1>1, Typing, TailMoves DEF Grounded
<1>4. \A c \in Chats : /\ generation[c] <= generation'[c]
                       /\ member'[c] => member[c] \/ generation'[c] = generation[c] + 1
  BY <1>1, Typing DEF Grounded
<1>5. \A c \in Chats :
         \/ Stored(c)' = Stored(c) /\ (Known(c)' <=> Known(c))
         \/ Stored(c)' = 0 /\ ~Known(c)'
         \/ \E n \in Members(toClient) :
               Tells(n, c) /\ Stored(c)' = n.version /\ (Known(c)' <=> n.version > 0)
  BY <1>1 DEF Believed
<1>6. Behind'
  BY <1>2, <1>3, <1>4, <1>5, BehindKept DEF Grounded
<1>7. \A c \in Chats : NewestLast(c)'
  BY <1>1, NewestTaken DEF Grounded, m
<1> QED BY <1>6, <1>7

LEMMA ReturnGrounded ==
    ASSUME Grounded, Inv', CallReturns
    PROVE  Behind' /\ \A c \in Chats : NewestLast(c)'
<1>1. /\ UNCHANGED <<member, generation, toGateway, toClient>>
      /\ \A c \in Chats : \/ Stored(c)' = Stored(c) /\ (Known(c)' <=> Known(c))
                          \/ Stored(c)' = 0 /\ ~Known(c)'
  BY ReturnDoes DEF Grounded
<1>2. \A c \in Chats : Fresh(c) /\ generation[c] <= generation'[c] /\ (member'[c] => member[c])
  BY <1>1, Typing DEF Fresh, Grounded
<1>3. Members(toGateway)' = Members(toGateway) /\ Members(toClient)' = Members(toClient)
  BY <1>1
<1>4. Behind'
  BY <1>1, <1>2, <1>3, BehindKept DEF Grounded
<1>5. \A c \in Chats : NewestLast(c)'
  BY <1>1, <1>2, NewestWaits DEF Grounded
<1> QED BY <1>4, <1>5

(* The other actions leave the store and the gateway alone, and bring no   *)
(* message for the client and no query.                                    *)
LEMMA QuietGrounded ==
    ASSUME Grounded, Inv',
           UNCHANGED <<member, generation, entries, count>>,
           toClient' = toClient \/ toClient' = <<>>,
           \A q \in Members(toGateway)' : q \in Members(toGateway) \/ q.kind # "query"
    PROVE  Behind' /\ \A c \in Chats : NewestLast(c)'
<1>1. \A c \in Chats : Stored(c)' = Stored(c) /\ (Known(c)' <=> Known(c))
  BY SameStored
<1>2. \A c \in Chats : Fresh(c) /\ generation[c] <= generation'[c] /\ (member'[c] => member[c])
  BY Typing DEF Fresh, Grounded
<1>3. Members(toClient)' \subseteq Members(toClient)
  BY DEF Members
<1>4. Behind'
  BY <1>1, <1>2, <1>3, BehindKept DEF Grounded
<1>5. \A c \in Chats : NewestLast(c)'
  <2>1. CASE toClient' = toClient
    BY <1>1, <1>2, <2>1, NewestWaits DEF Grounded
  <2>2. CASE toClient' = <<>>
    BY <2>2 DEF NewestLast, Members
  <2> QED BY <2>1, <2>2
<1> QED BY <1>4, <1>5

LEMMA QuietActions ==
    ASSUME Inv, \/ \E c \in Chats, kind \in {"create", "rotate", "leave"} : StartCall(kind, c)
                \/ CallTimesOut \/ Lose \/ UNCHANGED vars
    PROVE  /\ UNCHANGED <<member, generation, entries, count>>
           /\ toClient' = toClient \/ toClient' = <<>>
           /\ \A q \in Members(toGateway)' : q \in Members(toGateway) \/ q.kind # "query"
<1>1. CASE \E c \in Chats, kind \in {"create", "rotate", "leave"} : StartCall(kind, c)
  <2>1. PICK c \in Chats, kind \in {"create", "rotate", "leave"} : StartCall(kind, c)
    BY <1>1
  <2> DEFINE r == [kind |-> kind, chat |-> c, id |-> steps]
  <2>2. /\ UNCHANGED <<member, generation, entries, count, toClient>>
        /\ toGateway' = Append(toGateway, r)
    BY <2>1 DEF StartCall, gatewayVars, storeVars
  <2>3. r \in Queries \cup Requests /\ r.kind # "query"
    <3>1. steps \in 1 .. MaxSteps
      BY <2>1, Sizes DEF StartCall, Step, Inv, LinksTyped
    <3> QED BY <3>1 DEF Requests
  <2> HIDE DEF r
  <2>4. Members(toGateway)' = Members(toGateway) \cup {r}
    BY <2>2, <2>3, Typing, AppendMoves
  <2> QED BY <2>2, <2>3, <2>4
<1>2. CASE CallTimesOut \/ UNCHANGED vars
  BY <1>2 DEF CallTimesOut, vars, gatewayVars, storeVars
<1>3. CASE Lose
  BY <1>3 DEF Lose, gatewayVars, storeVars, Members
<1> QED BY <1>1, <1>2, <1>3

LEMMA EveryStepGrounded ==
    ASSUME ~BorrowedIds, Grounded, [Next]_vars
    PROVE  Grounded'
<1>1. Inv' /\ OwnIds'
  BY EveryStepKeeps DEF Kept, Grounded
<1>2. Behind' /\ \A c \in Chats : NewestLast(c)'
  <2>1. CASE \/ \E c \in Chats, kind \in {"create", "rotate", "leave"} : StartCall(kind, c)
             \/ CallTimesOut \/ Lose \/ UNCHANGED vars
    <3>1. Inv
      BY DEF Grounded
    <3> QED BY <1>1, <2>1, <3>1, QuietActions, QuietGrounded
  <2> QED BY <1>1, <2>1, OthersGrounded, AnswersQueryGrounded, AnswersCallGrounded, SyncGrounded,
             DispatchGrounded, ReturnGrounded DEF Next
<1> QED BY <1>1, <1>2 DEF Grounded

-----------------------------------------------------------------------------
(* Calls and their answers: each id travels once, and a call that was      *)
(* answered has nothing more under way.                                    *)
HasId(m) == m.kind \in {"create", "rotate", "leave", "answer"}

DistinctIds(s) ==
    \A i, j \in DOMAIN s : HasId(s[i]) /\ HasId(s[j]) /\ s[i].id = s[j].id => i = j

IdsApart ==
    /\ \A m \in Members(toGateway) \cup Members(toClient) : HasId(m) => m.id > steps
    /\ call # NoCall => call.id > steps
    /\ DistinctIds(toGateway) /\ DistinctIds(toClient)
    /\ \A r \in Members(toGateway), a \in Members(toClient) :
          HasId(r) /\ HasId(a) => r.id # a.id

CallAlone ==
    call # NoCall =>
        \A m \in Members(toGateway) \cup Members(toClient) :
            HasId(m) /\ m.id = call.id
            => call.status = "waiting" /\ m.chat = call.chat /\ m.kind \in {call.kind, "answer"}

LEMMA DistinctAppend ==
    ASSUME NEW S, NEW s \in Seq(S), NEW x \in S, DistinctIds(s),
           HasId(x) => \A m \in Members(s) : HasId(m) => m.id # x.id
    PROVE  DistinctIds(Append(s, x))
<1> DEFINE t == Append(s, x)
           l == Len(s) + 1
<1>1. /\ t[l] = x /\ \A n \in DOMAIN t : n \in DOMAIN s \/ n = l
      /\ \A n \in DOMAIN s : t[n] = s[n] /\ s[n] \in Members(s)
  BY AppendMoves, MembersTyped
<1> HIDE DEF t, l
<1>2. ASSUME NEW i \in DOMAIN t, NEW j \in DOMAIN t, HasId(t[i]), HasId(t[j]), t[i].id = t[j].id
      PROVE  i = j
  <2>1. CASE i \in DOMAIN s /\ j \in DOMAIN s
    BY <1>1, <1>2, <2>1 DEF DistinctIds
  <2>2. CASE i \in DOMAIN s /\ j = l
    BY <1>1, <1>2, <2>2
  <2>3. CASE i = l /\ j \in DOMAIN s
    BY <1>1, <1>2, <2>3
  <2> QED BY <1>1, <2>1, <2>2, <2>3
<1> QED BY <1>2 DEF DistinctIds, t

LEMMA DistinctTail ==
    ASSUME NEW S, NEW s \in Seq(S), s # <<>>, DistinctIds(s)
    PROVE  /\ DistinctIds(Tail(s))
           /\ HasId(Head(s)) => \A m \in Members(Tail(s)) : HasId(m) => m.id # Head(s).id
<1> DEFINE t == Tail(s)
           h == Head(s)
<1>1. /\ 1 \in DOMAIN s /\ h = s[1] /\ DOMAIN t = 1 .. Len(s) - 1 /\ Len(s) \in Nat
      /\ \A n \in DOMAIN t : n + 1 \in DOMAIN s /\ t[n] = s[n + 1] /\ 1 < n + 1
  BY TailMoves
<1> HIDE DEF t, h
<1>2. ASSUME NEW i \in DOMAIN t, NEW j \in DOMAIN t, HasId(t[i]), HasId(t[j]), t[i].id = t[j].id
      PROVE  i = j
  <2>1. i + 1 = j + 1
    BY <1>1, <1>2 DEF DistinctIds
  <2> QED BY <1>1, <2>1
<1>3. ASSUME HasId(h), NEW m \in Members(t), HasId(m)
      PROVE  m.id # h.id
  <2>1. PICK n \in DOMAIN t : m = t[n]
    BY DEF Members
  <2>2. n + 1 \in DOMAIN s /\ m = s[n + 1] /\ n + 1 # 1
    BY <1>1, <2>1
  <2> QED BY <1>1, <1>3, <2>2 DEF DistinctIds
<1> QED BY <1>2, <1>3 DEF DistinctIds, t, h

IdsOK == IdsApart /\ CallAlone

(* Fewer steps left, and nothing in flight that was not before.            *)
LEMMA IdsQuiet ==
    ASSUME Inv, IdsOK, steps' = steps \/ steps' = steps - 1,
           \/ toGateway' = toGateway \/ toGateway' = <<>>
           \/ \E q \in Queries : toGateway' = Append(toGateway, q),
           \/ toClient' = toClient \/ toClient' = <<>>
           \/ toClient # <<>> /\ toClient' = Tail(toClient),
           call' = call \/ call' = NoCall
    PROVE  IdsOK'
<1>1. toClient \in Seq(Pages \cup Answers) /\ toGateway \in Seq(Queries \cup Requests) /\ steps \in Nat
  BY Typing, Sizes DEF Inv, LinksTyped
<1>2. Members(toClient)' \subseteq Members(toClient) /\ DistinctIds(toClient)'
  <2>1. CASE toClient' = toClient \/ toClient' = <<>>
    BY <2>1 DEF Members, DistinctIds, IdsOK, IdsApart
  <2>2. CASE toClient # <<>> /\ toClient' = Tail(toClient)
    <3>1. DistinctIds(Tail(toClient))
      BY <1>1, <2>2, DistinctTail DEF IdsOK, IdsApart
    <3> QED BY <1>1, <2>2, <3>1, TailMoves
  <2> QED BY <2>1, <2>2
<1>3. DistinctIds(toGateway)' /\ \A m \in Members(toGateway)' : HasId(m) => m \in Members(toGateway)
  <2>1. CASE toGateway' = toGateway \/ toGateway' = <<>>
    BY <2>1 DEF Members, DistinctIds, IdsOK, IdsApart
  <2>2. CASE \E q \in Queries : toGateway' = Append(toGateway, q)
    <3>1. PICK q \in Queries : toGateway' = Append(toGateway, q)
      BY <2>2
    <3>2. ~HasId(q)
      BY DEF HasId, Queries
    <3>3. DistinctIds(toGateway')
      BY <1>1, <3>1, <3>2, DistinctAppend DEF IdsOK, IdsApart
    <3>4. Members(toGateway)' = Members(toGateway) \cup {q}
      BY <1>1, <3>1, AppendMoves
    <3> QED BY <3>2, <3>3, <3>4
  <2> QED BY <2>1, <2>2
<1>4. \A m \in Members(toGateway) \cup Members(toClient) : HasId(m) => m.id \in Nat
  <2>1. \A m \in (Queries \cup Requests) \cup (Pages \cup Answers) : HasId(m) => m.id \in Nat
    BY Messages, Sizes DEF HasId
  <2> QED BY <2>1, Typing
<1>5. call # NoCall => call.id \in Nat
  BY Sizes DEF Inv, LinksTyped, Calls
<1>6. IdsApart'
  <2>1. \A m \in Members(toGateway)' \cup Members(toClient)' : HasId(m) => m.id > steps'
    BY <1>1, <1>2, <1>3, <1>4 DEF IdsOK, IdsApart
  <2>2. call' # NoCall => call'.id > steps'
    BY <1>1, <1>5 DEF IdsOK, IdsApart
  <2>3. \A r \in Members(toGateway)', a \in Members(toClient)' : HasId(r) /\ HasId(a) => r.id # a.id
    BY <1>2, <1>3 DEF IdsOK, IdsApart
  <2> QED BY <1>2, <1>3, <2>1, <2>2, <2>3 DEF IdsApart
<1>7. CallAlone'
  <2> SUFFICES ASSUME call' # NoCall, NEW m \in Members(toGateway)' \cup Members(toClient)',
                      HasId(m), m.id = call'.id
               PROVE  call'.status = "waiting" /\ m.chat = call'.chat /\ m.kind \in {call'.kind, "answer"}
    BY DEF CallAlone
  <2>1. call' = call /\ m \in Members(toGateway) \cup Members(toClient)
    BY <1>2, <1>3
  <2> QED BY <2>1 DEF IdsOK, CallAlone
<1> QED BY <1>6, <1>7 DEF IdsOK

LEMMA AnswersQueryIds ==
    ASSUME Inv, IdsOK, GatewayAnswersQuery
    PROVE  IdsOK'
<1>1. PICK query \in Members(toGateway), next \in 0 .. NumChats - 1 :
         /\ toGateway # <<>> /\ toGateway' = Tail(toGateway)
         /\ PageFor(query, next) \in Pages /\ toClient' = Append(toClient, PageFor(query, next))
         /\ UNCHANGED <<steps, call>>
  BY AnswersQueryDoes
<1> PICK x \in Pages : x = PageFor(query, next)
  BY <1>1
<1>2. toClient \in Seq(Pages \cup Answers) /\ toGateway \in Seq(Queries \cup Requests)
  BY Typing
<1>3. ~HasId(x) /\ toClient' = Append(toClient, x)
  BY <1>1 DEF HasId, Pages
<1>4. DistinctIds(toClient') /\ Members(toClient)' = Members(toClient) \cup {x}
  BY <1>2, <1>3, DistinctAppend, AppendMoves DEF IdsOK, IdsApart
<1>5. DistinctIds(toGateway') /\ Members(toGateway)' \subseteq Members(toGateway)
  BY <1>1, <1>2, DistinctTail, TailMoves DEF IdsOK, IdsApart
<1>6. \A m \in Members(toGateway)' \cup Members(toClient)' :
         HasId(m) => m \in Members(toGateway) \cup Members(toClient)
  BY <1>3, <1>4, <1>5
<1>7. IdsApart'
  BY <1>1, <1>3, <1>4, <1>5 DEF IdsOK, IdsApart
<1>8. CallAlone'
  BY <1>1, <1>6 DEF IdsOK, CallAlone
<1> QED BY <1>7, <1>8 DEF IdsOK

LEMMA AnswersCallIds ==
    ASSUME Inv, IdsOK, GatewayAnswersCall
    PROVE  IdsOK'
<1>1. PICK request \in Members(toGateway), x \in Answers :
         /\ toGateway # <<>> /\ request = Head(toGateway) /\ request.kind # "query"
         /\ toGateway' = Tail(toGateway) /\ toClient' = Append(toClient, x)
         /\ x.kind = "answer" /\ x.chat = request.chat /\ x.id = request.id
         /\ UNCHANGED <<steps, call>>
  BY AnswersCallDoes
<1>2. toClient \in Seq(Pages \cup Answers) /\ toGateway \in Seq(Queries \cup Requests)
  BY Typing
<1>3. HasId(x) /\ HasId(request)
  <2>1. request \in Queries \cup Requests
    BY Typing
  <2> QED BY <1>1, <2>1, Messages DEF HasId
<1>4. \A m \in Members(toClient) : HasId(m) => m.id # x.id
  BY <1>1, <1>3 DEF IdsOK, IdsApart
<1>5. DistinctIds(toClient') /\ Members(toClient)' = Members(toClient) \cup {x}
  <2>1. x \in Pages \cup Answers
    OBVIOUS
  <2>2. DistinctIds(Append(toClient, x))
    BY <1>2, <1>4, <2>1, DistinctAppend DEF IdsOK, IdsApart
  <2> QED BY <1>1, <1>2, <2>1, <2>2, AppendMoves
<1>6. /\ DistinctIds(toGateway') /\ Members(toGateway)' \subseteq Members(toGateway)
      /\ \A m \in Members(toGateway)' : HasId(m) => m.id # x.id
  BY <1>1, <1>2, <1>3, DistinctTail, TailMoves DEF IdsOK, IdsApart
<1>7. IdsApart'
  <2>1. \A m \in Members(toGateway)' \cup Members(toClient)' : HasId(m) => m.id > steps'
    BY <1>1, <1>3, <1>5, <1>6 DEF IdsOK, IdsApart
  <2>2. \A r \in Members(toGateway)', a \in Members(toClient)' : HasId(r) /\ HasId(a) => r.id # a.id
    BY <1>5, <1>6 DEF IdsOK, IdsApart
  <2> QED BY <1>1, <1>5, <1>6, <2>1, <2>2 DEF IdsOK, IdsApart
<1>8. CallAlone'
  <2> SUFFICES ASSUME call # NoCall, NEW m \in Members(toGateway)' \cup Members(toClient)',
                      HasId(m), m.id = call.id
               PROVE  call.status = "waiting" /\ m.chat = call.chat /\ m.kind \in {call.kind, "answer"}
    BY <1>1 DEF CallAlone
  <2>1. CASE m = x
    BY <1>1, <1>3, <2>1 DEF IdsOK, CallAlone
  <2>2. CASE m # x
    <3>1. m \in Members(toGateway) \cup Members(toClient)
      BY <1>5, <1>6, <2>2
    <3> QED BY <3>1 DEF IdsOK, CallAlone
  <2> QED BY <2>1, <2>2
<1> QED BY <1>7, <1>8 DEF IdsOK

LEMMA CallIds ==
    ASSUME Inv, IdsOK, NEW c \in Chats, NEW kind \in {"create", "rotate", "leave"}, StartCall(kind, c)
    PROVE  IdsOK'
<1> DEFINE r == [kind |-> kind, chat |-> c, id |-> steps]
<1>1. /\ steps \in 1 .. MaxSteps /\ steps' = steps - 1 /\ toClient' = toClient
      /\ toGateway' = Append(toGateway, r)
      /\ call'.kind = kind /\ call'.chat = c /\ call'.id = steps /\ call'.status = "waiting"
  BY Sizes DEF StartCall, Step, Inv, LinksTyped
<1>2. toClient \in Seq(Pages \cup Answers) /\ toGateway \in Seq(Queries \cup Requests)
  BY Typing
<1> PICK x \in Requests : x = r
  BY <1>1 DEF Requests
<1>3. x.kind = kind /\ x.chat = c /\ x.id = steps /\ HasId(x) /\ toGateway' = Append(toGateway, x)
  BY <1>1 DEF HasId
<1> HIDE DEF r
<1>4. \A m \in Members(toGateway) \cup Members(toClient) : HasId(m) => m.id \in Nat /\ m.id > steps
  <2>1. \A m \in (Queries \cup Requests) \cup (Pages \cup Answers) : HasId(m) => m.id \in Nat
    BY Messages, Sizes DEF HasId
  <2> QED BY <2>1, Typing DEF IdsOK, IdsApart
<1>5. \A m \in Members(toGateway) \cup Members(toClient) : HasId(m) => m.id # x.id /\ m.id > steps'
  BY <1>1, <1>3, <1>4
<1>6. DistinctIds(toGateway') /\ Members(toGateway)' = Members(toGateway) \cup {x}
  BY <1>2, <1>3, <1>5, DistinctAppend, AppendMoves DEF IdsOK, IdsApart
<1>7. IdsApart'
  <2>1. x.id > steps' /\ call'.id > steps'
    BY <1>1, <1>3
  <2> QED BY <1>1, <1>3, <1>5, <1>6, <2>1 DEF IdsOK, IdsApart
<1>8. CallAlone'
  <2> SUFFICES ASSUME NEW m \in Members(toGateway)' \cup Members(toClient)', HasId(m), m.id = call'.id
               PROVE  call'.status = "waiting" /\ m.chat = call'.chat /\ m.kind \in {call'.kind, "answer"}
    BY DEF CallAlone
  <2>1. m = x
    BY <1>1, <1>3, <1>5, <1>6
  <2> QED BY <1>1, <1>3, <2>1
<1> QED BY <1>7, <1>8 DEF IdsOK

LEMMA AnswerIds ==
    ASSUME Inv, IdsOK, DispatchAnswer
    PROVE  IdsOK'
<1> DEFINE a == Head(toClient)
<1>1. /\ toClient # <<>> /\ toClient' = Tail(toClient) /\ toGateway' = toGateway /\ steps' = steps
      /\ a.kind = "answer"
      /\ call' = IF call # NoCall /\ call.id = a.id
                 THEN [call EXCEPT !.status = IF a.ok THEN "ok" ELSE "failed"] ELSE call
  BY DEF DispatchAnswer
<1>2. toClient \in Seq(Pages \cup Answers) /\ a \in Members(toClient) /\ HasId(a)
  BY <1>1, Typing, TailMoves DEF HasId
<1>3. /\ Members(toClient)' \subseteq Members(toClient) /\ DistinctIds(toClient')
      /\ \A m \in Members(toClient)' : HasId(m) => m.id # a.id
  BY <1>1, <1>2, DistinctTail, TailMoves DEF IdsOK, IdsApart
<1>4. \A m \in Members(toGateway) : HasId(m) => m.id # a.id
  BY <1>2 DEF IdsOK, IdsApart
<1>5. /\ call' # NoCall => /\ call # NoCall /\ call'.id = call.id /\ call'.chat = call.chat
                           /\ call'.kind = call.kind
      /\ call # NoCall /\ call.id # a.id => call' = call
  <2>1. CASE call # NoCall /\ call.id = a.id
    <3>1. call \in Calls
      BY <2>1 DEF Inv, LinksTyped
    <3> QED BY <1>1, <2>1, <3>1 DEF Calls
  <2>2. CASE ~(call # NoCall /\ call.id = a.id)
    BY <1>1, <2>2
  <2> QED BY <2>1, <2>2
<1> HIDE DEF a
<1>6. IdsApart'
  BY <1>1, <1>3, <1>5 DEF IdsOK, IdsApart
<1>7. CallAlone'
  <2> SUFFICES ASSUME call' # NoCall, NEW m \in Members(toGateway)' \cup Members(toClient)',
                      HasId(m), m.id = call'.id
               PROVE  call'.status = "waiting" /\ m.chat = call'.chat /\ m.kind \in {call'.kind, "answer"}
    BY DEF CallAlone
  <2>1. call.id # a.id
    BY <1>1, <1>3, <1>4, <1>5
  <2>2. call' = call /\ m \in Members(toGateway) \cup Members(toClient)
    BY <1>1, <1>3, <1>5, <2>1
  <2> QED BY <2>2 DEF IdsOK, CallAlone
<1> QED BY <1>6, <1>7 DEF IdsOK

LEMMA EveryStepIds ==
    ASSUME Inv, Inv', OwnIds, Behind, IdsOK, [Next]_vars
    PROVE  IdsOK'
<1>1. CASE SyncChats \/ Authenticated
  BY <1>1, SyncDoes, IdsQuiet
<1>2. CASE DispatchPage
  <2>1. toClient # <<>> /\ toClient' = Tail(toClient) /\ steps' = steps /\ call' = call
    BY <1>2 DEF DispatchPage
  <2>2. Resumed(Head(toClient).next)
    BY <1>2, PageDoes DEF Inv
  <2>3. toGateway' = toGateway \/ \E q \in Queries : toGateway' = Append(toGateway, q)
    BY <2>2 DEF Resumed
  <2> QED BY <2>1, <2>3, IdsQuiet
<1>3. CASE \E c \in Chats : ChangedByOthers(c)
  BY <1>3, IdsQuiet DEF ChangedByOthers, Step
<1>4. CASE CallReturns \/ CallTimesOut \/ UNCHANGED vars
  BY <1>4, IdsQuiet DEF CallReturns, CallTimesOut, vars
<1>5. CASE Lose
  BY <1>5, IdsQuiet DEF Lose, Step
<1> QED BY <1>1, <1>2, <1>3, <1>4, <1>5, AnswersQueryIds, AnswersCallIds, CallIds, AnswerIds DEF Next

-----------------------------------------------------------------------------
(* A sync nothing strained is one message at a time, a query or its page,  *)
(* and it counts the pages: the page with number n is about chat n.        *)
OnlyOne(s, kind) == \A i, j \in DOMAIN s : s[i].kind = kind /\ s[j].kind = kind => i = j

OneToken ==
    ~strained =>
        /\ OnlyOne(toGateway, "query") /\ OnlyOne(toClient, "page")
        /\ \A q \in Members(toGateway), p \in Members(toClient) : q.kind # "query" \/ p.kind # "page"
        /\ \A q \in Members(toGateway) : q.kind = "query" => q.cursor + 1 = pages
        /\ \A p \in Members(toClient) : p.kind = "page" => p.chat = pages /\ p.next \in {0, pages}

LEMMA OnlyAppend ==
    ASSUME NEW S, NEW s \in Seq(S), NEW x \in S, NEW kind, OnlyOne(s, kind),
           x.kind = kind => \A m \in Members(s) : m.kind # kind
    PROVE  OnlyOne(Append(s, x), kind)
<1> DEFINE t == Append(s, x)
           l == Len(s) + 1
<1>1. /\ t[l] = x /\ \A n \in DOMAIN t : n \in DOMAIN s \/ n = l
      /\ \A n \in DOMAIN s : t[n] = s[n] /\ s[n] \in Members(s)
  BY AppendMoves, MembersTyped
<1> HIDE DEF t, l
<1>2. ASSUME NEW i \in DOMAIN t, NEW j \in DOMAIN t, t[i].kind = kind, t[j].kind = kind
      PROVE  i = j
  <2>1. CASE i \in DOMAIN s /\ j \in DOMAIN s
    BY <1>1, <1>2, <2>1 DEF OnlyOne
  <2>2. CASE i \in DOMAIN s /\ j = l
    BY <1>1, <1>2, <2>2
  <2>3. CASE i = l /\ j \in DOMAIN s
    BY <1>1, <1>2, <2>3
  <2> QED BY <1>1, <2>1, <2>2, <2>3
<1> QED BY <1>2 DEF OnlyOne, t

LEMMA OnlyTail ==
    ASSUME NEW S, NEW s \in Seq(S), s # <<>>, NEW kind, OnlyOne(s, kind)
    PROVE  /\ OnlyOne(Tail(s), kind)
           /\ Head(s).kind = kind => \A m \in Members(Tail(s)) : m.kind # kind
<1> DEFINE t == Tail(s)
           h == Head(s)
<1>1. /\ 1 \in DOMAIN s /\ h = s[1] /\ DOMAIN t = 1 .. Len(s) - 1 /\ Len(s) \in Nat
      /\ \A n \in DOMAIN t : n + 1 \in DOMAIN s /\ t[n] = s[n + 1] /\ 1 < n + 1
  BY TailMoves
<1> HIDE DEF t, h
<1>2. ASSUME NEW i \in DOMAIN t, NEW j \in DOMAIN t, t[i].kind = kind, t[j].kind = kind
      PROVE  i = j
  <2>1. i + 1 = j + 1
    BY <1>1, <1>2 DEF OnlyOne
  <2> QED BY <1>1, <2>1
<1>3. ASSUME h.kind = kind, NEW m \in Members(t)
      PROVE  m.kind # kind
  <2>1. PICK n \in DOMAIN t : m = t[n]
    BY DEF Members
  <2>2. n + 1 \in DOMAIN s /\ m = s[n + 1] /\ n + 1 # 1
    BY <1>1, <2>1
  <2> QED BY <1>1, <1>3, <2>2 DEF OnlyOne
<1> QED BY <1>2, <1>3 DEF OnlyOne, t, h

(* A queue that loses its head, is emptied or takes a message of another   *)
(* kind gains none of this kind.                                           *)
NoneGained(S, s, t, kind) ==
    \/ t = s \/ t = <<>>
    \/ s # <<>> /\ t = Tail(s)
    \/ \E x \in S : x.kind # kind /\ t = Append(s, x)

LEMMA OnlyKept ==
    ASSUME NEW S, NEW s \in Seq(S), NEW t, NEW kind, OnlyOne(s, kind), NoneGained(S, s, t, kind)
    PROVE  OnlyOne(t, kind) /\ \A m \in Members(t) : m.kind = kind => m \in Members(s)
<1>1. CASE t = s \/ t = <<>>
  BY <1>1 DEF OnlyOne, Members
<1>2. CASE s # <<>> /\ t = Tail(s)
  <2>1. OnlyOne(Tail(s), kind)
    BY <1>2, OnlyTail
  <2>2. Members(Tail(s)) \subseteq Members(s)
    BY <1>2, TailMoves
  <2> QED BY <1>2, <2>1, <2>2
<1>3. ASSUME NEW x \in S, x.kind # kind, t = Append(s, x)
      PROVE  OnlyOne(t, kind) /\ \A m \in Members(t) : m.kind = kind => m \in Members(s)
  <2>1. OnlyOne(Append(s, x), kind)
    BY <1>3, OnlyAppend
  <2>2. Members(Append(s, x)) = Members(s) \cup {x}
    BY AppendMoves
  <2> QED BY <1>3, <2>1, <2>2
<1> QED BY <1>1, <1>2, <1>3 DEF NoneGained

LEMMA TokenQuiet ==
    ASSUME Inv, OneToken, UNCHANGED <<strained, pages>>,
           NoneGained(Queries \cup Requests, toGateway, toGateway', "query"),
           NoneGained(Pages \cup Answers, toClient, toClient', "page")
    PROVE  OneToken'
<1> SUFFICES ASSUME ~strained
             PROVE  OneToken'
  BY DEF OneToken
<1>1. OnlyOne(toGateway, "query") /\ OnlyOne(toClient, "page")
  BY DEF OneToken
<1>2. /\ OnlyOne(toGateway', "query")
      /\ \A m \in Members(toGateway') : m.kind = "query" => m \in Members(toGateway)
  BY <1>1, Typing, OnlyKept
<1>3. /\ OnlyOne(toClient', "page")
      /\ \A m \in Members(toClient') : m.kind = "page" => m \in Members(toClient)
  BY <1>1, Typing, OnlyKept
<1> QED BY <1>2, <1>3 DEF OneToken

LEMMA TokenStarts ==
    ASSUME Inv, OneToken, SyncChats \/ Authenticated
    PROVE  OneToken'
<1> SUFFICES ASSUME ~strained'
             PROVE  OneToken'
  BY DEF OneToken
<1>1. PICK q \in Queries : /\ q.kind = "query" /\ q.cursor = 0
                           /\ toGateway' = Append(toGateway, q) /\ toClient' = toClient
                           /\ toGateway = <<>> /\ toClient = <<>> /\ pages' = 1
  BY SyncDoes
<1>2. toGateway' = <<q>>
  BY <1>1
<1>3. /\ DOMAIN toGateway' = {1} /\ toGateway'[1] = q /\ Members(toGateway') = {q}
      /\ DOMAIN toClient' = {} /\ Members(toClient') = {}
  BY <1>1, <1>2 DEF Members
<1>4. OnlyOne(toGateway', "query") /\ OnlyOne(toClient', "page")
  BY <1>3 DEF OnlyOne
<1> QED BY <1>1, <1>3, <1>4 DEF OneToken

LEMMA TokenAnswered ==
    ASSUME Inv, Behind, OneToken, GatewayAnswersQuery
    PROVE  OneToken'
<1> SUFFICES ASSUME ~strained'
             PROVE  OneToken'
  BY DEF OneToken
<1>1. PICK query \in Members(toGateway), next \in 0 .. NumChats - 1 :
         /\ toGateway # <<>> /\ query = Head(toGateway) /\ query.kind = "query"
         /\ query.cursor \in 0 .. NumChats - 1 /\ query.cursor + 1 \in Chats
         /\ toGateway' = Tail(toGateway) /\ PageFor(query, next) \in Pages
         /\ toClient' = Append(toClient, PageFor(query, next))
         /\ strained' = strained /\ next \in {0, query.cursor + 1}
         /\ UNCHANGED pages
  BY AnswersQueryDoes
<1> PICK x \in Pages : x = PageFor(query, next)
  BY <1>1
<1>2. x.kind = "page" /\ x.chat = query.cursor + 1 /\ x.next = next
  <2>1. query \in Queries \cup Requests /\ query.cursor + 1 \in Chats
    BY <1>1, Typing
  <2> QED BY <1>1, <2>1, PageSays
<1>3. /\ OnlyOne(toGateway, "query") /\ OnlyOne(toClient, "page") /\ query.cursor + 1 = pages
      /\ \A p \in Members(toClient) : p.kind # "page"
  BY <1>1 DEF OneToken
<1>4. /\ OnlyOne(toGateway', "query") /\ \A q \in Members(toGateway') : q.kind # "query"
  <2>1. Head(toGateway).kind = "query" /\ toGateway \in Seq(Queries \cup Requests)
    BY <1>1, Typing
  <2> QED BY <1>1, <1>3, <2>1, OnlyTail
<1>5. OnlyOne(toClient', "page") /\ Members(toClient') = Members(toClient) \cup {x}
  <2>1. x \in Pages \cup Answers /\ toClient \in Seq(Pages \cup Answers) /\ toClient' = Append(toClient, x)
    BY <1>1, Typing
  <2> QED BY <1>3, <2>1, OnlyAppend, AppendMoves
<1> QED BY <1>1, <1>2, <1>3, <1>4, <1>5 DEF OneToken

LEMMA TokenResumes ==
    ASSUME Inv, Inv', OneToken, DispatchPage
    PROVE  OneToken'
<1> DEFINE p == Head(toClient)
<1>1. /\ toClient # <<>> /\ toClient' = Tail(toClient) /\ p.kind = "page"
      /\ Resumed(p.next) /\ UNCHANGED strained
  BY PageDoes DEF DispatchPage, Inv
<1>2. /\ toClient \in Seq(Pages \cup Answers) /\ toGateway \in Seq(Queries \cup Requests)
      /\ p \in Members(toClient) /\ pages \in Nat
  BY <1>1, Typing, TailMoves, Sizes DEF Inv, LinksTyped
<1>3. CASE toGateway' = toGateway /\ pages' = pages
  BY <1>1, <1>3, TokenQuiet DEF NoneGained
<1>4. ASSUME ~strained, NEW q \in Queries, p.next # 0, pages' = pages + 1,
             q.kind = "query", q.cursor = p.next, toGateway' = Append(toGateway, q)
      PROVE  OneToken'
  <2>1. /\ OnlyOne(toGateway, "query") /\ OnlyOne(toClient, "page") /\ p.next = pages
        /\ \A m \in Members(toGateway) : m.kind # "query"
    BY <1>1, <1>2, <1>4 DEF OneToken
  <2>2. OnlyOne(toClient', "page") /\ \A m \in Members(toClient') : m.kind # "page"
    BY <1>1, <1>2, <2>1, OnlyTail
  <2>3. OnlyOne(toGateway', "query") /\ Members(toGateway') = Members(toGateway) \cup {q}
    BY <1>2, <1>4, <2>1, OnlyAppend, AppendMoves
  <2> HIDE DEF p
  <2> QED BY <1>2, <1>4, <2>1, <2>2, <2>3 DEF OneToken
<1>5. CASE strained
  BY <1>1, <1>5 DEF OneToken
<1> HIDE DEF p
<1> QED BY <1>1, <1>3, <1>4, <1>5 DEF Resumed

LEMMA EveryStepToken ==
    ASSUME Inv, Inv', Behind, OneToken, [Next]_vars
    PROVE  OneToken'
<1>1. CASE \E c \in Chats : ChangedByOthers(c)
  BY <1>1, TokenQuiet DEF NoneGained, ChangedByOthers
<1>2. CASE GatewayAnswersCall
  <2>1. PICK x \in Answers : /\ toGateway # <<>> /\ toGateway' = Tail(toGateway)
                             /\ toClient' = Append(toClient, x) /\ x.kind = "answer"
                             /\ UNCHANGED <<pages, strained>>
    BY <1>2, AnswersCallDoes
  <2>2. x \in Pages \cup Answers /\ x.kind # "page"
    BY <2>1
  <2> QED BY <2>1, <2>2, TokenQuiet DEF NoneGained
<1>3. ASSUME NEW c \in Chats, NEW kind \in {"create", "rotate", "leave"}, StartCall(kind, c)
      PROVE  OneToken'
  <2> DEFINE r == [kind |-> kind, chat |-> c, id |-> steps]
  <2>1. steps \in 1 .. MaxSteps
    BY <1>3, Sizes DEF StartCall, Step, Inv, LinksTyped
  <2>2. r \in Queries \cup Requests /\ r.kind # "query"
    BY <2>1 DEF Requests
  <2>3. toGateway' = Append(toGateway, r) /\ toClient' = toClient /\ UNCHANGED <<pages, strained>>
    BY <1>3 DEF StartCall, historyVars
  <2> HIDE DEF r
  <2> QED BY <2>2, <2>3, TokenQuiet DEF NoneGained
<1>4. CASE DispatchAnswer
  BY <1>4, TokenQuiet DEF NoneGained, DispatchAnswer
<1>5. CASE CallReturns \/ CallTimesOut \/ Lose \/ UNCHANGED vars
  BY <1>5, TokenQuiet DEF NoneGained, CallReturns, CallTimesOut, Lose, vars, historyVars
<1> QED BY <1>1, <1>2, <1>3, <1>4, <1>5, TokenStarts, TokenAnswered, TokenResumes DEF Next

-----------------------------------------------------------------------------
(* What a sync still owes a chat: its newest version is on its way, or a   *)
(* page before it, or a query that asks for it.                            *)
Current(c) ==
    \/ Stored(c) = generation[c]
    \/ \E m \in Members(toClient) : Tells(m, c) /\ m.version = generation[c]

PageBefore(c) == \E p \in Members(toClient) : p.kind = "page" /\ p.next # 0 /\ p.next < c

Asked(c) ==
    \E q \in Members(toGateway) :
        q.kind = "query" /\ q.cursor < c /\ q.known[c].version # generation[c]

MemberServed(c) ==
    online /\ member[c] /\ c \notin dirty /\ (cut => ~strained /\ c <= MaxPages)
    => Current(c) \/ PageBefore(c) \/ Asked(c)

(* And what it owes a chat that is gone: a page that reports it missing,   *)
(* or the answer to the caller's own leave.                                *)
Clears(m, c) ==
    \/ m.kind = "page" /\ m.chat = c /\ m.result = "missing"
    \/ m.kind = "answer" /\ m.ok /\ call # NoCall /\ call.kind = "leave"
       /\ call.chat = c /\ call.id = m.id

Going(c) == call # NoCall /\ call.kind = "leave" /\ call.chat = c /\ call.status = "ok"

AskedKnown(c) ==
    \E q \in Members(toGateway) : q.kind = "query" /\ q.cursor < c /\ q.known[c].known

Gone(c) == online /\ ~strained /\ ~member[c] /\ c \notin dirty

ClearedLater(c) ==
    \A i \in DOMAIN toClient :
        Tells(toClient[i], c) /\ toClient[i].version > 0
        => \E j \in DOMAIN toClient : i < j /\ Clears(toClient[j], c)

GoneServed(c) ==
    Gone(c) => /\ ClearedLater(c)
               /\ (cut => c <= MaxPages) =>
                     \/ Stored(c) = 0 \/ Going(c) \/ PageBefore(c) \/ AskedKnown(c)
                     \/ \E m \in Members(toClient) : Clears(m, c)

Served(c) == MemberServed(c) /\ GoneServed(c)

(* Steps that keep all that is on its way.                                 *)
LEMMA ServedQuiet ==
    ASSUME Inv, NEW c \in Chats, Served(c),
           UNCHANGED <<cut, strained>>, member'[c] = member[c], generation'[c] = generation[c],
           c \notin dirty' /\ online' => c \notin dirty /\ online,
           c \notin dirty' /\ online' =>
              /\ Stored(c)' = Stored(c) \/ (Stored(c)' = 0 /\ ~member[c])
              /\ \A m \in Members(toClient) : Clears(m, c) => Clears(m, c)'
              /\ Going(c) => Going(c)' \/ Stored(c)' = 0
              /\ \A q \in Members(toGateway) : q.kind = "query" => q \in Members(toGateway)'
              /\ \/ toClient' = toClient
                 \/ \E x \in Pages \cup Answers :
                       toClient' = Append(toClient, x) /\ ~(Tells(x, c) /\ x.version > 0)
    PROVE  Served(c)'
<1> SUFFICES ASSUME c \notin dirty', online'
             PROVE  Served(c)'
  BY DEF Served, MemberServed, GoneServed, Gone
<1>1. toClient \in Seq(Pages \cup Answers)
  BY Typing
<1>2. /\ \A m \in Members(toClient) : m \in Members(toClient)'
      /\ \A n \in DOMAIN toClient : n \in DOMAIN toClient' /\ toClient'[n] = toClient[n]
                                    /\ toClient[n] \in Members(toClient)
      /\ \A n \in DOMAIN toClient' : n \in DOMAIN toClient \/ ~(Tells(toClient'[n], c) /\ toClient'[n].version > 0)
  <2>1. CASE toClient' = toClient
    BY <1>1, <2>1, MembersTyped
  <2>2. CASE \E x \in Pages \cup Answers :
                       toClient' = Append(toClient, x) /\ ~(Tells(x, c) /\ x.version > 0)
    <3>1. PICK x \in Pages \cup Answers :
                 toClient' = Append(toClient, x) /\ ~(Tells(x, c) /\ x.version > 0)
      BY <2>2
    <3> QED BY <1>1, <3>1, AppendMoves, MembersTyped
  <2> QED BY <2>1, <2>2
<1>3. PageBefore(c) => PageBefore(c)'
  BY <1>2 DEF PageBefore
<1>4. Asked(c) => Asked(c)'
  BY DEF Asked
<1>5. AskedKnown(c) => AskedKnown(c)'
  BY DEF AskedKnown
<1>6. member[c] /\ Current(c) => Current(c)'
  BY <1>2 DEF Current
<1>7. MemberServed(c)'
  BY <1>3, <1>4, <1>6 DEF Served, MemberServed
<1>8. ClearedLater(c) => ClearedLater(c)'
  <2> SUFFICES ASSUME ClearedLater(c), NEW i \in DOMAIN toClient',
                      Tells(toClient'[i], c), toClient'[i].version > 0
               PROVE  \E j \in DOMAIN toClient' : i < j /\ Clears(toClient[j], c)'
    BY DEF ClearedLater, Tells
  <2>1. PICK j \in DOMAIN toClient : i < j /\ Clears(toClient[j], c)
    BY <1>2 DEF ClearedLater
  <2>2. toClient'[j] = toClient[j] /\ j \in DOMAIN toClient' /\ toClient[j] \in Members(toClient)
    BY <1>2, <2>1
  <2> PICK m \in Members(toClient) : m = toClient[j]
    BY <2>2
  <2>3. Clears(m, c)'
    BY <2>1
  <2> QED BY <2>1, <2>2, <2>3 DEF Clears
<1>9. GoneServed(c)'
  <2> SUFFICES ASSUME Gone(c)'
               PROVE  GoneServed(c)'
    BY DEF GoneServed
  <2>1. Gone(c)
    BY DEF Gone
  <2>2. (\E m \in Members(toClient) : Clears(m, c)) => \E m \in Members(toClient)' : Clears(m, c)'
    BY <1>2
  <2>3. Stored(c) = 0 => Stored(c)' = 0
    OBVIOUS
  <2> QED BY <1>3, <1>5, <1>8, <2>1, <2>2, <2>3 DEF Served, GoneServed
<1> QED BY <1>7, <1>9 DEF Served

-----------------------------------------------------------------------------
(* The sync itself.                                                        *)
LEMMA StartServes ==
    ASSUME Inv, Behind, NEW c \in Chats, SyncChats \/ Authenticated
    PROVE  Served(c)'
<1>1. PICK q \in Queries : /\ q.kind = "query" /\ q.cursor = 0
                           /\ q.known[c].known = Known(c) /\ q.known[c].version = Stored(c)
                           /\ toGateway' = Append(toGateway, q)
                           /\ strained' <=> toGateway # <<>> \/ toClient # <<>>
                           /\ UNCHANGED <<member, generation, toClient, entries, count>>
  BY SyncDoes
<1>2. q \in Members(toGateway') /\ q.cursor < c
  <2>1. Members(Append(toGateway, q)) = Members(toGateway) \cup {q}
    BY Typing, AppendMoves
  <2> QED BY <1>1, <2>1 DEF Chats
<1>3. Stored(c)' = Stored(c) /\ (Known(c) <=> Stored(c) > 0) /\ Stored(c) \in Nat
  BY <1>1, SameStored, Typing DEF Behind
<1>4. Current(c)' \/ Asked(c)'
  BY <1>1, <1>2, <1>3 DEF Current, Asked
<1>5. Stored(c)' = 0 \/ AskedKnown(c)'
  BY <1>1, <1>2, <1>3 DEF AskedKnown
<1>6. Gone(c)' => ClearedLater(c)'
  <2>1. Gone(c)' => toClient' = <<>>
    BY <1>1 DEF Gone
  <2> QED BY <2>1 DEF ClearedLater
<1> QED BY <1>4, <1>5, <1>6 DEF Served, MemberServed, GoneServed

LEMMA QueryServes ==
    ASSUME Inv, Behind, NEW c \in Chats, Served(c), GatewayAnswersQuery
    PROVE  Served(c)'
<1>1. PICK query \in Members(toGateway), next \in 0 .. NumChats - 1 :
         /\ toGateway # <<>> /\ query = Head(toGateway) /\ query.kind = "query"
         /\ query.cursor \in 0 .. NumChats - 1 /\ query.cursor + 1 \in Chats
         /\ toGateway' = Tail(toGateway) /\ PageFor(query, next) \in Pages
         /\ toClient' = Append(toClient, PageFor(query, next))
         /\ \/ strained' = strained /\ next = IF MoreAfter(query) THEN query.cursor + 1 ELSE 0
            \/ strained' = TRUE /\ next = query.cursor /\ next > 0
         /\ UNCHANGED <<member, generation, online, entries, count, pages, call, dirty, cut>>
  BY AnswersQueryDoes
<1> PICK x \in Pages : x = PageFor(query, next)
  BY <1>1
<1>2. query \in Queries \cup Requests
  BY Typing
<1>3. /\ x.kind = "page" /\ x.chat = query.cursor + 1 /\ x.next = next
      /\ member[c] /\ Tells(x, c) => x.version = generation[c]
      /\ member[c] /\ x.chat = c /\ query.known[c].version < generation[c] => Tells(x, c)
      /\ ~member[c] /\ Tells(x, c) => x.version = 0
      /\ ~member[c] /\ x.chat = c /\ query.known[c].known => x.result = "missing"
  BY <1>1, <1>2, PageSays
<1>4. toClient \in Seq(Pages \cup Answers) /\ toGateway \in Seq(Queries \cup Requests)
      /\ x \in Pages \cup Answers /\ toClient' = Append(toClient, x)
  BY <1>1, Typing
<1>5. /\ Members(toClient') = Members(toClient) \cup {x}
      /\ \A q \in Members(toGateway) : q = query \/ q \in Members(toGateway')
  <2>1. Members(Append(toClient, x)) = Members(toClient) \cup {x}
    BY <1>4, AppendMoves
  <2>2. Members(toGateway) = {Head(toGateway)} \cup Members(Tail(toGateway))
    BY <1>1, <1>4, TailMoves
  <2> QED BY <1>1, <1>4, <2>1, <2>2
<1>6. Stored(c)' = Stored(c)
  BY <1>1, SameStored
<1>7. ASSUME query.cursor < c, member[c] \/ query.known[c].known, c # query.cursor + 1
      PROVE  PageBefore(c)'
  <2>1. c > query.cursor + 1
    BY <1>1, <1>7 DEF Chats
  <2>2. MoreAfter(query)
    BY <1>7, <2>1 DEF MoreAfter
  <2>3. next # 0 /\ next < c
    BY <1>1, <1>7, <2>1, <2>2 DEF Chats
  <2> QED BY <1>3, <1>5, <2>3 DEF PageBefore
<1>8. PageBefore(c) => PageBefore(c)'
  BY <1>5 DEF PageBefore
<1>9. MemberServed(c)'
  <2> SUFFICES ASSUME online', member'[c], c \notin dirty', cut' => ~strained' /\ c <= MaxPages
               PROVE  Current(c)' \/ PageBefore(c)' \/ Asked(c)'
    BY DEF MemberServed
  <2>1. Current(c) \/ PageBefore(c) \/ Asked(c)
    BY <1>1 DEF Served, MemberServed
  <2>2. Current(c) => Current(c)'
    BY <1>1, <1>5, <1>6 DEF Current
  <2>3. ASSUME Asked(c)
        PROVE  Current(c)' \/ PageBefore(c)' \/ Asked(c)'
    <3>1. PICK q \in Members(toGateway) :
             q.kind = "query" /\ q.cursor < c /\ q.known[c].version # generation[c]
      BY <2>3 DEF Asked
    <3>2. CASE q \in Members(toGateway')
      BY <1>1, <3>1, <3>2 DEF Asked
    <3>3. CASE q = query /\ c = query.cursor + 1
      <4>1. query.known[c].version < generation[c]
        <5>1. query.known[c].version <= generation[c] /\ generation[c] \in Nat
          BY <1>1, Typing DEF Behind
        <5>2. query.known[c].version \in Nat
          BY <1>1, <1>2, Messages
        <5> QED BY <3>1, <3>3, <5>1, <5>2
      <4>2. Tells(x, c) /\ x.version = generation[c]
        BY <1>1, <1>3, <3>3, <4>1
      <4> QED BY <1>1, <1>5, <4>2 DEF Current
    <3>4. CASE q = query /\ c # query.cursor + 1
      BY <1>1, <1>7, <3>1, <3>4
    <3> QED BY <1>5, <3>2, <3>3, <3>4
  <2> QED BY <1>8, <2>1, <2>2, <2>3
<1>10. GoneServed(c)'
  <2> SUFFICES ASSUME Gone(c)'
               PROVE  GoneServed(c)'
    BY DEF GoneServed
  <2>1. Gone(c)
    BY <1>1 DEF Gone
  <2>2. ~(Tells(x, c) /\ x.version > 0)
    BY <1>1, <1>3 DEF Gone
  <2>3. \A m : Clears(m, c) => Clears(m, c)'
    BY <1>1 DEF Clears
  <2>4. ClearedLater(c)'
    <3>1. /\ \A n \in DOMAIN toClient : n \in DOMAIN toClient' /\ toClient'[n] = toClient[n]
          /\ \A n \in DOMAIN toClient' : n \in DOMAIN toClient \/ toClient'[n] = x
      BY <1>4, AppendMoves
    <3>2. ClearedLater(c)
      BY <2>1 DEF Served, GoneServed
    <3> SUFFICES ASSUME NEW i \in DOMAIN toClient', Tells(toClient'[i], c), toClient'[i].version > 0
                 PROVE  \E j \in DOMAIN toClient' : i < j /\ Clears(toClient[j], c)'
      BY DEF ClearedLater, Tells
    <3>3. PICK j \in DOMAIN toClient : i < j /\ Clears(toClient[j], c)
      BY <2>2, <3>1, <3>2 DEF ClearedLater
    <3> QED BY <1>1, <3>1, <3>3 DEF Clears
  <2>5. ASSUME cut' => c <= MaxPages, AskedKnown(c)
        PROVE  PageBefore(c)' \/ AskedKnown(c)' \/ \E m \in Members(toClient)' : Clears(m, c)'
    <3>1. PICK q \in Members(toGateway) : q.kind = "query" /\ q.cursor < c /\ q.known[c].known
      BY <2>5 DEF AskedKnown
    <3>2. CASE q \in Members(toGateway')
      BY <3>1, <3>2 DEF AskedKnown
    <3>3. CASE q = query /\ c = query.cursor + 1
      <4>1. x.kind = "page" /\ x.chat = c /\ x.result = "missing"
        BY <1>3, <2>1, <3>1, <3>3 DEF Gone
      <4> QED BY <1>5, <4>1 DEF Clears
    <3>4. CASE q = query /\ c # query.cursor + 1
      BY <1>7, <3>1, <3>4
    <3> QED BY <1>5, <3>2, <3>3, <3>4
  <2>6. (\E m \in Members(toClient) : Clears(m, c)) => \E m \in Members(toClient)' : Clears(m, c)'
    BY <1>5, <2>3
  <2>7. (Going(c) => Going(c)') /\ cut' = cut
    BY <1>1 DEF Going
  <2> QED BY <1>6, <1>8, <2>1, <2>4, <2>5, <2>6, <2>7 DEF Served, GoneServed
<1> QED BY <1>9, <1>10 DEF Served

LEMMA CallServes ==
    ASSUME Inv, IdsOK, NEW c \in Chats, Served(c), GatewayAnswersCall
    PROVE  Served(c)'
<1>1. PICK request \in Members(toGateway), x \in Answers :
         /\ toGateway # <<>> /\ request = Head(toGateway) /\ request.kind # "query"
         /\ request.chat \in Chats
         /\ toGateway' = Tail(toGateway) /\ toClient' = Append(toClient, x)
         /\ x.kind = "answer" /\ x.chat = request.chat /\ x.id = request.id
         /\ \A d \in Chats : d # request.chat =>
               member'[d] = member[d] /\ generation'[d] = generation[d]
         /\ LET d == request.chat IN
            \/ /\ ~x.ok /\ x.version = 0
               /\ member'[d] = member[d] /\ generation'[d] = generation[d]
            \/ /\ x.ok /\ request.kind # "leave" /\ x.version = generation[d] + 1
               /\ member'[d] /\ generation'[d] = generation[d] + 1
            \/ /\ x.ok /\ request.kind = "leave" /\ x.version = 0
               /\ member[d] /\ ~member'[d] /\ generation'[d] = generation[d]
               /\ (call # NoCall /\ call.id = request.id) \/ d \in dirty'
         /\ dirty \subseteq dirty'
         /\ UNCHANGED <<online, entries, count, pages, call, cut, strained>>
  BY AnswersCallDoes
<1>2. /\ toClient \in Seq(Pages \cup Answers) /\ toGateway \in Seq(Queries \cup Requests)
      /\ x \in Pages \cup Answers /\ generation[c] \in Nat
  BY Typing
<1>3. Members(toGateway) = {request} \cup Members(toGateway')
  BY <1>1, <1>2, TailMoves
<1>4. \A m : Clears(m, c) => Clears(m, c)'
  BY <1>1 DEF Clears
<1>5. Stored(c)' = Stored(c)
  BY <1>1, SameStored
<1>6. CASE /\ member'[c] = member[c] /\ generation'[c] = generation[c]
           /\ ~(Tells(x, c) /\ x.version > 0)
  <2>1. \A q \in Members(toGateway) : q.kind = "query" => q \in Members(toGateway)'
    BY <1>1, <1>3
  <2>2. (Going(c) => Going(c)') /\ UNCHANGED <<cut, strained, online>>
    BY <1>1 DEF Going
  <2> QED BY <1>1, <1>2, <1>4, <1>5, <1>6, <2>1, <2>2, ServedQuiet
<1>7. CASE c = request.chat /\ x.version = generation[c] + 1 /\ generation'[c] = generation[c] + 1 /\ member'[c]
  <2>1. x \in Members(toClient)'
    BY <1>1, <1>2, AppendMoves
  <2>2. Tells(x, c) /\ x.version = generation'[c]
    BY <1>1, <1>2, <1>7 DEF Tells
  <2>3. Current(c)'
    BY <2>1, <2>2 DEF Current, Tells
  <2> QED BY <1>7, <2>3 DEF Served, MemberServed, GoneServed, Gone
<1>8. CASE /\ c = request.chat /\ x.ok /\ request.kind = "leave" /\ x.version = 0 /\ ~member'[c]
           /\ (call # NoCall /\ call.id = request.id) \/ c \in dirty'
  <2> SUFFICES ASSUME c \notin dirty'
               PROVE  GoneServed(c)'
    BY <1>8 DEF Served, MemberServed, GoneServed, Gone
  <2>1. call.kind = "leave" /\ call.chat = c
    BY <1>1, <1>8 DEF IdsOK, CallAlone, HasId
  <2>2. Clears(x, c) /\ Clears(x, c)'
    BY <1>1, <1>8, <2>1 DEF Clears
  <2>3. /\ x \in Members(toClient)'
        /\ Len(toClient) + 1 \in DOMAIN toClient' /\ toClient'[Len(toClient) + 1] = x
        /\ \A n \in DOMAIN toClient' : n < Len(toClient) + 1 \/ toClient'[n] = x
    <3> DEFINE t == Append(toClient, x)
               l == Len(toClient) + 1
    <3>1. /\ l \in DOMAIN t /\ t[l] = x /\ Members(t) = Members(toClient) \cup {x}
          /\ \A n \in DOMAIN t : n \in DOMAIN toClient \/ n = l
          /\ \A n \in DOMAIN toClient : n < l
      BY <1>2, AppendMoves
    <3>2. toClient' = t
      BY <1>1
    <3> HIDE DEF t
    <3> QED BY <3>1, <3>2
  <2>4. ClearedLater(c)'
    <3>1. ~(x.version > 0)
      BY <1>8
    <3> SUFFICES ASSUME NEW i \in DOMAIN toClient', Tells(toClient'[i], c), toClient'[i].version > 0
                 PROVE  \E j \in DOMAIN toClient' : i < j /\ Clears(toClient[j], c)'
      BY DEF ClearedLater, Tells
    <3> QED BY <2>2, <2>3, <3>1 DEF Clears
  <2> QED BY <2>2, <2>3, <2>4 DEF GoneServed
<1>9. c = request.chat \/ (c # request.chat /\ member'[c] = member[c] /\ generation'[c] = generation[c] /\ ~Tells(x, c))
  BY <1>1 DEF Tells
<1>10. CASE c # request.chat
  BY <1>6, <1>9, <1>10
<1>11. CASE c = request.chat
  BY <1>1, <1>6, <1>7, <1>8, <1>11
<1> QED BY <1>10, <1>11

(* What a dispatched message does to the call it may answer.               *)
LEMMA DispatchDoes ==
    ASSUME Inv, Inv', DispatchPage \/ DispatchAnswer
    PROVE  LET h == Head(toClient) IN
           /\ UNCHANGED <<online, dirty, strained>> /\ (cut => cut')
           /\ \A q \in Members(toGateway) : q \in Members(toGateway')
           /\ \/ h.kind = "page" /\ DispatchPage /\ call' = call
              \/ /\ h.kind = "answer"
                 /\ ~(call # NoCall /\ call.id = h.id) => call' = call
                 /\ call # NoCall /\ call.id = h.id =>
                       /\ call' # NoCall /\ call'.kind = call.kind /\ call'.chat = call.chat
                       /\ call'.id = call.id /\ (h.ok => call'.status = "ok")
<1> DEFINE h == Head(toClient)
<1>1. CASE DispatchPage
  <2>1. /\ h.kind = "page" /\ UNCHANGED <<online, dirty, strained, call>> /\ Resumed(h.next)
    BY <1>1, PageDoes DEF DispatchPage, Inv
  <2> HIDE DEF h
  <2>2. toGateway' = toGateway \/ \E q \in Queries : toGateway' = Append(toGateway, q)
    BY <2>1 DEF Resumed
  <2>3. \A q \in Members(toGateway) : q \in Members(toGateway')
    <3>1. ASSUME NEW q \in Queries, toGateway' = Append(toGateway, q)
          PROVE  Members(toGateway') = Members(toGateway) \cup {q}
      BY <3>1, Typing, AppendMoves
    <3> QED BY <2>2, <3>1
  <2>4. cut => cut'
    BY <2>1 DEF Resumed
  <2> QED BY <1>1, <2>1, <2>3, <2>4 DEF h
<1>2. CASE DispatchAnswer
  <2>1. /\ h.kind = "answer" /\ UNCHANGED <<online, dirty, strained, cut, toGateway>>
        /\ call' = IF call # NoCall /\ call.id = h.id
                   THEN [call EXCEPT !.status = IF h.ok THEN "ok" ELSE "failed"] ELSE call
    BY <1>2 DEF DispatchAnswer
  <2> HIDE DEF h
  <2>2. ASSUME call # NoCall, call.id = h.id
        PROVE  /\ call' # NoCall /\ call'.kind = call.kind /\ call'.chat = call.chat
               /\ call'.id = call.id /\ (h.ok => call'.status = "ok")
    <3>1. call \in Calls
      BY <2>2 DEF Inv, LinksTyped
    <3>2. /\ call'.kind = call.kind /\ call'.chat = call.chat
          /\ call'.id = call.id /\ (h.ok => call'.status = "ok")
      BY <2>1, <2>2, <3>1 DEF Calls
    <3>3. call'.kind \in {"create", "rotate", "leave"}
      BY <3>1, <3>2 DEF Calls
    <3>4. NoCall.kind = "none"
      BY DEF NoCall
    <3> QED BY <3>2, <3>3, <3>4
  <2> QED BY <2>1, <2>2 DEF h
<1> QED BY <1>1, <1>2

(* The token of a page is passed on, or the budget is spent.               *)
LEMMA NextPage ==
    ASSUME Inv, Inv', OneToken, NEW c \in Chats, DispatchPage \/ DispatchAnswer,
           PageBefore(c), cut' => ~strained /\ c <= MaxPages
    PROVE  \/ PageBefore(c)'
           \/ \E q \in Members(toGateway') :
                 /\ q.kind = "query" /\ q.cursor < c
                 /\ q.known[c].known <=> Known(c)'
                 /\ q.known[c].version = Stored(c)'
<1> DEFINE h == Head(toClient)
<1>1. toClient # <<>> /\ toClient' = Tail(toClient) /\ toClient \in Seq(Pages \cup Answers)
  BY Typing DEF DispatchPage, DispatchAnswer
<1>2. /\ Members(toClient) = {h} \cup Members(toClient')
      /\ h \in Members(toClient)
  BY <1>1, TailMoves
<1>3. PICK p \in Members(toClient) : p.kind = "page" /\ p.next # 0 /\ p.next < c
  BY DEF PageBefore
<1>4. CASE p \in Members(toClient')
  BY <1>3, <1>4 DEF PageBefore
<1>5. CASE p = h
  <2>1. DispatchPage
    BY <1>3, <1>5 DEF DispatchAnswer
  <2>2. Resumed(p.next)
    BY <1>5, <2>1, PageDoes DEF Inv
  <2>3. CASE pages >= MaxPages /\ cut'
    <3>1. p.next = pages
      BY <1>3, <2>3 DEF OneToken
    <3>2. pages \in Nat /\ MaxPages \in Nat /\ c \in Nat
      BY Sizes DEF Inv, LinksTyped, Chats
    <3> QED BY <1>3, <2>3, <3>1, <3>2
  <2>4. ASSUME NEW q \in Queries, q.kind = "query", q.cursor = p.next, toGateway' = Append(toGateway, q),
               q.known[c].known <=> Known(c)', q.known[c].version = Stored(c)'
        PROVE  q \in Members(toGateway')
    BY <2>4, Typing, AppendMoves
  <2> QED BY <1>3, <2>2, <2>3, <2>4 DEF Resumed
<1> HIDE DEF h
<1> QED BY <1>2, <1>4, <1>5

LEMMA DispatchServes ==
    ASSUME Inv, Inv', Behind, IdsOK, OneToken, NEW c \in Chats, NewestLast(c), Served(c),
           DispatchPage \/ DispatchAnswer
    PROVE  Served(c)'
<1> DEFINE h == Head(toClient)
<1>1. /\ toClient # <<>> /\ toClient' = Tail(toClient) /\ h \in Members(toClient)
      /\ h \in Pages \cup Answers /\ Believed(h) /\ UNCHANGED <<member, generation>>
  BY DispatchBelieved
<1>2. /\ UNCHANGED <<online, dirty, strained>> /\ (cut => cut')
      /\ \A q \in Members(toGateway) : q \in Members(toGateway')
      /\ \/ h.kind = "page" /\ call' = call
         \/ /\ h.kind = "answer"
            /\ ~(call # NoCall /\ call.id = h.id) => call' = call
            /\ call # NoCall /\ call.id = h.id =>
                  /\ call' # NoCall /\ call'.kind = call.kind /\ call'.chat = call.chat
                  /\ call'.id = call.id /\ (h.ok => call'.status = "ok")
  BY DispatchDoes
<1>3. /\ Members(toClient) = {h} \cup Members(toClient') /\ toClient[1] = h /\ 1 \in DOMAIN toClient
      /\ DOMAIN toClient' = 1 .. Len(toClient) - 1 /\ Len(toClient) \in Nat
      /\ \A n \in DOMAIN toClient' : n + 1 \in DOMAIN toClient /\ toClient'[n] = toClient[n + 1]
                                     /\ 1 < n + 1
      /\ \A n \in DOMAIN toClient : n # 1 => n - 1 \in DOMAIN toClient' /\ toClient'[n - 1] = toClient[n]
      /\ DOMAIN toClient = 1 .. Len(toClient)
  BY <1>1, Typing, TailMoves
<1>4. HasId(h) => \A m \in Members(toClient') : HasId(m) => m.id # h.id
  BY <1>1, Typing, DistinctTail DEF IdsOK, IdsApart
<1>5. /\ Stored(c)' = IF Tells(h, c) THEN h.version ELSE Stored(c)
      /\ Stored(c) \in Nat /\ h.version \in Nat /\ Sound(h)
  BY <1>1, Typing DEF Believed, Behind
<1> HIDE DEF h
<1>6. ASSUME NEW m \in Members(toClient'), Clears(m, c)
      PROVE  Clears(m, c)'
  <2>1. CASE m.kind = "page"
    BY <1>6, <2>1 DEF Clears
  <2>2. CASE m.kind = "answer"
    <3>1. call # NoCall /\ call.id = m.id /\ HasId(m)
      BY <1>6, <2>2 DEF Clears, HasId
    <3>2. call' = call
      BY <1>2, <1>4, <3>1 DEF HasId
    <3> QED BY <1>6, <3>2 DEF Clears
  <2> QED BY <1>6, <2>1, <2>2 DEF Clears
<1>7. ASSUME Clears(h, c)
      PROVE  Stored(c)' = 0 \/ Going(c)'
  <2>1. CASE h.kind = "page" /\ h.chat = c /\ h.result = "missing"
    BY <1>5, <2>1 DEF Tells, Sound
  <2>2. CASE h.kind = "answer" /\ h.ok /\ call # NoCall /\ call.kind = "leave"
             /\ call.chat = c /\ call.id = h.id
    BY <1>2, <2>2 DEF Going
  <2> QED BY <1>7, <2>1, <2>2 DEF Clears
<1>8. ASSUME Going(c)
      PROVE  Going(c)'
  <2>1. HasId(h) => h.id # call.id
    BY <1>1, <1>8 DEF Going, IdsOK, CallAlone
  <2>2. call' = call
    BY <1>2, <2>1 DEF HasId
  <2> QED BY <1>8, <2>2 DEF Going
<1>9. MemberServed(c)'
  <2> SUFFICES ASSUME online', member'[c], c \notin dirty', cut' => ~strained' /\ c <= MaxPages
               PROVE  Current(c)' \/ PageBefore(c)' \/ Asked(c)'
    BY DEF MemberServed
  <2>1. member[c] /\ (Current(c) \/ PageBefore(c) \/ Asked(c))
    BY <1>1, <1>2 DEF Served, MemberServed
  <2>2. ASSUME Current(c)
        PROVE  Current(c)'
    <3>1. CASE Stored(c) = generation[c]
      BY <1>1, <1>5, <2>1, <3>1 DEF Current, NewestLast
    <3>2. ASSUME NEW m \in Members(toClient), Tells(m, c), m.version = generation[c]
          PROVE  Current(c)'
      <4>1. CASE m = h
        BY <1>1, <1>5, <3>2, <4>1 DEF Current
      <4>2. CASE m \in Members(toClient')
        BY <1>1, <3>2, <4>2 DEF Current, Tells
      <4> QED BY <1>3, <4>1, <4>2
    <3> QED BY <2>2, <3>1, <3>2 DEF Current
  <2>3. Asked(c) => Asked(c)'
    BY <1>1, <1>2 DEF Asked
  <2>4. ASSUME PageBefore(c)
        PROVE  Current(c)' \/ PageBefore(c)' \/ Asked(c)'
    <3>1. \/ PageBefore(c)'
          \/ \E q \in Members(toGateway') :
                q.kind = "query" /\ q.cursor < c /\ q.known[c].version = Stored(c)'
      BY <1>2, <2>4, NextPage
    <3> QED BY <3>1 DEF Current, Asked
  <2> QED BY <2>1, <2>2, <2>3, <2>4
<1>10. ASSUME Gone(c)', ClearedLater(c)
       PROVE  ClearedLater(c)'
  <2> SUFFICES ASSUME NEW i \in DOMAIN toClient', Tells(toClient'[i], c), toClient'[i].version > 0
               PROVE  \E j \in DOMAIN toClient' : i < j /\ Clears(toClient[j], c)'
    BY DEF ClearedLater, Tells
  <2>1. i + 1 \in DOMAIN toClient /\ toClient'[i] = toClient[i + 1] /\ i \in Nat
    BY <1>3
  <2>2. PICK j \in DOMAIN toClient : i + 1 < j /\ Clears(toClient[j], c)
    BY <1>10, <2>1 DEF ClearedLater
  <2>3. j - 1 \in DOMAIN toClient' /\ toClient'[j - 1] = toClient[j] /\ i < j - 1
    BY <1>3, <2>1, <2>2
  <2>4. toClient'[j - 1] \in Members(toClient')
    BY <2>3 DEF Members
  <2> PICK m \in Members(toClient') : m = toClient'[j - 1]
    BY <2>4
  <2>5. Clears(m, c)'
    BY <1>6, <2>2, <2>3
  <2>6. Clears(toClient[j - 1], c)'
    BY <2>5 DEF Clears
  <2> QED BY <2>3, <2>6
<1>11. GoneServed(c)'
  <2> SUFFICES ASSUME Gone(c)'
               PROVE  GoneServed(c)'
    BY DEF GoneServed
  <2>1. Gone(c)
    BY <1>1, <1>2 DEF Gone
  <2>2. ClearedLater(c)
    BY <2>1 DEF Served, GoneServed
  <2>3. ClearedLater(c)'
    BY <1>10, <2>2
  <2> SUFFICES ASSUME cut' => c <= MaxPages
               PROVE  \/ Stored(c)' = 0 \/ Going(c)' \/ PageBefore(c)' \/ AskedKnown(c)'
                      \/ \E m \in Members(toClient)' : Clears(m, c)'
    BY <2>3 DEF GoneServed
  <2>4. \/ Stored(c) = 0 \/ Going(c) \/ PageBefore(c) \/ AskedKnown(c)
        \/ \E m \in Members(toClient) : Clears(m, c)
    BY <1>2, <2>1 DEF Served, GoneServed
  <2>5. ASSUME NEW m \in Members(toClient), Clears(m, c)
        PROVE  Stored(c)' = 0 \/ Going(c)' \/ \E k \in Members(toClient)' : Clears(k, c)'
    <3>1. CASE m = h
      BY <1>7, <2>5, <3>1
    <3>2. CASE m \in Members(toClient')
      BY <1>6, <2>5, <3>2
    <3> QED BY <1>3, <3>1, <3>2
  <2>6. CASE Stored(c) = 0
    <3>1. CASE Tells(h, c) /\ h.version > 0
      <4>1. PICK j \in DOMAIN toClient : 1 < j /\ Clears(toClient[j], c)
        BY <1>3, <2>2, <3>1 DEF ClearedLater
      <4>2. toClient[j] \in Members(toClient)
        BY DEF Members
      <4> QED BY <2>5, <4>1, <4>2
    <3>2. CASE ~(Tells(h, c) /\ h.version > 0)
      BY <1>5, <2>6, <3>2
    <3> QED BY <3>1, <3>2
  <2>7. AskedKnown(c) => AskedKnown(c)'
    BY <1>2 DEF AskedKnown
  <2>8. ASSUME PageBefore(c)
        PROVE  Stored(c)' = 0 \/ PageBefore(c)' \/ AskedKnown(c)'
    <3>1. \/ PageBefore(c)'
          \/ \E q \in Members(toGateway') :
                q.kind = "query" /\ q.cursor < c /\ (q.known[c].known <=> Known(c)')
      BY <2>1, <2>8, NextPage DEF Gone
    <3>2. ~Known(c)' => Stored(c)' = 0
      BY NextPlaces DEF Inv
    <3> QED BY <3>1, <3>2 DEF AskedKnown
  <2> QED BY <1>8, <2>4, <2>5, <2>6, <2>7, <2>8
<1> QED BY <1>9, <1>11 DEF Served

LEMMA OthersServe ==
    ASSUME Inv, NEW c \in Chats, Served(c), NEW d \in Chats, ChangedByOthers(d)
    PROVE  Served(c)'
<1>1. /\ dirty' = dirty \cup {d}
      /\ UNCHANGED <<toGateway, toClient, online, entries, count, call, cut, strained>>
  BY DEF ChangedByOthers, storeVars
<1>2. CASE c = d
  BY <1>1, <1>2 DEF Served, MemberServed, GoneServed, Gone
<1>3. CASE c # d
  <2>1. member'[c] = member[c] /\ generation'[c] = generation[c]
    BY <1>3 DEF ChangedByOthers, Inv, LinksTyped
  <2>2. Stored(c)' = Stored(c)
    BY <1>1, SameStored
  <2>3. (Going(c) => Going(c)') /\ \A m : Clears(m, c) => Clears(m, c)'
    BY <1>1 DEF Going, Clears
  <2>4. \A q \in Members(toGateway) : q \in Members(toGateway')
    BY <1>1
  <2> QED BY <1>1, <2>1, <2>2, <2>3, <2>4, ServedQuiet
<1> QED BY <1>2, <1>3

LEMMA StartCallServes ==
    ASSUME Inv, NEW c \in Chats, Served(c), NEW d \in Chats,
           NEW kind \in {"create", "rotate", "leave"}, StartCall(kind, d)
    PROVE  Served(c)'
<1> DEFINE r == [kind |-> kind, chat |-> d, id |-> steps]
<1>1. /\ call = NoCall /\ toGateway' = Append(toGateway, r)
      /\ UNCHANGED <<member, generation, toClient, online, entries, count, dirty, cut, strained>>
  BY DEF StartCall, gatewayVars, storeVars, historyVars
<1>2. \A q \in Members(toGateway) : q \in Members(toGateway')
  <2>1. steps \in 1 .. MaxSteps
    BY Sizes DEF StartCall, Step, Inv, LinksTyped
  <2>2. r \in Queries \cup Requests
    BY <2>1 DEF Requests
  <2> HIDE DEF r
  <2>3. Members(toGateway') = Members(toGateway) \cup {r}
    BY <1>1, <2>2, Typing, AppendMoves
  <2> QED BY <2>3
<1>3. Stored(c)' = Stored(c)
  BY <1>1, SameStored
<1>4. ~Going(c) /\ \A m : Clears(m, c) => Clears(m, c)'
  BY <1>1 DEF Going, Clears
<1> HIDE DEF r
<1> QED BY <1>1, <1>2, <1>3, <1>4, ServedQuiet

(* A call that was answered has nothing more under way.                    *)
LEMMA ReturnServes ==
    ASSUME Inv, OwnIds, IdsOK, NEW c \in Chats, Served(c), CallReturns
    PROVE  Served(c)'
<1>1. /\ call # NoCall /\ call.status # "waiting" /\ call' = NoCall /\ dirty \subseteq dirty'
      /\ UNCHANGED <<member, generation, toGateway, toClient, online, cut, strained>>
      /\ \/ /\ call.kind = "leave" /\ call.status = "ok"
            /\ Stored(c)' = IF c = call.chat THEN 0 ELSE Stored(c)
            /\ member[call.chat] => call.chat \in dirty'
         \/ ~(call.kind = "leave" /\ call.status = "ok") /\ Stored(c)' = Stored(c)
  BY ReturnDoes
<1>2. ASSUME NEW m \in Members(toClient), Clears(m, c)
      PROVE  Clears(m, c)'
  <2>1. ~(m.kind = "answer" /\ call.id = m.id)
    BY <1>1 DEF IdsOK, CallAlone, HasId
  <2> QED BY <1>2, <2>1 DEF Clears
<1>3. Going(c) => Stored(c)' = 0
  BY <1>1 DEF Going
<1>4. c \notin dirty' => Stored(c)' = Stored(c) \/ (Stored(c)' = 0 /\ ~member[c])
  BY <1>1
<1>5. \A q \in Members(toGateway) : q \in Members(toGateway')
  BY <1>1
<1> QED BY <1>1, <1>2, <1>3, <1>4, <1>5, ServedQuiet

(* A leave nobody waits for leaves its chat to the next sync.              *)
LEMMA TimeoutServes ==
    ASSUME Inv, NEW c \in Chats, Served(c), CallTimesOut
    PROVE  Served(c)'
<1>1. /\ call # NoCall /\ call.status = "waiting" /\ call' = NoCall
      /\ dirty' = IF call.kind = "leave" THEN dirty \cup {call.chat} ELSE dirty
      /\ UNCHANGED <<member, generation, toGateway, toClient, online, entries, count, cut, strained>>
  BY DEF CallTimesOut, gatewayVars, storeVars
<1>2. Stored(c)' = Stored(c) /\ ~Going(c)
  BY <1>1, SameStored DEF Going
<1>3. ASSUME c \notin dirty', NEW m \in Members(toClient), Clears(m, c)
      PROVE  Clears(m, c)'
  BY <1>1, <1>3 DEF Clears
<1>4. \A q \in Members(toGateway) : q \in Members(toGateway')
  BY <1>1
<1> QED BY <1>1, <1>2, <1>3, <1>4, ServedQuiet

LEMMA EveryStepServes ==
    ASSUME Inv, Inv', OwnIds, Behind, IdsOK, OneToken, NEW c \in Chats, NewestLast(c), Served(c),
           [Next]_vars
    PROVE  Served(c)'
<1>1. CASE Lose
  BY <1>1 DEF Lose, Served, MemberServed, GoneServed, Gone
<1>2. CASE UNCHANGED vars
  <2>1. UNCHANGED <<member, generation, toGateway, toClient, online, entries, count, call, dirty, cut, strained>>
    BY <1>2 DEF vars, gatewayVars, storeVars, historyVars
  <2>2. Stored(c)' = Stored(c)
    BY <2>1, SameStored
  <2>3. (Going(c) => Going(c)') /\ \A m : Clears(m, c) => Clears(m, c)'
    BY <2>1 DEF Going, Clears
  <2>4. \A q \in Members(toGateway) : q \in Members(toGateway')
    BY <2>1
  <2> QED BY <2>1, <2>2, <2>3, <2>4, ServedQuiet
<1> QED BY <1>1, <1>2, OthersServe, QueryServes, CallServes, StartServes, DispatchServes,
           StartCallServes, ReturnServes, TimeoutServes DEF Next

-----------------------------------------------------------------------------
SyncInv ==
    Grounded /\ IdsOK /\ OneToken /\ \A c \in Chats : Served(c)

LEMMA SyncInvStarts ==
    ASSUME Init
    PROVE  SyncInv
<1>1. Inv /\ OwnIds
  BY InitHolds
<1>2. /\ toGateway = <<>> /\ toClient = <<>> /\ DOMAIN toClient = {} /\ DOMAIN toGateway = {}
      /\ Members(toClient) = {} /\ Members(toGateway) = {}
      /\ ~online /\ call = NoCall
  BY DEF Init, Members
<1>3. \A c \in Chats : ~Known(c) /\ Stored(c) = 0
  BY DEF Init, Known, Position, Stored
<1>4. Behind
  BY <1>2, <1>3 DEF Init, Behind
<1>5. \A c \in Chats : NewestLast(c)
  BY <1>2 DEF NewestLast
<1>6. IdsOK
  BY <1>2 DEF IdsOK, IdsApart, CallAlone, DistinctIds
<1>7. OneToken
  BY <1>2 DEF OneToken, OnlyOne
<1>8. \A c \in Chats : Served(c)
  BY <1>2 DEF Served, MemberServed, GoneServed, Gone
<1> QED BY <1>1, <1>4, <1>5, <1>6, <1>7, <1>8 DEF SyncInv, Grounded

LEMMA SyncInvKept ==
    ASSUME ~BorrowedIds, SyncInv, [Next]_vars
    PROVE  SyncInv'
<1>1. Grounded' /\ Inv /\ Inv' /\ OwnIds /\ Behind
  BY EveryStepGrounded DEF SyncInv, Grounded
<1>2. IdsOK' /\ OneToken'
  BY <1>1, EveryStepIds, EveryStepToken DEF SyncInv
<1>3. \A c \in Chats : Served(c)'
  BY <1>1, EveryStepServes DEF SyncInv, Grounded
<1> QED BY <1>1, <1>2, <1>3 DEF SyncInv

(* With nothing under way, what was owed has been delivered.               *)
LEMMA SyncInvReaches ==
    ASSUME SyncInv
    PROVE  SyncReaches
<1> SUFFICES ASSUME online, toClient = <<>>, toGateway = <<>>, call = NoCall,
                    NEW c \in Chats, Reached(c)
             PROVE  Stored(c) = Version(c)
  BY DEF SyncReaches
<1>1. Members(toClient) = {} /\ Members(toGateway) = {}
  BY DEF Members
<1>2. MemberServed(c) /\ GoneServed(c) /\ member[c] \in BOOLEAN
  BY Typing DEF SyncInv, Served, Grounded
<1>3. CASE member[c]
  BY <1>1, <1>2, <1>3 DEF MemberServed, Reached, Version, Current, PageBefore, Asked
<1>4. CASE ~member[c]
  BY <1>1, <1>2, <1>4 DEF GoneServed, Gone, Reached, Version, Going, PageBefore, AskedKnown
<1> QED BY <1>2, <1>3, <1>4

(* SyncReaches (client.c 1365, parser.c 911 and 970): when the application *)
(* passes ids of its own, a finished sync leaves the store in agreement    *)
(* with the gateway on every chat it reached, for any number of chats,     *)
(* pages, calls, changes, lost connections and overlapping syncs.          *)
THEOREM SyncAlwaysReaches == ~BorrowedIds => (Spec => []SyncReaches)
<1> SUFFICES ASSUME ~BorrowedIds
             PROVE  Spec => []SyncReaches
  OBVIOUS
<1>1. Init => SyncInv
  BY SyncInvStarts
<1>2. SyncInv /\ [Next]_vars => SyncInv'
  BY SyncInvKept
<1>3. SyncInv => SyncReaches
  BY SyncInvReaches
<1> QED BY <1>1, <1>2, <1>3, PTL DEF Spec
=============================================================================
