---------------------------- MODULE VPNStatsProofs ----------------------------
(***************************************************************************)
(* Proofs about VPNStats for every value of its constants: any number of   *)
(* peers and addresses, and any timeouts.                                  *)
(***************************************************************************)
EXTENDS VPNStats, FiniteSetTheorems, TLAPS

\* What every method keeps of the entries, and of the endpoint map.
EntriesTyped(es) == DOMAIN es \subseteq Index /\ es \in [DOMAIN es -> Entry]
MapTyped(m)      == DOMAIN m \subseteq Addr /\ m \in [DOMAIN m -> Index]

-----------------------------------------------------------------------------
(* Numbers *)

\* The largest age is larger than every threshold an age is compared with.
LEMMA MaxAgeType ==
  /\ MaxAge \in Nat
  /\ 2 * Timeout < MaxAge /\ 2 * RelayTimeout < MaxAge /\ RecentTraffic < MaxAge
<1> DEFINE T == {2 * Timeout, 2 * RelayTimeout, RecentTraffic}
           m == CHOOSE x \in T : \A n \in T : n <= x
<1>1. Timeout \in Nat /\ RelayTimeout \in Nat /\ RecentTraffic \in Nat
  BY StatsAssumption
<1>2. \E x \in T : \A n \in T : n <= x
  BY <1>1
<1>3. T \subseteq Nat
  BY <1>1
<1> HIDE DEF T
<1>4. m \in T /\ \A n \in T : n <= m
  BY <1>2
<1>5. MaxAge = 1 + m
  BY DEF MaxAge, T
<1> HIDE DEF m
<1> QED
  BY <1>3, <1>4, <1>5 DEF T

\* Only finitely many indices can be counted.
LEMMA IndicesFinite ==
  ASSUME NEW S, S \subseteq Index
  PROVE  IsFiniteSet(S) /\ Cardinality(S) \in Nat /\ Cardinality(S) <= Cardinality(Index)
BY StatsAssumption, FS_Subset, FS_CardinalityType

\* Now ranks above every earlier moment at which an entry was made.
LEMMA NowType == Now \in Nat /\ Now >= 1 /\ Now = Cardinality(Index) + 1
BY IndicesFinite DEF Now

\* Neither change of the counter leaves its bounds.
LEMMA ActiveAfter ==
  ASSUME activeSessions \in 0 .. MaxActive, NEW n \in Nat
  PROVE  /\ Decreased(n) \in 0 .. MaxActive
         /\ Increase(n) => activeSessions' \in 0 .. MaxActive
BY StatsAssumption DEF Decreased, Increase

-----------------------------------------------------------------------------
(* Entries *)

\* A new entry is an entry.
LEMMA NewEntryType ==
  ASSUME NEW a \in Addr, NEW status \in Status, NEW traffic \in BOOLEAN
  PROVE  NewEntry(a, status, traffic) \in Entry
BY MaxAgeType, NowType DEF NewEntry, Entry

\* So is one that sees traffic.
LEMMA ActiveType ==
  ASSUME NEW e \in Entry
  PROVE  Active(e) \in Entry
<1> DEFINE status == IF e.status = "handshaking" THEN "connected" ELSE e.status
<1>1. Active(e) = [e EXCEPT !.age = 0, !.traffic = TRUE, !.status = status]
  BY DEF Active, Entry
<1>2. status \in Status /\ 0 \in 0 .. MaxAge
  BY MaxAgeType DEF Entry, Status
<1> HIDE DEF status
<1> QED
  BY <1>1, <1>2 DEF Entry

\* Each field of an entry may be set to a value of its own.
LEMMA FieldsType ==
  ASSUME NEW e \in Entry, NEW age \in 0 .. MaxAge
  PROVE  /\ \A status \in Status : /\ [e EXCEPT !.status = status] \in Entry
                                   /\ [e EXCEPT !.status = status, !.age = age] \in Entry
         /\ \A a \in Addr : [e EXCEPT !.addr = a] \in Entry
         /\ \A rank \in 1 .. Now : [e EXCEPT !.age = age, !.connectedAt = rank] \in Entry
BY DEF Entry

\* The values the calls set.
LEMMA ValuesType ==
  /\ 0 \in 0 .. MaxAge /\ Now \in 1 .. Now
  /\ {"handshaking", "connected", "disconnected"} \subseteq Status
BY MaxAgeType, NowType DEF Status

\* One more entry.
LEMMA AssignType ==
  ASSUME NEW es, EntriesTyped(es), NEW i \in Index, NEW e \in Entry
  PROVE  EntriesTyped(Assign(es, i, e))
BY DEF EntriesTyped, Assign

\* One more address.
LEMMA AssignMapType ==
  ASSUME NEW m, MapTyped(m), NEW a \in Addr, NEW i \in Index
  PROVE  MapTyped(Assign(m, a, i))
BY DEF MapTyped, Assign

\* Fewer entries or addresses.
LEMMA RestrictType ==
  ASSUME NEW f, NEW S, S \subseteq DOMAIN f
  PROVE  /\ EntriesTyped(f) => EntriesTyped(Restrict(f, S))
         /\ MapTyped(f) => MapTyped(Restrict(f, S))
BY DEF EntriesTyped, MapTyped, Restrict

\* Entries that a method visits one by one.
LEMMA VisitedType ==
  ASSUME NEW es, DOMAIN es \subseteq Index, es = [i \in DOMAIN es |-> es[i]],
         \A i \in DOMAIN es : es[i] \in Entry
  PROVE  EntriesTyped(es)
BY DEF EntriesTyped

-----------------------------------------------------------------------------
(* The calls *)

TypedParts ==
  /\ EntriesTyped(entries)
  /\ MapTyped(endpointMap)
  /\ activeSessions \in 0 .. MaxActive

\* A handshake that begins renews an entry or makes one.
LEMMA InitiatedKeeps ==
  ASSUME TypedParts, NEW i \in Index, NEW a \in Addr, LogHandshakeInitiated(i, a)
  PROVE  TypedParts'
<1> DEFINE e == IF i \in DOMAIN entries
                THEN [entries[i] EXCEPT !.status = "handshaking", !.addr = a, !.age = 0]
                ELSE NewEntry(a, "handshaking", FALSE)
<1>1. e \in Entry
  <2>1. CASE i \in DOMAIN entries
    <3>1. entries[i] \in Entry
      BY <2>1 DEF TypedParts, EntriesTyped
    <3>2. e = [entries[i] EXCEPT !.status = "handshaking", !.addr = a, !.age = 0]
      BY <2>1
    <3> HIDE DEF e
    <3> QED
      BY <3>1, <3>2, ValuesType DEF Entry
  <2>2. CASE i \notin DOMAIN entries
    BY <2>2, NewEntryType DEF Status
  <2> QED
    BY <2>1, <2>2
<1>2. entries' = Assign(entries, i, e) /\ endpointMap' = Assign(endpointMap, a, i)
  BY DEF LogHandshakeInitiated
<1> HIDE DEF e
<1>3. EntriesTyped(entries') /\ MapTyped(endpointMap')
  BY <1>1, <1>2, AssignType, AssignMapType DEF TypedParts
<1> QED
  BY <1>3 DEF TypedParts, LogHandshakeInitiated, EntriesTyped, MapTyped

\* A handshake that completes connects the entries there are.
LEMMA CompletedKeeps ==
  ASSUME TypedParts, NEW s \in Index, NEW r \in Index, LogHandshakeCompleted(s, r)
  PROVE  TypedParts'
<1>1. /\ entries' = [i \in DOMAIN entries |->
           IF i \in {s, r} THEN [entries[i] EXCEPT !.status = "connected", !.age = 0]
                           ELSE entries[i]]
      /\ endpointMap' = endpointMap
      /\ Increase(1)
  BY DEF LogHandshakeCompleted
<1>2. \A e \in Entry : [e EXCEPT !.status = "connected", !.age = 0] \in Entry
  BY FieldsType, ValuesType
<1>3. \A i \in DOMAIN entries : entries'[i] \in Entry
  BY <1>1, <1>2 DEF TypedParts, EntriesTyped
<1>4. EntriesTyped(entries')
  BY <1>1, <1>3, VisitedType DEF TypedParts, EntriesTyped
<1>5. activeSessions' \in 0 .. MaxActive
  BY <1>1, ActiveAfter DEF TypedParts
<1> QED
  BY <1>1, <1>4, <1>5 DEF TypedParts, EntriesTyped, MapTyped

\* How many of a few indices are handshaking is a number.
LEMMA FewCounted ==
  ASSUME EntriesTyped(entries), NEW S, NEW status
  PROVE  Cardinality(S \cap With(entries, status)) \in Nat
BY IndicesFinite DEF With, EntriesTyped

\* Data from a known sender.
LEMMA DataKnownKeeps ==
  ASSUME TypedParts, NEW s \in Index, NEW r \in Index, NEW a \in Addr,
         LogDataTransferKnown(s, r, a)
  PROVE  TypedParts'
<1>1. /\ entries' = [i \in DOMAIN entries |->
           IF i = s THEN [Active(entries[i]) EXCEPT !.addr = a]
           ELSE IF i = r THEN Active(entries[i]) ELSE entries[i]]
      /\ endpointMap' = Assign(endpointMap, a, s)
      /\ Increase(Cardinality({s, r} \cap With(entries, "handshaking")))
  BY DEF LogDataTransferKnown
<1>2. \A e \in Entry : [e EXCEPT !.addr = a] \in Entry
  BY DEF Entry
<1>3. \A i \in DOMAIN entries : entries'[i] \in Entry
  BY <1>1, <1>2, ActiveType DEF TypedParts, EntriesTyped
<1>4. EntriesTyped(entries')
  BY <1>1, <1>3, VisitedType DEF TypedParts, EntriesTyped
<1>5. activeSessions' \in 0 .. MaxActive
  BY <1>1, ActiveAfter, FewCounted DEF TypedParts
<1>6. MapTyped(endpointMap')
  BY <1>1, AssignMapType DEF TypedParts
<1> QED
  BY <1>4, <1>5, <1>6 DEF TypedParts, EntriesTyped, MapTyped

\* Data from an unknown sender at a known address: the entry changes hands.
LEMMA DataTakeOverKeeps ==
  ASSUME TypedParts, NEW s \in Index, NEW a \in Addr, LogDataTransferTakeOver(s, a)
  PROVE  TypedParts'
<1>1. PICK old \in OwnerOf(a) \cap DOMAIN entries :
        /\ entries' = Assign(Restrict(entries, DOMAIN entries \ {old}), s, Active(entries[old]))
        /\ Increase(Cardinality({old} \cap With(entries, "handshaking")))
  BY DEF LogDataTransferTakeOver
<1>2. Active(entries[old]) \in Entry
  BY <1>1, ActiveType DEF TypedParts, EntriesTyped
<1>3. EntriesTyped(Restrict(entries, DOMAIN entries \ {old}))
  BY RestrictType DEF TypedParts
<1>4. EntriesTyped(entries')
  BY <1>1, <1>2, <1>3, AssignType
<1>5. activeSessions' \in 0 .. MaxActive
  BY <1>1, ActiveAfter, FewCounted DEF TypedParts
<1>6. MapTyped(endpointMap')
  BY AssignMapType DEF TypedParts, LogDataTransferTakeOver
<1> QED
  BY <1>4, <1>5, <1>6 DEF TypedParts, EntriesTyped, MapTyped

\* Data from an unknown sender at an address nobody has.
LEMMA DataNewKeeps ==
  ASSUME TypedParts, NEW s \in Index, NEW r \in Index, NEW a \in Addr,
         LogDataTransferNew(s, r, a)
  PROVE  TypedParts'
<1> DEFINE n  == Cardinality({r} \cap With(entries, "handshaking"))
           es == [i \in DOMAIN entries |-> IF i = r THEN Active(entries[i]) ELSE entries[i]]
<1>1. /\ entries' = Assign(es, s, NewEntry(a, "connected", TRUE))
      /\ endpointMap' = Assign(endpointMap, a, s)
      /\ Increase(1 + n)
  BY DEF LogDataTransferNew
<1>2. EntriesTyped(es)
  <2>1. \A i \in DOMAIN entries : es[i] \in Entry
    BY ActiveType DEF TypedParts, EntriesTyped
  <2> QED
    BY <2>1 DEF TypedParts, EntriesTyped
<1>3. EntriesTyped(entries')
  BY <1>1, <1>2, AssignType, NewEntryType DEF Status
<1>4. n \in Nat
  BY FewCounted DEF TypedParts
<1> HIDE DEF n
<1>5. activeSessions' \in 0 .. MaxActive
  BY <1>1, <1>4, ActiveAfter DEF TypedParts
<1>6. MapTyped(endpointMap')
  BY <1>1, AssignMapType DEF TypedParts
<1> QED
  BY <1>3, <1>5, <1>6 DEF TypedParts, EntriesTyped, MapTyped

\* A peer that leaves takes its address out of the map, whoever owns it.
LEMMA DisconnectedKeeps ==
  ASSUME TypedParts, NEW i \in Index, LogPeerDisconnected(i)
  PROVE  TypedParts'
<1>1. /\ i \in DOMAIN entries
      /\ entries' = [entries EXCEPT ![i].status = "disconnected"]
      /\ activeSessions' = Decreased(Cardinality({i} \cap With(entries, "connected")))
      /\ endpointMap' = Restrict(endpointMap, DOMAIN endpointMap \ {entries[i].addr})
  BY DEF LogPeerDisconnected
<1>2. EntriesTyped(entries')
  BY <1>1 DEF TypedParts, EntriesTyped, Entry, Status
<1>3. activeSessions' \in 0 .. MaxActive
  BY <1>1, ActiveAfter, FewCounted DEF TypedParts
<1>4. MapTyped(endpointMap')
  BY <1>1, RestrictType DEF TypedParts
<1> QED
  BY <1>2, <1>3, <1>4 DEF TypedParts, EntriesTyped, MapTyped

\* Idle entries are marked or dropped, with the addresses of those dropped.
LEMMA CleanupKeeps ==
  ASSUME TypedParts, NEW t \in Nat, CleanupExpiredPeers(t)
  PROVE  TypedParts'
<1> DEFINE idle == {i \in With(entries, "connected") : entries[i].age > t}
<1>1. /\ entries' = [i \in DOMAIN entries \ Gone(t) |->
           IF i \in idle THEN [entries[i] EXCEPT !.status = "disconnected"] ELSE entries[i]]
      /\ activeSessions' = Decreased(Cardinality(idle))
      /\ endpointMap' = Restrict(endpointMap,
           DOMAIN endpointMap \ {entries[i].addr : i \in Gone(t)})
  BY DEF CleanupExpiredPeers
<1>2. idle \subseteq Index
  BY DEF With, TypedParts, EntriesTyped
<1> HIDE DEF idle
<1>3. \A e \in Entry : [e EXCEPT !.status = "disconnected"] \in Entry
  BY DEF Entry, Status
<1>4. \A i \in DOMAIN entries' : entries'[i] \in Entry
  BY <1>1, <1>3 DEF TypedParts, EntriesTyped
<1>5. EntriesTyped(entries')
  BY <1>1, <1>4, VisitedType DEF TypedParts, EntriesTyped
<1>6. activeSessions' \in 0 .. MaxActive
  BY <1>1, <1>2, IndicesFinite, ActiveAfter DEF TypedParts
<1>7. MapTyped(endpointMap')
  BY <1>1, RestrictType DEF TypedParts
<1> QED
  BY <1>5, <1>6, <1>7 DEF TypedParts, EntriesTyped, MapTyped

-----------------------------------------------------------------------------
(* Synchronisation *)

\* The first loop changes nothing but a status.
LEMMA CorrectedType ==
  ASSUME EntriesTyped(entries)
  PROVE  /\ EntriesTyped(Corrected)
         /\ DOMAIN Corrected = DOMAIN entries
         /\ \A i \in DOMAIN entries : /\ Corrected[i].addr = entries[i].addr
                                      /\ Corrected[i].connectedAt = entries[i].connectedAt
<1>1. DOMAIN Corrected = DOMAIN entries /\ Corrected = [i \in DOMAIN Corrected |-> Corrected[i]]
  BY DEF Corrected
<1>2. ASSUME NEW i \in DOMAIN entries
      PROVE  /\ Corrected[i] \in Entry
             /\ Corrected[i].addr = entries[i].addr
             /\ Corrected[i].connectedAt = entries[i].connectedAt
  <2>1. entries[i] \in Entry
    BY DEF EntriesTyped
  <2>2. Corrected[i] = entries[i] \/ Corrected[i] = [entries[i] EXCEPT !.status = "connected"]
    BY DEF Corrected
  <2>3. [entries[i] EXCEPT !.status = "connected"] \in Entry
    BY <2>1, FieldsType, ValuesType
  <2> QED
    BY <2>1, <2>2, <2>3 DEF Entry
<1>3. EntriesTyped(Corrected)
  BY <1>1, <1>2, VisitedType DEF EntriesTyped
<1> QED
  BY <1>1, <1>2, <1>3

\* A synchronisation leaves typed entries, and addresses of entries that stay.
LEMMA SyncKeeps ==
  ASSUME TypedParts, SyncPeerStatus
  PROVE  TypedParts'
<1>1. PICK keeper \in [AddrsIn(Corrected) -> DOMAIN entries] :
        /\ entries' = Restrict(Corrected, {keeper[a] : a \in DOMAIN keeper})
        /\ activeSessions' = Repaired(entries')
        /\ endpointMap' =
             [a \in DOMAIN endpointMap \cup
                    {b \in DOMAIN keeper : Cardinality(At(Corrected, b)) > 1} |->
                IF a \in DOMAIN keeper /\ Cardinality(At(Corrected, a)) > 1
                THEN keeper[a] ELSE endpointMap[a]]
  BY DEF SyncPeerStatus
<1>2. EntriesTyped(Corrected) /\ DOMAIN Corrected = DOMAIN entries
  BY CorrectedType DEF TypedParts
<1>3. {keeper[a] : a \in DOMAIN keeper} \subseteq DOMAIN Corrected
  BY <1>2
<1>4. EntriesTyped(entries')
  BY <1>1, <1>2, <1>3, RestrictType
<1>5. activeSessions' \in 0 .. MaxActive
  <2>1. With(entries', "connected") \subseteq Index
    BY <1>4 DEF With, EntriesTyped
  <2>2. activeSessions' = Cardinality(With(entries', "connected"))
    BY <1>1 DEF Repaired, ConnectedPeers
  <2>3. Cardinality(Index) \in Nat
    BY IndicesFinite
  <2> QED
    BY <2>1, <2>2, <2>3, IndicesFinite, ActiveAssumption, StatsAssumption
<1>6. MapTyped(endpointMap')
  <2>1. DOMAIN keeper \subseteq Addr
    BY <1>2 DEF AddrsIn, EntriesTyped, Entry
  <2>2. \A a \in DOMAIN keeper : keeper[a] \in Index
    BY DEF TypedParts, EntriesTyped
  <2>3. DOMAIN endpointMap' \subseteq Addr
    BY <1>1, <2>1 DEF TypedParts, MapTyped
  <2>4. \A a \in DOMAIN endpointMap' : endpointMap'[a] \in Index
    BY <1>1, <2>2 DEF TypedParts, MapTyped
  <2> QED
    BY <1>1, <2>3, <2>4 DEF MapTyped
<1> QED
  BY <1>4, <1>5, <1>6 DEF TypedParts, EntriesTyped, MapTyped

\* The rank of an entry counts the different moments up to its own.
LEMMA RankType ==
  ASSUME EntriesTyped(entries), NEW i \in DOMAIN entries
  PROVE  Cardinality(Earlier(i)) \in 1 .. Now
<1> DEFINE S == {k \in DOMAIN entries : entries[k].connectedAt <= entries[i].connectedAt}
           f == [k \in S |-> entries[k].connectedAt]
<1>1. S \subseteq Index
  BY DEF EntriesTyped
<1>2. IsFiniteSet(S) /\ Cardinality(S) \in Nat /\ Cardinality(S) <= Cardinality(Index)
  BY <1>1, IndicesFinite
<1>3. f \in Surjection(S, Earlier(i))
  <2>1. Earlier(i) = {entries[k].connectedAt : k \in S}
    BY DEF Earlier
  <2> HIDE DEF S
  <2> QED
    BY <2>1 DEF Surjection
<1>4. IsFiniteSet(Earlier(i)) /\ Cardinality(Earlier(i)) <= Cardinality(S)
  BY <1>2, <1>3, FS_Surjection
<1>5. entries[i].connectedAt \in Earlier(i)
  <2>1. entries[i].connectedAt <= entries[i].connectedAt
    BY NowType DEF EntriesTyped, Entry
  <2> QED
    BY <2>1 DEF Earlier
<1>6. Cardinality(Earlier(i)) \in Nat /\ Cardinality(Earlier(i)) # 0
  BY <1>4, <1>5, FS_CardinalityType, FS_EmptySet
<1> HIDE DEF S
<1> QED
  BY <1>2, <1>4, <1>6, NowType, IndicesFinite

\* Ages grow up to a bound; ranks are compressed.
LEMMA TimePassesKeeps ==
  ASSUME TypedParts, TimePasses
  PROVE  TypedParts'
<1> DEFINE older(i) == IF entries[i].age < MaxAge THEN entries[i].age + 1 ELSE entries[i].age
           rank(i)  == Cardinality(Earlier(i))
<1>1. entries' = [i \in DOMAIN entries |->
                    [entries[i] EXCEPT !.age = older(i), !.connectedAt = rank(i)]]
  BY DEF TimePasses
<1>2. ASSUME NEW i \in DOMAIN entries PROVE entries'[i] \in Entry
  <2>1. entries[i] \in Entry
    BY DEF TypedParts, EntriesTyped
  <2>2. older(i) \in 0 .. MaxAge
    BY <2>1, MaxAgeType DEF Entry
  <2>3. rank(i) \in 1 .. Now
    BY RankType DEF TypedParts
  <2> HIDE DEF older, rank
  <2> QED
    BY <1>1, <2>1, <2>2, <2>3, FieldsType
<1>3. EntriesTyped(entries')
  BY <1>1, <1>2, VisitedType DEF TypedParts, EntriesTyped
<1> QED
  BY <1>3 DEF TypedParts, TimePasses, EntriesTyped, MapTyped

-----------------------------------------------------------------------------
(* The types *)

\* Every step keeps the types.
LEMMA NextKeeps == StatsTypeOK /\ [StatsNext]_statsVars => StatsTypeOK'
<1> SUFFICES ASSUME StatsTypeOK, [StatsNext]_statsVars PROVE StatsTypeOK'
  OBVIOUS
<1>1. TypedParts
  BY DEF StatsTypeOK, TypedParts, EntriesTyped, MapTyped
<1>2. TypedParts'
  <2>1. ASSUME NEW i \in Index, NEW a \in Addr, LogHandshakeInitiated(i, a) PROVE TypedParts'
    BY <1>1, <2>1, InitiatedKeeps
  <2>2. ASSUME NEW s \in Index, NEW r \in Index, LogHandshakeCompleted(s, r) PROVE TypedParts'
    BY <1>1, <2>2, CompletedKeeps
  <2>3. ASSUME NEW s \in Index, NEW r \in Index, NEW a \in Addr, LogDataTransfer(s, r, a)
        PROVE  TypedParts'
    BY <1>1, <2>3, DataKnownKeeps, DataTakeOverKeeps, DataNewKeeps DEF LogDataTransfer
  <2>4. ASSUME NEW i \in Index, LogPeerDisconnected(i) PROVE TypedParts'
    BY <1>1, <2>4, DisconnectedKeeps
  <2>5. ASSUME UNCHANGED <<entries, endpointMap, activeSessions>> PROVE TypedParts'
    BY <1>1, <2>5 DEF TypedParts, EntriesTyped, MapTyped
  <2>6. CASE Ticker
    <3>1. CASE SyncPeerStatus
      BY <1>1, <3>1, SyncKeeps
    <3>2. CASE SyncPeerStatusPanics
      BY <2>5, <3>2 DEF SyncPeerStatusPanics
    <3>3. CASE CleanupExpiredPeers(Timeout)
      BY <1>1, <3>3, StatsAssumption, CleanupKeeps
    <3> QED
      BY <2>6, <3>1, <3>2, <3>3 DEF Ticker
  <2>7. CASE RelayTicker
    BY <1>1, <2>7, StatsAssumption, CleanupKeeps DEF RelayTicker
  <2>8. CASE TimePasses
    BY <1>1, <2>8, TimePassesKeeps
  <2> QED
    BY <2>1, <2>2, <2>3, <2>4, <2>5, <2>6, <2>7, <2>8 DEF StatsNext, statsVars
<1>3. ticker' \in {"sync", "cleanup"} /\ crashed' \in BOOLEAN
  <2>1. ticker \in {"sync", "cleanup"} /\ crashed \in BOOLEAN
    BY DEF StatsTypeOK
  <2>2. CASE UNCHANGED <<ticker, crashed>>
    BY <2>1, <2>2
  <2>3. CASE Ticker
    BY <2>1, <2>3 DEF Ticker, SyncPeerStatus, SyncPeerStatusPanics, CleanupExpiredPeers
  <2>4. CASE RelayTicker
    BY <2>1, <2>4 DEF RelayTicker, CleanupExpiredPeers
  <2> QED
    BY <2>2, <2>3, <2>4
       DEF StatsNext, LogHandshakeInitiated, LogHandshakeCompleted, LogDataTransfer,
           LogDataTransferKnown, LogDataTransferTakeOver, LogDataTransferNew,
           LogPeerDisconnected, TimePasses, statsVars
<1> QED
  BY <1>2, <1>3 DEF StatsTypeOK, TypedParts, EntriesTyped, MapTyped

\* The statistics always have their types: the count of active sessions
\* never wraps below zero, and the map leads to indices only.
THEOREM TypeCorrect == StatsSpec => []StatsTypeOK
<1>1. StatsInit => StatsTypeOK
  <2> SUFFICES ASSUME StatsInit PROVE StatsTypeOK
    OBVIOUS
  <2>1. activeSessions \in 0 .. MaxActive
    BY StatsAssumption DEF StatsInit
  <2> QED
    BY <2>1 DEF StatsInit, StatsTypeOK
<1> QED
  BY <1>1, NextKeeps, PTL DEF StatsSpec

-----------------------------------------------------------------------------
(* Duplicates *)

\* What DuplicatesResolved says of a step.
Resolved ==
  /\ AddrsIn(entries') = AddrsIn(entries)
  /\ \A i, j \in DOMAIN entries' : entries'[i].addr = entries'[j].addr => i = j
  /\ \A i \in DOMAIN entries' : \A j \in At(entries, entries'[i].addr) :
       entries[j].connectedAt <= entries'[i].connectedAt

\* An entry left at its address was connected no earlier than any other:
\* either none replaced it, or it replaced the one the others lost to.
LEMMA SurvivorIsNewest ==
  ASSUME NEW es, EntriesTyped(es), NEW k \in DOMAIN es, Survives(es, k),
         NEW j \in At(es, es[k].addr)
  PROVE  es[j].connectedAt <= es[k].connectedAt
<1>1. j \in DOMAIN es /\ \A i \in DOMAIN es : es[i].connectedAt \in Int
  BY NowType DEF At, EntriesTyped, Entry
<1>2. CASE j = k
  BY <1>1, <1>2
<1>3. CASE j # k
  <2> DEFINE others == At(es, es[k].addr) \ {k}
  <2>1. j \in others
    BY <1>3
  <2>2. CASE \A i \in others : MayKeep(es[i], es[k])
    BY <1>1, <2>1, <2>2 DEF MayKeep
  <2>3. ASSUME NEW f \in others,
               MayReplace(es[k], es[f]), \A i \in others \ {f} : MayKeep(es[i], es[f])
        PROVE  es[j].connectedAt <= es[k].connectedAt
    <3>1. f \in DOMAIN es
      BY DEF At
    <3>2. es[f].connectedAt <= es[k].connectedAt
      BY <1>1, <2>3, <3>1 DEF MayReplace
    <3>3. j = f \/ es[j].connectedAt <= es[f].connectedAt
      BY <1>1, <2>1, <2>3, <3>1 DEF MayKeep
    <3> QED
      BY <1>1, <3>1, <3>2, <3>3
  <2> QED
    BY <2>2, <2>3 DEF Survives
<1> QED
  BY <1>2, <1>3

\* A synchronisation resolves the duplicates of every address.
LEMMA SyncResolves ==
  ASSUME EntriesTyped(entries), SyncPeerStatus
  PROVE  Resolved
<1>1. PICK keeper \in [AddrsIn(Corrected) -> DOMAIN entries] :
        /\ entries' = Restrict(Corrected, {keeper[a] : a \in DOMAIN keeper})
        /\ \A a \in DOMAIN keeper : /\ Corrected[keeper[a]].addr = a
                                    /\ Survives(Corrected, keeper[a])
  BY DEF SyncPeerStatus
<1>2. /\ EntriesTyped(Corrected)
      /\ DOMAIN Corrected = DOMAIN entries
      /\ \A i \in DOMAIN entries : /\ Corrected[i].addr = entries[i].addr
                                   /\ Corrected[i].connectedAt = entries[i].connectedAt
  BY CorrectedType
<1>3. AddrsIn(Corrected) = AddrsIn(entries)
  BY <1>2 DEF AddrsIn
<1>4. /\ DOMAIN entries' = {keeper[a] : a \in AddrsIn(entries)}
      /\ \A i \in DOMAIN entries' : entries'[i] = Corrected[i]
  BY <1>1, <1>3 DEF Restrict
<1>5. \A a \in AddrsIn(entries) : /\ keeper[a] \in DOMAIN entries'
                                  /\ entries'[keeper[a]].addr = a
  BY <1>1, <1>3, <1>4
<1>6. AddrsIn(entries') = AddrsIn(entries)
  <2>1. \A i \in DOMAIN entries' : entries'[i].addr \in AddrsIn(entries)
    BY <1>4, <1>5
  <2>2. \A a \in AddrsIn(entries) : \E i \in DOMAIN entries' : entries'[i].addr = a
    BY <1>5
  <2>3. AddrsIn(entries') = {entries'[i].addr : i \in DOMAIN entries'}
    BY DEF AddrsIn
  <2> QED
    BY <2>1, <2>2, <2>3
<1>7. \A i, j \in DOMAIN entries' : entries'[i].addr = entries'[j].addr => i = j
  BY <1>4, <1>5
<1>8. ASSUME NEW i \in DOMAIN entries', NEW j \in At(entries, entries'[i].addr)
      PROVE  entries[j].connectedAt <= entries'[i].connectedAt
  <2>1. i \in DOMAIN Corrected /\ Survives(Corrected, i) /\ entries'[i] = Corrected[i]
    BY <1>1, <1>2, <1>3, <1>4
  <2>2. j \in At(Corrected, Corrected[i].addr) /\ j \in DOMAIN entries
    BY <1>2, <2>1 DEF At
  <2>3. Corrected[j].connectedAt <= Corrected[i].connectedAt
    BY <1>2, <2>1, <2>2, SurvivorIsNewest
  <2> QED
    BY <1>2, <2>1, <2>2, <2>3
<1> QED
  BY <1>6, <1>7, <1>8 DEF Resolved

\* A synchronisation that ends leaves one entry for each address, the latest
\* connected one, in whatever order Go visits the map.
THEOREM DuplicatesGo == StatsSpec => DuplicatesResolved
<1>1. ASSUME StatsTypeOK, [StatsNext]_statsVars,
             ~crashed', ticker = "sync", ticker' = "cleanup"
      PROVE  Resolved
  <2>1. EntriesTyped(entries)
    BY <1>1 DEF StatsTypeOK, EntriesTyped
  <2>2. ticker' # ticker
    BY <1>1
  <2>3. Ticker
    BY <1>1, <2>2
       DEF StatsNext, LogHandshakeInitiated, LogHandshakeCompleted, LogDataTransfer,
           LogDataTransferKnown, LogDataTransferTakeOver, LogDataTransferNew,
           LogPeerDisconnected, RelayTicker, TimePasses, statsVars
  <2>4. SyncPeerStatus
    BY <1>1, <2>2, <2>3 DEF Ticker, SyncPeerStatusPanics
  <2> QED
    BY <2>1, <2>4, SyncResolves
<1>2. StatsTypeOK /\ [StatsNext]_statsVars =>
        [~crashed' /\ ticker = "sync" /\ ticker' = "cleanup" => Resolved]_statsVars
  BY <1>1
<1> QED
  BY <1>2, TypeCorrect, PTL DEF StatsSpec, DuplicatesResolved, Resolved
=============================================================================
