------------------------- MODULE ExchangeTableProofs -------------------------
(***************************************************************************)
(* Proofs about ExchangeTable for every value of its constants: any number *)
(* of indices, addresses and keys, any deadlines, any bound on references. *)
(***************************************************************************)
EXTENDS ExchangeTable, FiniteSetTheorems, TLAPS

(* The invariant, as predicates on any pair of tables: the methods first   *)
(* clean both tables and then change the clean ones.                       *)
Users(ps, a) == {i \in DOMAIN ps : ps[i].addr = a}

Typed(eps, ps) ==
  /\ DOMAIN eps \subseteq Addr
  /\ eps \in [DOMAIN eps -> Endpoint]
  /\ DOMAIN ps \subseteq Index
  /\ ps \in [DOMAIN ps -> Peer]

Covered(eps, ps) ==
  /\ \A i \in DOMAIN ps : ps[i].addr \in DOMAIN eps
  /\ \A a \in DOMAIN eps : eps[a].refs >= Cardinality(Users(ps, a))

Paired(ps) ==
  \A i \in DOMAIN ps : ps[i].established =>
    LET c == ps[i].counterpart IN
      /\ c \in DOMAIN ps
      /\ ps[c].established
      /\ ps[c].counterpart = i
      /\ ps[c].ttl = ps[i].ttl

IInv == TypeOK /\ Covered(endpoints, peers) /\ PairingSymmetric

-----------------------------------------------------------------------------
(* Counting users *)

\* Only finitely many peers can use an address.
LEMMA UsersFinite ==
  ASSUME NEW ps, DOMAIN ps \subseteq Index, NEW a
  PROVE  IsFiniteSet(Users(ps, a)) /\ Cardinality(Users(ps, a)) \in Nat
<1>1. Users(ps, a) \in SUBSET Index
  BY DEF Users
<1>2. IsFiniteSet(Users(ps, a))
  BY <1>1, FS_Subset, IndexAssumption
<1> QED
  BY <1>2, FS_CardinalityType

\* An address in use has a positive number of users.
LEMMA UsedIsPositive ==
  ASSUME NEW ps, DOMAIN ps \subseteq Index, NEW i \in DOMAIN ps
  PROVE  Cardinality(Users(ps, ps[i].addr)) >= 1
<1>1. i \in Users(ps, ps[i].addr)
  BY DEF Users
<1>2. Cardinality(Users(ps, ps[i].addr)) # 0
  BY <1>1, UsersFinite, FS_EmptySet
<1> QED
  BY <1>2, UsersFinite

\* The users of an address are its expired ones and those cleanup() leaves.
LEMMA CleanedUsers ==
  ASSUME DOMAIN peers \subseteq Index, NEW a
  PROVE  /\ Cardinality(ExpiredUsersOf(a)) \in Nat
         /\ Cardinality(Users(peers, a))
              = Cardinality(ExpiredUsersOf(a)) + Cardinality(Users(CleanedPeers, a))
<1>1. ExpiredUsersOf(a) \in SUBSET Users(peers, a)
  BY DEF ExpiredUsersOf, UsersOf, Users
<1>2. Users(CleanedPeers, a) = Users(peers, a) \ ExpiredUsersOf(a)
  BY DEF Users, CleanedPeers, Restrict, LivePeers, ExpiredPeers, ExpiredUsersOf, UsersOf
<1>3. Users(peers, a) \cap ExpiredUsersOf(a) = ExpiredUsersOf(a)
  BY <1>1
<1>4. IsFiniteSet(Users(peers, a)) /\ Cardinality(Users(peers, a)) \in Nat
  BY UsersFinite
<1>5. Cardinality(ExpiredUsersOf(a)) \in Nat
  BY <1>1, <1>4, FS_Subset, FS_CardinalityType
<1>6. Cardinality(Users(CleanedPeers, a))
        = Cardinality(Users(peers, a)) - Cardinality(ExpiredUsersOf(a))
  BY <1>2, <1>3, <1>4, FS_Difference
<1> QED
  BY <1>4, <1>5, <1>6

-----------------------------------------------------------------------------
(* cleanup() *)

\* One deref of n users keeps an endpoint well formed if n were counted.
LEMMA DerefType ==
  ASSUME NEW e \in Endpoint, NEW n \in Nat, e.refs >= n
  PROVE  /\ Deref(e, n) \in Endpoint
         /\ Deref(e, n).refs = e.refs - n
BY TTLAssumption, BoundAssumption DEF Deref, Endpoint, Past

\* cleanup() keeps the tables typed: what it leaves is part of what was
\* there, with smaller counts.
LEMMA CleanupTyped ==
  ASSUME Typed(endpoints, peers), Covered(endpoints, peers)
  PROVE  /\ Typed(CleanedEndpoints, CleanedPeers)
         /\ \A a \in DOMAIN endpoints :
              /\ Released[a] \in Endpoint
              /\ Released[a].refs >= Cardinality(Users(CleanedPeers, a))
<1>1. ASSUME NEW a \in DOMAIN endpoints
      PROVE  /\ Released[a] \in Endpoint
             /\ Released[a].refs >= Cardinality(Users(CleanedPeers, a))
  <2>1. /\ Cardinality(ExpiredUsersOf(a)) \in Nat
        /\ Cardinality(Users(peers, a))
             = Cardinality(ExpiredUsersOf(a)) + Cardinality(Users(CleanedPeers, a))
    BY CleanedUsers DEF Typed
  <2>2. DOMAIN CleanedPeers \subseteq Index
    BY DEF CleanedPeers, Restrict, LivePeers, Typed
  <2>3. Cardinality(Users(CleanedPeers, a)) \in Nat
    BY <2>2, UsersFinite
  <2>4. endpoints[a] \in Endpoint /\ endpoints[a].refs \in Nat
    BY BoundAssumption DEF Typed, Endpoint
  <2>5. endpoints[a].refs >= Cardinality(Users(peers, a))
    BY DEF Covered
  <2>6. Released[a] = Deref(endpoints[a], Cardinality(ExpiredUsersOf(a)))
    BY DEF Released
  <2> QED
    BY <2>1, <2>3, <2>4, <2>5, <2>6, DerefType
<1>2. DOMAIN CleanedPeers \subseteq Index /\ CleanedPeers \in [DOMAIN CleanedPeers -> Peer]
  BY DEF CleanedPeers, Restrict, LivePeers, Typed
<1>3. DOMAIN CleanedEndpoints \subseteq DOMAIN endpoints
  BY DEF CleanedEndpoints, Restrict, Released
<1>4. \A a \in DOMAIN CleanedEndpoints : CleanedEndpoints[a] = Released[a]
  BY DEF CleanedEndpoints, Restrict
<1>5. CleanedEndpoints \in [DOMAIN CleanedEndpoints -> Endpoint]
  BY <1>1, <1>3, <1>4 DEF CleanedEndpoints, Restrict
<1> QED
  BY <1>1, <1>2, <1>3, <1>5 DEF Typed

\* cleanup() drops no endpoint of a peer that stays.
LEMMA CleanupCovered ==
  ASSUME Typed(endpoints, peers), Covered(endpoints, peers)
  PROVE  Covered(CleanedEndpoints, CleanedPeers)
<1>1. \A a \in DOMAIN endpoints :
        /\ Released[a] \in Endpoint
        /\ Released[a].refs >= Cardinality(Users(CleanedPeers, a))
  BY CleanupTyped
<1>2. DOMAIN Released = DOMAIN endpoints
  BY DEF Released
<1>3. ASSUME NEW i \in DOMAIN CleanedPeers
      PROVE  CleanedPeers[i].addr \in DOMAIN CleanedEndpoints
  <2>1. /\ i \in DOMAIN peers
        /\ CleanedPeers[i] = peers[i]
    BY DEF CleanedPeers, Restrict, LivePeers
  <2>2. CleanedPeers[i].addr \in DOMAIN endpoints
    BY <2>1 DEF Covered
  <2>3. DOMAIN CleanedPeers \subseteq Index
    BY CleanupTyped DEF Typed
  <2>4. Cardinality(Users(CleanedPeers, CleanedPeers[i].addr)) >= 1
    BY <2>3, UsedIsPositive
  <2>5. Cardinality(Users(CleanedPeers, CleanedPeers[i].addr)) \in Nat
    BY <2>3, UsersFinite
  <2>6. ~EndpointExpired(Released[CleanedPeers[i].addr])
    BY <1>1, <2>2, <2>4, <2>5 DEF EndpointExpired, Endpoint
  <2> QED
    BY <1>2, <2>2, <2>6 DEF CleanedEndpoints, Restrict
<1>4. ASSUME NEW a \in DOMAIN CleanedEndpoints
      PROVE  CleanedEndpoints[a].refs >= Cardinality(Users(CleanedPeers, a))
  BY <1>1, <1>2 DEF CleanedEndpoints, Restrict
<1> QED
  BY <1>3, <1>4 DEF Covered

\* Two ends of a session expire together, so cleanup() takes both or none.
LEMMA CleanupPaired ==
  ASSUME PairingSymmetric
  PROVE  Paired(CleanedPeers)
BY DEF PairingSymmetric, Paired, CleanedPeers, Restrict, LivePeers, PeerExpired

-----------------------------------------------------------------------------
(* refEndpoint and derefEndpoint *)

\* A new peer at address a and one more reference to a keep the counts right.
LEMMA RefKeepsTables ==
  ASSUME NEW eps, NEW ps, Typed(eps, ps), Covered(eps, ps),
         NEW i \in Index, i \notin DOMAIN ps,
         NEW p \in Peer,
         RefEndpoint(eps, p.addr)[p.addr].refs <= MaxRefs
  PROVE  /\ Typed(RefEndpoint(eps, p.addr), Put(ps, i, p))
         /\ Covered(RefEndpoint(eps, p.addr), Put(ps, i, p))
<1> DEFINE a    == p.addr
           eps2 == RefEndpoint(eps, a)
           ps2  == Put(ps, i, p)
<1>1. a \in Addr
  BY DEF Peer
<1>2. /\ DOMAIN ps2 = DOMAIN ps \cup {i}
      /\ ps2[i] = p
      /\ \A j \in DOMAIN ps : ps2[j] = ps[j]
  BY DEF Put
<1>3. DOMAIN ps2 \subseteq Index /\ ps2 \in [DOMAIN ps2 -> Peer]
  BY DEF Put, Typed
<1>4. /\ DOMAIN eps2 = DOMAIN eps \cup {a}
      /\ \A b \in DOMAIN eps : b # a => eps2[b] = eps[b]
  BY DEF RefEndpoint, Put
<1>5. Users(ps2, a) = Users(ps, a) \cup {i} /\ i \notin Users(ps, a)
  BY <1>2 DEF Users
<1>6. Cardinality(Users(ps, a)) \in Nat /\ IsFiniteSet(Users(ps, a))
  BY UsersFinite DEF Typed
<1>7. Cardinality(Users(ps2, a)) = Cardinality(Users(ps, a)) + 1
  BY <1>5, <1>6, FS_AddElement
<1>8. eps2[a] \in Endpoint /\ eps2[a].refs >= Cardinality(Users(ps2, a))
  <2>1. CASE a \in DOMAIN eps
    <3>1. eps2[a] = [eps[a] EXCEPT !.refs = @ + 1]
      BY <2>1 DEF RefEndpoint, Put
    <3>2. eps[a] \in Endpoint /\ eps[a].refs >= Cardinality(Users(ps, a))
      BY <2>1 DEF Typed, Covered
    <3>3. eps2[a].refs = eps[a].refs + 1 /\ eps2[a].refs <= MaxRefs
      BY <3>1, <3>2 DEF Endpoint
    <3>4. eps2[a] \in Endpoint
      BY <3>1, <3>2, <3>3, BoundAssumption DEF Endpoint
    <3> QED
      BY <3>2, <3>3, <3>4, <1>6, <1>7, BoundAssumption DEF Endpoint
  <2>2. CASE a \notin DOMAIN eps
    <3>1. eps2[a] = [refs |-> 1, ttl |-> Past]
      BY <2>2 DEF RefEndpoint, Put
    <3>2. Users(ps, a) = {}
      BY <2>2 DEF Users, Covered
    <3>3. Cardinality(Users(ps2, a)) = 1
      BY <3>2, <1>7, FS_EmptySet
    <3>4. 1 <= MaxRefs
      BY <3>1
    <3>5. eps2[a] \in Endpoint
      BY <3>1, <3>4, BoundAssumption, TTLAssumption DEF Endpoint, Past
    <3> QED
      BY <3>1, <3>3, <3>5
  <2> QED
    BY <2>1, <2>2
<1>9. ASSUME NEW b \in DOMAIN eps, b # a
      PROVE  eps2[b] \in Endpoint /\ eps2[b].refs >= Cardinality(Users(ps2, b))
  <2>1. Users(ps2, b) = Users(ps, b)
    BY <1>2, <1>9 DEF Users
  <2> QED
    BY <1>4, <1>9, <2>1 DEF Typed, Covered
<1>10. DOMAIN eps2 \subseteq Addr
  BY <1>1, <1>4 DEF Typed
<1>11. eps2 \in [DOMAIN eps2 -> Endpoint]
  <2>1. eps2 = [b \in DOMAIN eps2 |-> eps2[b]]
    BY DEF RefEndpoint, Put
  <2> QED
    BY <1>4, <1>8, <1>9, <2>1
<1>12. \A j \in DOMAIN ps2 : ps2[j].addr \in DOMAIN eps2
  BY <1>2, <1>4 DEF Covered
<1> HIDE DEF eps2, ps2
<1>13. Typed(eps2, ps2)
  BY <1>3, <1>10, <1>11 DEF Typed
<1>14. Covered(eps2, ps2)
  BY <1>4, <1>8, <1>9, <1>12 DEF Covered
<1> QED
  BY <1>13, <1>14 DEF eps2, ps2, a

\* A peer that leaves, with one release of its endpoint, keeps them right.
LEMMA ReleaseKeepsTables ==
  ASSUME NEW eps, NEW ps, Typed(eps, ps), Covered(eps, ps), NEW i \in DOMAIN ps
  PROVE  LET eps2 == [eps EXCEPT ![ps[i].addr] = Deref(@, 1)]
             ps2  == Restrict(ps, DOMAIN ps \ {i})
         IN  Typed(eps2, ps2) /\ Covered(eps2, ps2)
<1> DEFINE a    == ps[i].addr
           eps2 == [eps EXCEPT ![a] = Deref(@, 1)]
           ps2  == Restrict(ps, DOMAIN ps \ {i})
<1>1. /\ DOMAIN ps2 = DOMAIN ps \ {i}
      /\ \A j \in DOMAIN ps2 : ps2[j] = ps[j]
  BY DEF Restrict
<1>2. DOMAIN ps2 \subseteq Index /\ ps2 \in [DOMAIN ps2 -> Peer]
  BY DEF Restrict, Typed
<1>3. a \in DOMAIN eps
  BY DEF Covered
<1>4. /\ DOMAIN eps2 = DOMAIN eps
      /\ eps2[a] = Deref(eps[a], 1)
      /\ \A b \in DOMAIN eps : b # a => eps2[b] = eps[b]
  BY <1>3 DEF Typed
<1>5. Users(ps2, a) = Users(ps, a) \ {i} /\ i \in Users(ps, a)
  BY <1>1 DEF Users
<1>6. Cardinality(Users(ps, a)) \in Nat /\ IsFiniteSet(Users(ps, a))
  BY UsersFinite DEF Typed
<1>7. Cardinality(Users(ps2, a)) = Cardinality(Users(ps, a)) - 1
  BY <1>5, <1>6, FS_RemoveElement
<1>8. Cardinality(Users(ps2, a)) \in Nat
  BY <1>2, UsersFinite
<1>9. eps[a] \in Endpoint /\ eps[a].refs >= Cardinality(Users(ps, a)) /\ eps[a].refs \in Nat
  BY <1>3, BoundAssumption DEF Typed, Covered, Endpoint
<1>10. eps[a].refs >= 1
  BY <1>6, <1>7, <1>8, <1>9
<1>11. Deref(eps[a], 1) \in Endpoint /\ Deref(eps[a], 1).refs = eps[a].refs - 1
  BY <1>9, <1>10, DerefType
<1>12. ASSUME NEW b \in DOMAIN eps, b # a
       PROVE  eps2[b] \in Endpoint /\ eps2[b].refs >= Cardinality(Users(ps2, b))
  <2>1. Users(ps2, b) = Users(ps, b)
    BY <1>1, <1>12 DEF Users
  <2> QED
    BY <1>4, <1>12, <2>1 DEF Typed, Covered
<1>13. eps2[a] \in Endpoint /\ eps2[a].refs >= Cardinality(Users(ps2, a))
  BY <1>4, <1>6, <1>7, <1>9, <1>11
<1>14. eps2 \in [DOMAIN eps2 -> Endpoint]
  BY <1>4, <1>12, <1>13
<1>15. \A j \in DOMAIN ps2 : ps2[j].addr \in DOMAIN eps2
  BY <1>1, <1>4 DEF Covered
<1>16. DOMAIN eps2 \subseteq Addr
  BY <1>4 DEF Typed
<1> HIDE DEF eps2, ps2
<1>17. Typed(eps2, ps2)
  BY <1>2, <1>14, <1>16 DEF Typed
<1>18. Covered(eps2, ps2)
  BY <1>4, <1>12, <1>13, <1>15 DEF Covered
<1> QED
  BY <1>17, <1>18 DEF eps2, ps2, a

-----------------------------------------------------------------------------
(* The inductive invariant *)

KeysTyped(keys) ==
  DOMAIN keys \subseteq Index /\ keys \in [DOMAIN keys -> Key]

\* The invariant is the three predicates on the two tables, and the keys' type.
LEMMA InvariantParts ==
  IInv <=> /\ Typed(endpoints, peers)
           /\ Covered(endpoints, peers)
           /\ Paired(peers)
           /\ KeysTyped(peerPubkeys)
BY DEF IInv, TypeOK, Typed, PairingSymmetric, Paired, KeysTyped

\* The same in the next state.
LEMMA InvariantPartsNext ==
  ASSUME Typed(endpoints', peers'), Covered(endpoints', peers'), Paired(peers'),
         KeysTyped(peerPubkeys')
  PROVE  IInv'
BY DEF IInv, TypeOK, Typed, Covered, Users, PairingSymmetric, Paired, KeysTyped

\* What every writing method works on: the tables after its cleanup().
LEMMA CleanTables ==
  ASSUME IInv
  PROVE  /\ Typed(CleanedEndpoints, CleanedPeers)
         /\ Covered(CleanedEndpoints, CleanedPeers)
         /\ Paired(CleanedPeers)
         /\ KeysTyped(peerPubkeys)
BY InvariantParts, CleanupTyped, CleanupCovered, CleanupPaired DEF IInv

\* A method that fails has cleaned up and nothing more.
LEMMA CleanupOnlyKeeps == ASSUME IInv, CleanupOnly PROVE IInv'
BY CleanTables, InvariantPartsNext DEF CleanupOnly

\* A new peer is single, so it disturbs no session.
LEMMA AddPeerAddrKeeps ==
  ASSUME IInv, NEW i \in Index, NEW a \in Addr, AddPeerAddr(i, a)
  PROVE  IInv'
<1> DEFINE p == [addr |-> a, established |-> FALSE,
                 counterpart |-> NoIndex, ttl |-> HandshakeTTL]
<1>1. p \in Peer /\ p.addr = a
  BY TTLAssumption DEF Peer, Past
<1>2. /\ peers' = Put(CleanedPeers, i, p)
      /\ endpoints' = RefEndpoint(CleanedEndpoints, a)
      /\ RefEndpoint(CleanedEndpoints, a)[a].refs <= MaxRefs
      /\ i \notin DOMAIN CleanedPeers
      /\ peerPubkeys' = peerPubkeys
  BY DEF AddPeerAddr
<1>3. p.established = FALSE
  OBVIOUS
<1> HIDE DEF p
<1>4. Typed(endpoints', peers') /\ Covered(endpoints', peers')
  BY <1>1, <1>2, CleanTables, RefKeepsTables
<1>5. Paired(peers')
  BY <1>2, <1>3, CleanTables DEF Paired, Put
<1> QED
  BY <1>2, <1>4, <1>5, CleanTables, InvariantPartsNext

\* The peer leaves its old endpoint and comes back at the new one.
LEMMA UpdatePeerAddrKeeps ==
  ASSUME IInv, NEW i \in Index, NEW a \in Addr, UpdatePeerAddr(i, a)
  PROVE  IInv'
<1> DEFINE cp   == CleanedPeers
           ce   == CleanedEndpoints
           p    == [cp[i] EXCEPT !.addr = a]
           ce2  == [ce EXCEPT ![cp[i].addr] = Deref(@, 1)]
           rest == Restrict(cp, DOMAIN cp \ {i})
<1>1. /\ i \in DOMAIN cp
      /\ peers' = [cp EXCEPT ![i].addr = a]
      /\ endpoints' = RefEndpoint(ce2, a)
      /\ RefEndpoint(ce2, a)[a].refs <= MaxRefs
      /\ peerPubkeys' = peerPubkeys
  BY DEF UpdatePeerAddr
<1>2. Typed(ce, cp) /\ Covered(ce, cp) /\ Paired(cp)
  BY CleanTables
<1> HIDE DEF cp, ce
<1>3. Typed(ce2, rest) /\ Covered(ce2, rest)
  BY <1>1, <1>2, ReleaseKeepsTables
<1>4. p \in Peer /\ p.addr = a
  BY <1>1, <1>2 DEF Typed, Peer
<1>5. peers' = Put(rest, i, p)
  BY <1>1, <1>2 DEF Put, Restrict, Typed
<1>6. i \notin DOMAIN rest
  BY DEF Restrict
<1>7. Paired(peers')
  BY <1>1, <1>2 DEF Paired, Typed, Peer
<1> HIDE DEF rest, ce2, p
<1>8. Typed(endpoints', peers') /\ Covered(endpoints', peers')
  <2>1. RefEndpoint(ce2, p.addr)[p.addr].refs <= MaxRefs
    BY <1>1, <1>4
  <2>2. /\ Typed(RefEndpoint(ce2, p.addr), Put(rest, i, p))
        /\ Covered(RefEndpoint(ce2, p.addr), Put(rest, i, p))
    BY <1>3, <1>4, <1>6, <2>1, RefKeepsTables
  <2> QED
    BY <1>1, <1>4, <1>5, <2>2
<1> QED
  BY <1>1, <1>7, <1>8, CleanTables, InvariantPartsNext

\* A linked peer keeps its address.
LEMMA LinkedToType ==
  ASSUME NEW p \in Peer, NEW c \in Index
  PROVE  /\ LinkedTo(p, c) \in Peer
         /\ LinkedTo(p, c).addr = p.addr
         /\ LinkedTo(p, c).established
         /\ LinkedTo(p, c).counterpart = c
         /\ LinkedTo(p, c).ttl = SessionTTL
<1>1. SessionTTL \in Past .. SessionTTL
  BY TTLAssumption DEF Past
<1> QED
  BY <1>1 DEF LinkedTo, Peer

\* Both ends were single: no third peer named either of them.
LEMMA AssociatePeersKeeps ==
  ASSUME IInv, NEW s \in Index, NEW r \in Index, AssociatePeers(s, r)
  PROVE  IInv'
<1> DEFINE cp == CleanedPeers
           ce == CleanedEndpoints
<1>1. /\ s \in DOMAIN cp /\ r \in DOMAIN cp
      /\ ~cp[s].established /\ ~cp[r].established
      /\ peers' = [cp EXCEPT ![s] = LinkedTo(@, r), ![r] = LinkedTo(@, s)]
      /\ endpoints' = ce
      /\ peerPubkeys' = peerPubkeys
  BY DEF AssociatePeers, Associable
<1>2. Typed(ce, cp) /\ Covered(ce, cp) /\ Paired(cp)
  BY CleanTables
<1> HIDE DEF cp, ce
<1>3. DOMAIN peers' = DOMAIN cp /\ peers' \in [DOMAIN cp -> Peer]
  <2>1. cp \in [DOMAIN cp -> Peer]
    BY <1>2 DEF Typed
  <2>2. LinkedTo(cp[s], r) \in Peer
    BY <1>1, <2>1, LinkedToType
  <2>3. [cp EXCEPT ![s] = LinkedTo(@, r)] \in [DOMAIN cp -> Peer]
    BY <1>1, <2>1, <2>2
  <2>4. LinkedTo([cp EXCEPT ![s] = LinkedTo(@, r)][r], s) \in Peer
    BY <1>1, <2>3, LinkedToType
  <2> QED
    BY <1>1, <2>1, <2>3, <2>4
<1>4. \A i \in DOMAIN cp : peers'[i].addr = cp[i].addr
  BY <1>1, <1>2 DEF LinkedTo, Typed, Peer
<1>5. Typed(endpoints', peers')
  BY <1>1, <1>2, <1>3 DEF Typed
<1>6. Covered(endpoints', peers')
  <2>1. \A a : Users(peers', a) = Users(cp, a)
    BY <1>3, <1>4 DEF Users
  <2> QED
    BY <1>1, <1>2, <1>3, <1>4, <2>1 DEF Covered
<1>7. Paired(peers')
  <2>1. /\ peers'[s].established /\ peers'[s].counterpart = r /\ peers'[s].ttl = SessionTTL
        /\ peers'[r].established /\ peers'[r].counterpart = s /\ peers'[r].ttl = SessionTTL
    BY <1>1, <1>2 DEF LinkedTo, Typed, Peer
  <2>2. \A i \in DOMAIN cp \ {s, r} : peers'[i] = cp[i]
    BY <1>1, <1>2 DEF Typed
  <2>3. \A i \in DOMAIN cp \ {s, r} : cp[i].established => cp[i].counterpart \notin {s, r}
    BY <1>1, <1>2 DEF Paired
  <2> QED
    BY <1>1, <1>2, <1>3, <2>1, <2>2, <2>3 DEF Paired
<1> QED
  BY <1>1, <1>5, <1>6, <1>7, CleanTables, InvariantPartsNext

\* Fewer peers need no more references; an evicted peer takes its
\* counterpart along, so no end of a session is left alone.
LEMMA EvictSessionsKeeps ==
  ASSUME IInv, NEW allowed \in SUBSET Key, EvictSessionsByRemovedKeys(allowed)
  PROVE  IInv'
<1> DEFINE gone == EvictedPeers(allowed)
<1>1. /\ peers' = Restrict(peers, DOMAIN peers \ gone)
      /\ peerPubkeys' = Restrict(peerPubkeys, DOMAIN peerPubkeys \ gone)
      /\ endpoints' = endpoints
  BY DEF EvictSessionsByRemovedKeys
<1>2. /\ Typed(endpoints, peers) /\ Covered(endpoints, peers)
      /\ Paired(peers) /\ KeysTyped(peerPubkeys)
  BY InvariantParts
<1>3. \A i \in DOMAIN peers :
        peers[i].established /\ peers[i].counterpart \in gone => i \in gone
  BY <1>2 DEF EvictedPeers, RevokedPeers, Paired
<1> HIDE DEF gone
<1>4. Paired(peers')
  BY <1>1, <1>2, <1>3 DEF Paired, Restrict
<1>5. Typed(endpoints', peers') /\ KeysTyped(peerPubkeys')
  BY <1>1, <1>2 DEF Typed, KeysTyped, Restrict
<1>6. Covered(endpoints', peers')
  <2>1. ASSUME NEW a \in DOMAIN endpoints
        PROVE  endpoints[a].refs >= Cardinality(Users(peers', a))
    <3>1. Users(peers', a) \in SUBSET Users(peers, a)
      BY <1>1 DEF Users, Restrict
    <3>2. /\ IsFiniteSet(Users(peers, a)) /\ Cardinality(Users(peers, a)) \in Nat
          /\ Cardinality(Users(peers', a)) \in Nat
      BY <1>2, <1>5, UsersFinite DEF Typed
    <3>3. Cardinality(Users(peers', a)) <= Cardinality(Users(peers, a))
      BY <3>1, <3>2, FS_Subset
    <3>4. endpoints[a].refs >= Cardinality(Users(peers, a)) /\ endpoints[a].refs \in Nat
      BY <1>2, BoundAssumption DEF Covered, Typed, Endpoint
    <3> QED
      BY <3>2, <3>3, <3>4
  <2> QED
    BY <1>1, <1>2, <2>1 DEF Covered, Restrict
<1> QED
  BY <1>4, <1>5, <1>6, InvariantPartsNext

\* Time moves both ends of a session alike and changes no count.
LEMMA TickKeeps == ASSUME IInv, Tick PROVE IInv'
<1>1. /\ peers' = [i \in DOMAIN peers |-> [peers[i] EXCEPT !.ttl = Elapse(@)]]
      /\ endpoints' = [a \in DOMAIN endpoints |-> [endpoints[a] EXCEPT !.ttl = Elapse(@)]]
      /\ peerPubkeys' = peerPubkeys
  BY DEF Tick
<1>2. /\ Typed(endpoints, peers) /\ Covered(endpoints, peers)
      /\ Paired(peers) /\ KeysTyped(peerPubkeys)
  BY InvariantParts
<1>3. \A n \in Int : \A t \in Past .. n : n >= -1 => Elapse(t) \in Past .. n
  BY DEF Elapse, Past
<1>4. Typed(endpoints', peers')
  <2>1. ASSUME NEW a \in DOMAIN endpoints
        PROVE  [endpoints[a] EXCEPT !.ttl = Elapse(@)] \in Endpoint
    BY <1>2, <1>3, TTLAssumption DEF Typed, Endpoint, Past
  <2>2. ASSUME NEW i \in DOMAIN peers
        PROVE  [peers[i] EXCEPT !.ttl = Elapse(@)] \in Peer
    BY <1>2, <1>3, TTLAssumption DEF Typed, Peer, Past
  <2> QED
    BY <1>1, <1>2, <2>1, <2>2 DEF Typed
<1>5. Covered(endpoints', peers')
  <2>1. \A a : Users(peers', a) = Users(peers, a)
    BY <1>1, <1>2 DEF Users, Typed, Peer
  <2>2. \A a \in DOMAIN endpoints : endpoints'[a].refs = endpoints[a].refs
    BY <1>1, <1>2 DEF Typed, Endpoint
  <2>3. \A i \in DOMAIN peers : peers'[i].addr = peers[i].addr
    BY <1>1, <1>2 DEF Typed, Peer
  <2> QED
    BY <1>1, <1>2, <2>1, <2>2, <2>3 DEF Covered
<1>6. Paired(peers')
  <2>1. \A i \in DOMAIN peers :
          /\ peers'[i].established = peers[i].established
          /\ peers'[i].counterpart = peers[i].counterpart
          /\ peers'[i].ttl = Elapse(peers[i].ttl)
    BY <1>1, <1>2 DEF Typed, Peer
  <2>2. DOMAIN peers' = DOMAIN peers
    BY <1>1
  <2> QED
    BY <1>2, <2>1, <2>2 DEF Paired
<1> QED
  BY <1>1, <1>2, <1>4, <1>5, <1>6, InvariantPartsNext

\* The empty tables.
LEMMA EmptyTables ==
  ASSUME NEW eps, NEW ps, NEW keys,
         eps = [a \in {} |-> a], ps = [i \in {} |-> i], keys = [i \in {} |-> i]
  PROVE  Typed(eps, ps) /\ Covered(eps, ps) /\ Paired(ps) /\ KeysTyped(keys)
BY DEF Typed, Covered, Paired, KeysTyped

\* Every step keeps the invariant.
LEMMA NextKeeps == IInv /\ [Next]_vars => IInv'
<1> SUFFICES ASSUME IInv, [Next]_vars PROVE IInv'
  OBVIOUS
<1>1. ASSUME NEW i \in Index, NEW a \in Addr, AddPeerAddr(i, a) PROVE IInv'
  BY <1>1, AddPeerAddrKeeps
<1>2. ASSUME NEW i \in Index, NEW a \in Addr, UpdatePeerAddr(i, a) PROVE IInv'
  BY <1>2, UpdatePeerAddrKeeps
<1>3. ASSUME NEW i \in Index, AddPeerAddrFails(i) \/ UpdatePeerAddrFails(i) PROVE IInv'
  BY <1>3, CleanupOnlyKeeps DEF AddPeerAddrFails, UpdatePeerAddrFails
<1>4. ASSUME NEW s \in Index, NEW r \in Index, AssociatePeers(s, r) PROVE IInv'
  BY <1>4, AssociatePeersKeeps
<1>5. ASSUME NEW s \in Index, NEW r \in Index,
             AssociatePeersAgain(s, r) \/ AssociatePeersFails(s, r)
      PROVE  IInv'
  BY <1>5, CleanupOnlyKeeps DEF AssociatePeersAgain, AssociatePeersFails
<1>6. ASSUME NEW i \in Index, NEW k \in Key, SetPeerPubkey(i, k) PROVE IInv'
  <2>1. KeysTyped(peerPubkeys')
    BY <1>6, InvariantParts DEF SetPeerPubkey, Put, KeysTyped
  <2> QED
    BY <1>6, <2>1, InvariantParts, InvariantPartsNext DEF SetPeerPubkey
<1>7. ASSUME NEW allowed \in SUBSET Key, EvictSessionsByRemovedKeys(allowed) PROVE IInv'
  BY <1>7, EvictSessionsKeeps
<1>8. CASE EvictAllSessions
  BY <1>8, EmptyTables, InvariantPartsNext DEF EvictAllSessions
<1>9. CASE Tick
  BY <1>9, TickKeeps
<1>10. CASE UNCHANGED vars
  BY <1>10, InvariantParts, InvariantPartsNext DEF vars
<1> QED
  BY <1>1, <1>2, <1>3, <1>4, <1>5, <1>6, <1>7, <1>8, <1>9, <1>10 DEF Next

\* The invariant holds in every reachable state.
THEOREM Invariance == Spec => []IInv
<1>1. Init => IInv
  BY EmptyTables, InvariantParts DEF Init
<1> QED
  BY <1>1, NextKeeps, PTL DEF Spec

-----------------------------------------------------------------------------
(* What the readers of the table rely on *)

\* The tables always have their types: in particular no reference count
\* becomes negative.
THEOREM TypeCorrect == Spec => []TypeOK
<1>1. IInv => TypeOK
  BY DEF IInv
<1> QED
  BY <1>1, Invariance, PTL

\* Sessions always have two ends that name each other and expire together.
THEOREM SessionsPaired == Spec => []PairingSymmetric
<1>1. IInv => PairingSymmetric
  BY DEF IInv
<1> QED
  BY <1>1, Invariance, PTL

\* Every peer's endpoint is in the map and counted for each of its users.
THEOREM ReferencesCover == Spec => []RefsCoverPeers
<1>1. IInv => RefsCoverPeers
  BY DEF IInv, Covered, Users, UsersOf, RefsCoverPeers
<1> QED
  BY <1>1, Invariance, PTL

\* An index that can be looked up is reachable, with its counterpart.
THEOREM Routable == Spec => []LivePeersRoutable
<1>1. IInv => LivePeersRoutable
  <2> SUFFICES ASSUME IInv, NEW i \in Index, HasPeerAddr(i)
               PROVE  /\ Contains(GetPeerAddr(i))
                      /\ \A x \in Addr \ {GetPeerAddr(i)} : GetPeerAddr(i) \in ListAddrs(x)
                      /\ HasCounterpart(i) => HasPeerAddr(GetPeerCounterpart(i))
    BY DEF LivePeersRoutable
  <2> DEFINE a == peers[i].addr
  <2>1. i \in DOMAIN peers
    BY DEF HasPeerAddr, LivePeers
  <2>2. Typed(endpoints, peers) /\ Covered(endpoints, peers) /\ Paired(peers)
    BY InvariantParts
  <2>3. a \in DOMAIN endpoints /\ endpoints[a].refs >= Cardinality(Users(peers, a))
    BY <2>1, <2>2 DEF Covered
  <2>4. Cardinality(Users(peers, a)) >= 1 /\ Cardinality(Users(peers, a)) \in Nat
    BY <2>1, <2>2, UsedIsPositive, UsersFinite DEF Typed
  <2>5. endpoints[a].refs \in Nat
    BY <2>2, <2>3, BoundAssumption DEF Typed, Endpoint
  <2>6. ~EndpointExpired(endpoints[a])
    BY <2>3, <2>4, <2>5 DEF EndpointExpired
  <2>7. HasCounterpart(i) => HasPeerAddr(GetPeerCounterpart(i))
    BY <2>2 DEF HasCounterpart, HasPeerAddr, GetPeerCounterpart, Paired, LivePeers, PeerExpired
  <2> QED
    BY <2>3, <2>6, <2>7 DEF Contains, ListAddrs, GetPeerAddr
<1> QED
  BY <1>1, Invariance, PTL

-----------------------------------------------------------------------------
(* What a step may do to a session *)

\* The consequence SessionStable draws for one end of a session.
Untouched(i) ==
  /\ i \in DOMAIN peers'
  /\ peers'[i].established
  /\ peers'[i].counterpart = peers[i].counterpart
  /\ peers'[i].ttl \in {peers[i].ttl, peers[i].ttl - 1}

Evicted(i) ==
  {i, peers[i].counterpart} \cap (DOMAIN peers' \cup DOMAIN peerPubkeys') = {}

\* cleanup() leaves an unexpired peer as it is.
LEMMA CleanupKeepsLive ==
  ASSUME IInv, NEW i \in LivePeers
  PROVE  /\ i \in DOMAIN CleanedPeers
         /\ CleanedPeers[i] = peers[i]
         /\ peers[i] \in Peer
         /\ peers[i].ttl \in Int
BY DEF CleanedPeers, Restrict, LivePeers, IInv, TypeOK, Peer, Past

\* Each step keeps a running session, or evicts both its ends.
LEMMA StepStable ==
  ASSUME IInv, [Next]_vars, NEW i \in LivePeers, peers[i].established
  PROVE  Untouched(i) \/ Evicted(i)
<1>1. /\ i \in DOMAIN CleanedPeers
      /\ CleanedPeers[i] = peers[i]
      /\ peers[i] \in Peer
      /\ peers[i].ttl \in Int
  BY CleanupKeepsLive
<1>2. Typed(CleanedEndpoints, CleanedPeers)
  BY CleanTables
<1>3. ASSUME CleanupOnly PROVE Untouched(i)
  BY <1>1, <1>3 DEF CleanupOnly, Untouched
<1>4. ASSUME NEW j \in Index, NEW a \in Addr, AddPeerAddr(j, a) PROVE Untouched(i)
  BY <1>1, <1>4 DEF AddPeerAddr, Put, Untouched
<1>5. ASSUME NEW j \in Index, NEW a \in Addr, UpdatePeerAddr(j, a) PROVE Untouched(i)
  <2>1. peers' = [CleanedPeers EXCEPT ![j].addr = a]
    BY <1>5 DEF UpdatePeerAddr
  <2>2. /\ i \in DOMAIN peers'
        /\ peers'[i].established = peers[i].established
        /\ peers'[i].counterpart = peers[i].counterpart
        /\ peers'[i].ttl = peers[i].ttl
    BY <1>1, <1>2, <2>1 DEF Typed, Peer
  <2> QED
    BY <1>1, <2>2 DEF Untouched
<1>6. ASSUME NEW j \in Index, AddPeerAddrFails(j) \/ UpdatePeerAddrFails(j) PROVE Untouched(i)
  BY <1>3, <1>6 DEF AddPeerAddrFails, UpdatePeerAddrFails
<1>7. ASSUME NEW s \in Index, NEW r \in Index, AssociatePeers(s, r) PROVE Untouched(i)
  <2>1. i # s /\ i # r
    BY <1>1, <1>7 DEF AssociatePeers, Associable
  <2>2. i \in DOMAIN peers' /\ peers'[i] = peers[i]
    BY <1>1, <1>2, <1>7, <2>1 DEF AssociatePeers, Typed
  <2> QED
    BY <1>1, <2>2 DEF Untouched
<1>8. ASSUME NEW s \in Index, NEW r \in Index,
             AssociatePeersAgain(s, r) \/ AssociatePeersFails(s, r)
      PROVE  Untouched(i)
  BY <1>3, <1>8 DEF AssociatePeersAgain, AssociatePeersFails
<1>9. ASSUME peers' = peers PROVE Untouched(i)
  BY <1>1, <1>9 DEF Untouched, LivePeers
<1>10. ASSUME NEW allowed \in SUBSET Key, EvictSessionsByRemovedKeys(allowed)
       PROVE  Untouched(i) \/ Evicted(i)
  <2>1. i \in DOMAIN peers
    BY DEF LivePeers
  <2>2. Paired(peers)
    BY InvariantParts
  <2>3. i \in EvictedPeers(allowed) <=> peers[i].counterpart \in EvictedPeers(allowed)
    BY <2>1, <2>2 DEF Paired, EvictedPeers, RevokedPeers
  <2>4. CASE i \in EvictedPeers(allowed)
    BY <1>10, <2>3, <2>4 DEF EvictSessionsByRemovedKeys, Restrict, Evicted
  <2>5. CASE i \notin EvictedPeers(allowed)
    BY <1>1, <1>10, <2>1, <2>5 DEF EvictSessionsByRemovedKeys, Restrict, Untouched
  <2> QED
    BY <2>4, <2>5
<1>11. CASE EvictAllSessions
  BY <1>11 DEF EvictAllSessions, Evicted
<1>12. CASE Tick
  <2>1. /\ i \in DOMAIN peers'
        /\ peers'[i] = [peers[i] EXCEPT !.ttl = Elapse(@)]
    BY <1>12 DEF Tick, LivePeers
  <2>2. /\ peers'[i].established = peers[i].established
        /\ peers'[i].counterpart = peers[i].counterpart
        /\ peers'[i].ttl = Elapse(peers[i].ttl)
    BY <1>1, <2>1 DEF Peer
  <2>3. Elapse(peers[i].ttl) = peers[i].ttl - 1
    BY DEF Elapse, LivePeers, PeerExpired
  <2> QED
    BY <1>1, <2>1, <2>2, <2>3 DEF Untouched
<1>13. CASE UNCHANGED vars
  BY <1>9, <1>13 DEF vars
<1> QED
  BY <1>4, <1>5, <1>6, <1>7, <1>8, <1>9, <1>10, <1>11, <1>12, <1>13
     DEF Next, SetPeerPubkey

\* Running sessions are never rebound, shortened or extended.
THEOREM SessionsStable == Spec => SessionStable
<1>1. IInv /\ [Next]_vars =>
        [\A i \in LivePeers : peers[i].established =>
           LET both == {i, peers[i].counterpart} IN
           \/ /\ i \in DOMAIN peers'
              /\ peers'[i].established
              /\ peers'[i].counterpart = peers[i].counterpart
              /\ peers'[i].ttl \in {peers[i].ttl, peers[i].ttl - 1}
           \/ both \cap (DOMAIN peers' \cup DOMAIN peerPubkeys') = {}]_vars
  BY StepStable DEF Untouched, Evicted
<1> QED
  BY <1>1, Invariance, PTL DEF Spec, SessionStable

-----------------------------------------------------------------------------
(* How long an entry may live *)

\* No step gives an entry that stays found more time than it could have had.
LEMMA StepRunsOut ==
  ASSUME IInv, [Next]_vars, NEW i \in LivePeers, i \in LivePeers'
  PROVE  Left(i)' <= Left(i) /\ (Tick => Left(i)' < Left(i))
<1>1. /\ i \in DOMAIN CleanedPeers
      /\ CleanedPeers[i] = peers[i]
      /\ peers[i] \in Peer
      /\ peers[i].ttl \in Int /\ peers[i].ttl >= 0
      /\ peers[i].established \in BOOLEAN
  BY CleanupKeepsLive DEF LivePeers, PeerExpired, Peer
<1>2. Typed(CleanedEndpoints, CleanedPeers) /\ SessionTTL \in Nat
  BY CleanTables, TTLAssumption
<1>3. Left(i) \in Int
  BY <1>1, <1>2 DEF Left
<1>4. ASSUME peers'[i].established = peers[i].established, peers'[i].ttl = peers[i].ttl
      PROVE  Left(i)' = Left(i)
  BY <1>4 DEF Left
<1>5. ASSUME peers'[i] = peers[i] PROVE Left(i)' = Left(i)
  BY <1>4, <1>5
<1>6. ASSUME CleanupOnly PROVE Left(i)' = Left(i)
  BY <1>1, <1>5, <1>6 DEF CleanupOnly
<1>7. ASSUME NEW j \in Index, NEW a \in Addr, AddPeerAddr(j, a) PROVE Left(i)' = Left(i)
  BY <1>1, <1>5, <1>7 DEF AddPeerAddr, Put
<1>8. ASSUME NEW j \in Index, NEW a \in Addr, UpdatePeerAddr(j, a) PROVE Left(i)' = Left(i)
  <2>1. peers' = [CleanedPeers EXCEPT ![j].addr = a]
    BY <1>8 DEF UpdatePeerAddr
  <2>2. /\ peers'[i].established = peers[i].established
        /\ peers'[i].ttl = peers[i].ttl
    BY <1>1, <1>2, <2>1 DEF Typed, Peer
  <2> QED
    BY <1>4, <2>2
<1>9. ASSUME NEW s \in Index, NEW r \in Index, AssociatePeers(s, r)
      PROVE  Left(i)' <= Left(i)
  <2>1. CASE i \notin {s, r}
    <3>1. peers'[i] = peers[i]
      BY <1>1, <1>2, <1>9, <2>1 DEF AssociatePeers, Typed
    <3> QED
      BY <1>3, <1>5, <3>1
  <2>2. CASE i \in {s, r}
    <3>1. ~peers[i].established
      BY <1>1, <1>9, <2>2 DEF AssociatePeers, Associable
    <3>2. \E p, c : peers'[i] = LinkedTo(p, c)
      BY <1>1, <1>2, <1>9, <2>2 DEF AssociatePeers, Typed
    <3>3. peers'[i].established /\ peers'[i].ttl = SessionTTL
      BY <3>2 DEF LinkedTo
    <3> QED
      BY <1>1, <1>2, <3>1, <3>3 DEF Left
  <2> QED
    BY <2>1, <2>2
<1>10. ASSUME NEW allowed \in SUBSET Key, EvictSessionsByRemovedKeys(allowed)
       PROVE  Left(i)' = Left(i)
  <2>1. peers' = Restrict(peers, DOMAIN peers \ EvictedPeers(allowed))
    BY <1>10 DEF EvictSessionsByRemovedKeys
  <2>2. i \in DOMAIN peers'
    BY DEF LivePeers
  <2> QED
    BY <1>5, <2>1, <2>2 DEF Restrict
<1>11. CASE Tick
  <2>1. peers'[i] = [peers[i] EXCEPT !.ttl = Elapse(@)]
    BY <1>11 DEF Tick, LivePeers
  <2>2. /\ peers'[i].established = peers[i].established
        /\ peers'[i].ttl = peers[i].ttl - 1
    BY <1>1, <2>1 DEF Peer, Elapse
  <2> QED
    BY <1>1, <1>2, <2>2 DEF Left
<1>12. ~EvictAllSessions
  BY DEF EvictAllSessions, LivePeers
<1>13. Left(i)' <= Left(i)
  BY <1>3, <1>5, <1>6, <1>7, <1>8, <1>9, <1>10, <1>11, <1>12
     DEF Next, AddPeerAddrFails, UpdatePeerAddrFails, AssociatePeersAgain,
         AssociatePeersFails, SetPeerPubkey, vars
<1> QED
  BY <1>11, <1>13

\* An entry that stays found has less time with every unit that passes, and
\* no call gives any of it back: that an entry expires at last needs beyond
\* this only that time passes.
THEOREM LifetimesShrink == Spec => EntriesRunOut
<1>1. IInv /\ [Next]_vars =>
        [\A i \in LivePeers : i \in LivePeers' =>
           Left(i)' <= Left(i) /\ (Tick => Left(i)' < Left(i))]_vars
  BY StepRunsOut
<1> QED
  BY <1>1, Invariance, PTL DEF Spec, EntriesRunOut

-----------------------------------------------------------------------------
(* Lost references *)

\* Leaked, of any pair of tables.
Surplus(eps, ps, a) ==
  IF a \in DOMAIN eps THEN eps[a].refs - Cardinality(Users(ps, a)) ELSE 0

\* Leaked is the surplus of the tables, before a step and after it.
LEMMA LeakedIsSurplus ==
  ASSUME NEW a
  PROVE  /\ Leaked(a) = Surplus(endpoints, peers, a)
         /\ Leaked(a)' = Surplus(endpoints', peers', a)
BY DEF Leaked, Surplus, UsersOf, Users

\* cleanup() releases as many references as it removes users, and drops an
\* endpoint only when neither is left.
LEMMA CleanupKeepsSurplus ==
  ASSUME Typed(endpoints, peers), Covered(endpoints, peers), NEW a
  PROVE  Surplus(CleanedEndpoints, CleanedPeers, a) = Surplus(endpoints, peers, a)
<1>1. DOMAIN Released = DOMAIN endpoints
  BY DEF Released
<1>2. DOMAIN CleanedEndpoints = {b \in DOMAIN endpoints : ~EndpointExpired(Released[b])}
  BY <1>1 DEF CleanedEndpoints, Restrict
<1>3. CASE a \notin DOMAIN endpoints
  BY <1>2, <1>3 DEF Surplus
<1>4. CASE a \in DOMAIN endpoints
  <2> DEFINE expired == Cardinality(ExpiredUsersOf(a))
             users   == Cardinality(Users(peers, a))
             stay    == Cardinality(Users(CleanedPeers, a))
  <2>1. expired \in Nat /\ users = expired + stay
    BY CleanedUsers DEF Typed
  <2>2. stay \in Nat
    BY CleanupTyped, UsersFinite DEF Typed
  <2>3. endpoints[a] \in Endpoint /\ endpoints[a].refs \in Nat /\ endpoints[a].refs >= users
    BY <1>4, BoundAssumption DEF Typed, Covered, Endpoint
  <2>4. endpoints[a].refs >= expired
    BY <2>1, <2>2, <2>3
  <2>5. Released[a] = Deref(endpoints[a], expired)
    BY <1>4 DEF Released
  <2>6. Released[a].refs = endpoints[a].refs - expired
    BY <2>1, <2>3, <2>4, <2>5, DerefType
  <2> HIDE DEF expired, users, stay
  <2>7. Surplus(endpoints, peers, a) = endpoints[a].refs - users
    BY <1>4 DEF Surplus, users
  <2>8. CASE a \in DOMAIN CleanedEndpoints
    <3>1. CleanedEndpoints[a] = Released[a]
      BY <2>8 DEF CleanedEndpoints, Restrict
    <3>2. Surplus(CleanedEndpoints, CleanedPeers, a) = Released[a].refs - stay
      BY <2>8, <3>1 DEF Surplus, stay
    <3> QED
      BY <2>1, <2>2, <2>3, <2>6, <2>7, <3>2
  <2>9. CASE a \notin DOMAIN CleanedEndpoints
    <3>1. Released[a].refs <= 0
      BY <1>2, <1>4, <2>9 DEF EndpointExpired
    <3>2. Surplus(CleanedEndpoints, CleanedPeers, a) = 0
      BY <2>9 DEF Surplus
    <3> QED
      BY <2>1, <2>2, <2>3, <2>6, <2>7, <3>1, <3>2
  <2> QED
    BY <2>8, <2>9
<1> QED
  BY <1>3, <1>4

\* A new peer brings one reference to its endpoint.
LEMMA RefKeepsSurplus ==
  ASSUME NEW eps, NEW ps, Typed(eps, ps), Covered(eps, ps),
         NEW i \in Index, i \notin DOMAIN ps, NEW p \in Peer, NEW b
  PROVE  Surplus(RefEndpoint(eps, p.addr), Put(ps, i, p), b) = Surplus(eps, ps, b)
<1> DEFINE a    == p.addr
           eps2 == RefEndpoint(eps, a)
           ps2  == Put(ps, i, p)
<1>1. DOMAIN ps2 = DOMAIN ps \cup {i} /\ ps2[i] = p /\ \A j \in DOMAIN ps : ps2[j] = ps[j]
  BY DEF Put
<1>2. DOMAIN eps2 = DOMAIN eps \cup {a}
  BY DEF RefEndpoint, Put
<1>3. CASE b # a
  <2>1. Users(ps2, b) = Users(ps, b)
    BY <1>1, <1>3 DEF Users
  <2>2. b \in DOMAIN eps => eps2[b] = eps[b]
    BY <1>3 DEF RefEndpoint, Put
  <2> QED
    BY <1>2, <1>3, <2>1, <2>2 DEF Surplus
<1>4. CASE b = a
  <2>1. Users(ps2, a) = Users(ps, a) \cup {i} /\ i \notin Users(ps, a)
    BY <1>1 DEF Users
  <2>2. Cardinality(Users(ps, a)) \in Nat /\ IsFiniteSet(Users(ps, a))
    BY UsersFinite DEF Typed
  <2>3. Cardinality(Users(ps2, a)) = Cardinality(Users(ps, a)) + 1
    BY <2>1, <2>2, FS_AddElement
  <2>4. Surplus(eps2, ps2, a) = eps2[a].refs - Cardinality(Users(ps2, a))
    BY <1>2 DEF Surplus
  <2>5. CASE a \in DOMAIN eps
    <3>1. eps2[a] = [eps[a] EXCEPT !.refs = @ + 1]
      BY <2>5 DEF RefEndpoint, Put
    <3>2. eps[a] \in Endpoint /\ eps[a].refs \in Nat
      BY <2>5, BoundAssumption DEF Typed, Endpoint
    <3>3. eps2[a].refs = eps[a].refs + 1
      BY <3>1, <3>2 DEF Endpoint
    <3> QED
      BY <1>4, <2>2, <2>3, <2>4, <2>5, <3>2, <3>3 DEF Surplus
  <2>6. CASE a \notin DOMAIN eps
    <3>1. eps2[a].refs = 1
      BY <2>6 DEF RefEndpoint, Put
    <3>2. Users(ps, a) = {}
      BY <2>6 DEF Users, Covered
    <3>3. Cardinality(Users(ps2, a)) = 1
      BY <3>2, <2>3, FS_EmptySet
    <3> QED
      BY <1>4, <2>4, <2>6, <3>1, <3>3 DEF Surplus
  <2> QED
    BY <2>5, <2>6
<1> QED
  BY <1>3, <1>4

\* A peer that leaves takes one reference along.
LEMMA ReleaseKeepsSurplus ==
  ASSUME NEW eps, NEW ps, Typed(eps, ps), Covered(eps, ps), NEW i \in DOMAIN ps, NEW b
  PROVE  Surplus([eps EXCEPT ![ps[i].addr] = Deref(@, 1)], Restrict(ps, DOMAIN ps \ {i}), b)
           = Surplus(eps, ps, b)
<1> DEFINE a    == ps[i].addr
           eps2 == [eps EXCEPT ![a] = Deref(@, 1)]
           ps2  == Restrict(ps, DOMAIN ps \ {i})
<1>1. DOMAIN ps2 = DOMAIN ps \ {i} /\ \A j \in DOMAIN ps2 : ps2[j] = ps[j]
  BY DEF Restrict
<1>2. a \in DOMAIN eps
  BY DEF Covered
<1>3. /\ DOMAIN eps2 = DOMAIN eps
      /\ eps2[a] = Deref(eps[a], 1)
      /\ \A c \in DOMAIN eps : c # a => eps2[c] = eps[c]
  BY <1>2 DEF Typed
<1>4. CASE b # a
  <2>1. Users(ps2, b) = Users(ps, b)
    BY <1>1, <1>4 DEF Users
  <2> QED
    BY <1>3, <1>4, <2>1 DEF Surplus
<1>5. CASE b = a
  <2>1. Users(ps2, a) = Users(ps, a) \ {i} /\ i \in Users(ps, a)
    BY <1>1 DEF Users
  <2>2. Cardinality(Users(ps, a)) \in Nat /\ IsFiniteSet(Users(ps, a))
    BY UsersFinite DEF Typed
  <2>3. Cardinality(Users(ps2, a)) = Cardinality(Users(ps, a)) - 1
    BY <2>1, <2>2, FS_RemoveElement
  <2>4. Cardinality(Users(ps, a)) >= 1
    BY UsedIsPositive DEF Typed
  <2>5. eps[a] \in Endpoint /\ eps[a].refs \in Nat /\ eps[a].refs >= 1
    BY <1>2, <2>2, <2>4, BoundAssumption DEF Typed, Covered, Endpoint
  <2>6. eps2[a].refs = eps[a].refs - 1
    BY <1>3, <2>5, DerefType
  <2>7. /\ Surplus(eps2, ps2, a) = eps2[a].refs - Cardinality(Users(ps2, a))
        /\ Surplus(eps, ps, a) = eps[a].refs - Cardinality(Users(ps, a))
    BY <1>2, <1>3 DEF Surplus
  <2> HIDE DEF eps2, ps2, a
  <2>8. Surplus(eps2, ps2, a) = Surplus(eps, ps, a)
    BY <2>2, <2>3, <2>5, <2>6, <2>7
  <2> QED
    BY <1>5, <2>8 DEF eps2, ps2, a
<1> QED
  BY <1>4, <1>5

\* A roaming peer takes its reference along.
LEMMA UpdateKeepsSurplus ==
  ASSUME IInv, NEW i \in Index, NEW a \in Addr, UpdatePeerAddr(i, a), NEW b
  PROVE  Surplus(endpoints', peers', b) = Surplus(CleanedEndpoints, CleanedPeers, b)
<1> DEFINE cp   == CleanedPeers
           ce   == CleanedEndpoints
           p    == [cp[i] EXCEPT !.addr = a]
           ce2  == [ce EXCEPT ![cp[i].addr] = Deref(@, 1)]
           rest == Restrict(cp, DOMAIN cp \ {i})
<1>1. /\ i \in DOMAIN cp
      /\ peers' = [cp EXCEPT ![i].addr = a]
      /\ endpoints' = RefEndpoint(ce2, a)
  BY DEF UpdatePeerAddr
<1>2. Typed(ce, cp) /\ Covered(ce, cp)
  BY CleanTables
<1> HIDE DEF cp, ce
<1>3. /\ Typed(ce2, rest) /\ Covered(ce2, rest)
      /\ Surplus(ce2, rest, b) = Surplus(ce, cp, b)
  BY <1>1, <1>2, ReleaseKeepsTables, ReleaseKeepsSurplus
<1>4. p \in Peer /\ p.addr = a
  BY <1>1, <1>2 DEF Typed, Peer
<1>5. peers' = Put(rest, i, p)
  BY <1>1, <1>2 DEF Put, Restrict, Typed
<1>6. i \notin DOMAIN rest
  BY DEF Restrict
<1> HIDE DEF rest, ce2, p
<1>7. Surplus(RefEndpoint(ce2, p.addr), Put(rest, i, p), b) = Surplus(ce2, rest, b)
  BY <1>3, <1>4, <1>6, RefKeepsSurplus
<1> QED
  BY <1>1, <1>3, <1>4, <1>5, <1>7 DEF ce, cp

\* Every method but the two evictions, and time, keep what is lost as it is.
LEMMA StepLeaks ==
  ASSUME IInv, [Next]_vars,
         ~EvictAllSessions, ~\E allowed \in SUBSET Key : EvictSessionsByRemovedKeys(allowed),
         NEW b
  PROVE  Leaked(b)' = Leaked(b)
<1>1. /\ Typed(endpoints, peers) /\ Covered(endpoints, peers)
      /\ Typed(CleanedEndpoints, CleanedPeers) /\ Covered(CleanedEndpoints, CleanedPeers)
  BY InvariantParts, CleanTables
<1>2. Surplus(CleanedEndpoints, CleanedPeers, b) = Surplus(endpoints, peers, b)
  BY <1>1, CleanupKeepsSurplus
<1> DEFINE Kept == Surplus(endpoints', peers', b) = Surplus(endpoints, peers, b)
<1>3. ASSUME CleanupOnly PROVE Kept
  BY <1>2, <1>3 DEF CleanupOnly
<1>4. ASSUME NEW i \in Index, NEW a \in Addr, AddPeerAddr(i, a) PROVE Kept
  <2> DEFINE p == [addr |-> a, established |-> FALSE,
                   counterpart |-> NoIndex, ttl |-> HandshakeTTL]
  <2>1. p \in Peer /\ p.addr = a
    BY TTLAssumption DEF Peer, Past
  <2>2. /\ peers' = Put(CleanedPeers, i, p)
        /\ endpoints' = RefEndpoint(CleanedEndpoints, a)
        /\ i \notin DOMAIN CleanedPeers
    BY <1>4 DEF AddPeerAddr
  <2> HIDE DEF p
  <2> QED
    BY <1>1, <1>2, <2>1, <2>2, RefKeepsSurplus
<1>5. ASSUME NEW i \in Index, NEW a \in Addr, UpdatePeerAddr(i, a) PROVE Kept
  BY <1>2, <1>5, UpdateKeepsSurplus
<1>6. ASSUME NEW s \in Index, NEW r \in Index, AssociatePeers(s, r) PROVE Kept
  <2>1. /\ DOMAIN peers' = DOMAIN CleanedPeers
        /\ endpoints' = CleanedEndpoints
        /\ \A i \in DOMAIN CleanedPeers : peers'[i].addr = CleanedPeers[i].addr
    BY <1>1, <1>6 DEF AssociatePeers, Associable, LinkedTo, Typed, Peer
  <2>2. Users(peers', b) = Users(CleanedPeers, b)
    BY <2>1 DEF Users
  <2>3. Surplus(endpoints', peers', b) = Surplus(CleanedEndpoints, CleanedPeers, b)
    BY <2>1, <2>2 DEF Surplus
  <2> QED
    BY <1>2, <2>3
<1>7. ASSUME Tick PROVE Kept
  <2>1. /\ DOMAIN peers' = DOMAIN peers /\ DOMAIN endpoints' = DOMAIN endpoints
        /\ \A a \in DOMAIN endpoints : endpoints'[a].refs = endpoints[a].refs
        /\ \A i \in DOMAIN peers : peers'[i].addr = peers[i].addr
    BY <1>1, <1>7 DEF Tick, Typed, Endpoint, Peer
  <2>2. Users(peers', b) = Users(peers, b)
    BY <2>1 DEF Users
  <2> QED
    BY <2>1, <2>2 DEF Surplus
<1>8. ASSUME UNCHANGED <<endpoints, peers>> PROVE Kept
  BY <1>8
<1>9. Kept
  <2> HIDE DEF Kept
  <2> QED
    BY <1>3, <1>4, <1>5, <1>6, <1>7, <1>8
       DEF Next, AddPeerAddrFails, UpdatePeerAddrFails, AssociatePeersAgain,
           AssociatePeersFails, SetPeerPubkey, vars
<1> QED
  BY <1>9, LeakedIsSurplus

\* References are lost in the eviction by removed keys and nowhere else.
THEOREM LeaksAreEvictions == Spec => EvictionAloneLeaks
<1>1. IInv /\ [Next]_vars =>
        [\/ \A a \in Addr : Leaked(a)' = Leaked(a)
         \/ \E allowed \in SUBSET Key : EvictSessionsByRemovedKeys(allowed)
         \/ EvictAllSessions]_vars
  BY StepLeaks
<1> QED
  BY <1>1, Invariance, PTL DEF Spec, EvictionAloneLeaks

-----------------------------------------------------------------------------
(* What a step may do to an endpoint *)

\* cleanup() drops only endpoints without users: one that loses its last
\* user in this very call has a fresh deadline.
LEMMA CleanupGrace ==
  ASSUME IInv, NEW a \in DOMAIN endpoints, a \notin DOMAIN CleanedEndpoints
  PROVE  UsersOf(a) = {}
<1> SUFFICES ASSUME UsersOf(a) # {} PROVE FALSE
  OBVIOUS
<1>1. /\ Typed(endpoints, peers) /\ Covered(endpoints, peers)
      /\ DOMAIN peers \subseteq Index
  BY InvariantParts DEF Typed
<1>2. UsersOf(a) = Users(peers, a)
  BY DEF UsersOf, Users
<1>3. Cardinality(Users(peers, a)) \in Nat /\ Cardinality(Users(peers, a)) # 0
  BY <1>1, <1>2, UsersFinite, FS_EmptySet
<1>4. endpoints[a] \in Endpoint /\ endpoints[a].refs \in Nat /\ endpoints[a].refs >= 1
  BY <1>1, <1>3, BoundAssumption DEF Typed, Endpoint, Covered
<1>5. Cardinality(ExpiredUsersOf(a)) \in Nat
  BY <1>1, CleanedUsers
<1>6. Released[a] = Deref(endpoints[a], Cardinality(ExpiredUsersOf(a)))
  BY DEF Released
<1>7. ~EndpointExpired(Released[a])
  <2>1. CASE endpoints[a].refs - Cardinality(ExpiredUsersOf(a)) <= 0
    <3>1. Released[a].ttl = EndpointTTL
      BY <1>4, <1>5, <1>6, <2>1 DEF Deref
    <3> QED
      BY <3>1, TTLAssumption DEF EndpointExpired
  <2>2. CASE endpoints[a].refs - Cardinality(ExpiredUsersOf(a)) > 0
    <3>1. Released[a].refs = endpoints[a].refs - Cardinality(ExpiredUsersOf(a))
      BY <1>4, <1>5, <1>6, <2>2 DEF Deref, Endpoint
    <3> QED
      BY <1>4, <1>5, <2>2, <3>1 DEF EndpointExpired
  <2> QED
    BY <1>4, <1>5, <2>1, <2>2
<1> QED
  BY <1>7 DEF CleanedEndpoints, Restrict, Released

\* An address leaves the broadcast set only when no peer uses it.
THEOREM EndpointsHaveGrace == Spec => EndpointGrace
<1> DEFINE Graceful ==
      \A a \in DOMAIN endpoints \ DOMAIN endpoints' :
        \/ UsersOf(a) = {}
        \/ DOMAIN endpoints' = {} /\ DOMAIN peerPubkeys' = {}
<1>1. ASSUME IInv, DOMAIN CleanedEndpoints \subseteq DOMAIN endpoints' PROVE Graceful
  BY <1>1, CleanupGrace
<1>2. ASSUME IInv, [Next]_vars PROVE Graceful
  <2>1. ASSUME NEW i \in Index, NEW a \in Addr, AddPeerAddr(i, a) PROVE Graceful
    BY <1>1, <1>2, <2>1 DEF AddPeerAddr, RefEndpoint, Put
  <2>2. ASSUME NEW i \in Index, NEW a \in Addr, UpdatePeerAddr(i, a) PROVE Graceful
    BY <1>1, <1>2, <2>2 DEF UpdatePeerAddr, RefEndpoint, Put
  <2>3. ASSUME NEW i \in Index, AddPeerAddrFails(i) \/ UpdatePeerAddrFails(i) PROVE Graceful
    BY <1>1, <1>2, <2>3 DEF AddPeerAddrFails, UpdatePeerAddrFails, CleanupOnly
  <2>4. ASSUME NEW s \in Index, NEW r \in Index,
               \/ AssociatePeers(s, r)
               \/ AssociatePeersAgain(s, r)
               \/ AssociatePeersFails(s, r)
        PROVE  Graceful
    BY <1>1, <1>2, <2>4
       DEF AssociatePeers, AssociatePeersAgain, AssociatePeersFails, CleanupOnly
  <2>5. CASE EvictAllSessions
    BY <2>5 DEF EvictAllSessions
  <2>6. ASSUME DOMAIN endpoints' = DOMAIN endpoints PROVE Graceful
    BY <2>6
  <2> QED
    BY <1>2, <2>1, <2>2, <2>3, <2>4, <2>5, <2>6
       DEF Next, SetPeerPubkey, EvictSessionsByRemovedKeys, Tick, vars
<1>3. IInv /\ [Next]_vars => [Graceful]_vars
  BY <1>2
<1> QED
  BY <1>3, Invariance, PTL DEF Spec, EndpointGrace
=============================================================================
