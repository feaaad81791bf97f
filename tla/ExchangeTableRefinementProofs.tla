-------------------- MODULE ExchangeTableRefinementProofs --------------------
(***************************************************************************)
(* The proof that ExchangeTable implements SessionTable, for every value   *)
(* of the constants: each step of the table is one step of the abstract    *)
(* table, or a step its readers cannot see.                                *)
(***************************************************************************)
EXTENDS ExchangeTableRefinement, ExchangeTableProofs

AbstractVars == Sessions!tableVars

-----------------------------------------------------------------------------
(* What the readers see of cleanup() *)

\* Every endpoint that a method has left after its cleanup() is known.
AllKnown(eps) == \A a \in DOMAIN eps : ~EndpointExpired(eps[a])

\* A reader cannot tell whether cleanup() has run: it removes the expired
\* peers and exactly the endpoints that Contains denied.  An endpoint that
\* loses its last user in the call was known, and its fresh deadline keeps it
\* known; one that was denied has no users to lose.
LEMMA CleanupUnseen ==
  ASSUME IInv
  PROVE  /\ DOMAIN CleanedPeers = LivePeers
         /\ \A i \in LivePeers : CleanedPeers[i] = peers[i]
         /\ DOMAIN CleanedEndpoints = Known
         /\ AllKnown(CleanedEndpoints)
<1>1. DOMAIN CleanedPeers = LivePeers /\ \A i \in LivePeers : CleanedPeers[i] = peers[i]
  BY DEF CleanedPeers, Restrict
<1>2. Typed(endpoints, peers) /\ Covered(endpoints, peers)
  BY InvariantParts
<1>3. ASSUME NEW a \in DOMAIN endpoints
      PROVE  EndpointExpired(Released[a]) <=> EndpointExpired(endpoints[a])
  <2> DEFINE n == Cardinality(ExpiredUsersOf(a))
             e == endpoints[a]
  <2>1. /\ n \in Nat
        /\ Cardinality(Users(peers, a)) = n + Cardinality(Users(CleanedPeers, a))
    BY <1>2, CleanedUsers DEF Typed
  <2>2. DOMAIN CleanedPeers \subseteq Index
    BY <1>2, CleanupTyped DEF Typed
  <2>3. Cardinality(Users(CleanedPeers, a)) \in Nat
    BY <2>2, UsersFinite
  <2>4. e \in Endpoint /\ e.refs \in Nat /\ e.ttl \in Int
    BY <1>2, BoundAssumption DEF Typed, Endpoint, Past
  <2>5. e.refs >= n
    BY <1>2, <2>1, <2>3, <2>4 DEF Covered
  <2>6. Released[a] = Deref(e, n)
    BY DEF Released
  <2> HIDE DEF n, e
  <2>7. CASE n = 0
    <3>1. Deref(e, n).refs = e.refs /\ Deref(e, n).ttl = e.ttl
      BY <2>4, <2>7 DEF Deref, Endpoint
    <3> QED
      BY <2>6, <3>1 DEF EndpointExpired, e
  <2>8. CASE n > 0
    <3>1. ~EndpointExpired(e)
      BY <2>1, <2>4, <2>5, <2>8 DEF EndpointExpired
    <3>2. CASE e.refs - n <= 0
      <4>1. Deref(e, n).ttl = EndpointTTL
        BY <2>8, <3>2 DEF Deref
      <4> QED
        BY <2>6, <3>1, <4>1, TTLAssumption DEF EndpointExpired, e
    <3>3. CASE ~(e.refs - n <= 0)
      <4>1. Deref(e, n).refs = e.refs - n
        BY <2>1, <2>4, <2>5, DerefType
      <4> QED
        BY <2>6, <3>1, <3>3, <4>1 DEF EndpointExpired, e
    <3> QED
      BY <3>2, <3>3
  <2> QED
    BY <2>1, <2>7, <2>8
<1>4. DOMAIN Released = DOMAIN endpoints
  BY DEF Released
<1>5. DOMAIN CleanedEndpoints = Known
  BY <1>3, <1>4 DEF CleanedEndpoints, Restrict, Known
<1>6. AllKnown(CleanedEndpoints)
  BY DEF AllKnown, CleanedEndpoints, Restrict
<1> QED
  BY <1>1, <1>5, <1>6

\* refEndpoint adds its address to the known ones and hides none.
LEMMA RefSeen ==
  ASSUME NEW eps, NEW a, \A b \in DOMAIN eps : eps[b].refs \in Nat, AllKnown(eps)
  PROVE  /\ DOMAIN RefEndpoint(eps, a) = DOMAIN eps \cup {a}
         /\ AllKnown(RefEndpoint(eps, a))
<1> DEFINE eps2 == RefEndpoint(eps, a)
<1>1. DOMAIN eps2 = DOMAIN eps \cup {a}
  BY DEF RefEndpoint, Put
<1>2. \A b \in DOMAIN eps : b # a => eps2[b] = eps[b]
  BY DEF RefEndpoint, Put
<1>3. eps2[a].refs > 0 /\ eps2[a].refs \in Int
  <2>1. CASE a \in DOMAIN eps
    <3>1. eps2[a] = [eps[a] EXCEPT !.refs = @ + 1]
      BY <2>1 DEF RefEndpoint, Put
    <3>2. eps2[a].refs = eps[a].refs + 1
      BY <3>1
    <3> QED
      BY <2>1, <3>2
  <2>2. CASE a \notin DOMAIN eps
    BY <2>2 DEF RefEndpoint, Put
  <2> QED
    BY <2>1, <2>2
<1> HIDE DEF eps2
<1>4. AllKnown(eps2)
  BY <1>1, <1>2, <1>3 DEF AllKnown, EndpointExpired
<1> QED
  BY <1>1, <1>4 DEF eps2

-----------------------------------------------------------------------------
(* The view after a step *)

\* What the next state shows, when the table holds peers ps and known
\* endpoints only.
LEMMA ViewNext ==
  ASSUME AllKnown(endpoints')
  PROVE  Known' = DOMAIN endpoints'
BY DEF Known, AllKnown

\* A method that fails changes nothing its readers can see.
LEMMA CleanupStutters ==
  ASSUME IInv, CleanupOnly
  PROVE  UNCHANGED AbstractVars
<1>1. /\ DOMAIN CleanedPeers = LivePeers
      /\ \A i \in LivePeers : CleanedPeers[i] = peers[i]
      /\ DOMAIN CleanedEndpoints = Known
      /\ AllKnown(CleanedEndpoints)
  BY CleanupUnseen
<1>2. /\ peers' = CleanedPeers
      /\ endpoints' = CleanedEndpoints
      /\ peerPubkeys' = peerPubkeys
  BY DEF CleanupOnly
<1>3. LivePeers' = LivePeers /\ \A i \in LivePeers : peers'[i] = peers[i]
  BY <1>1, <1>2 DEF LivePeers, PeerExpired
<1>4. AddrOf' = AddrOf /\ SessionOf' = SessionOf
  BY <1>3 DEF AddrOf, SessionOf
<1>5. Known' = Known
  BY <1>1, <1>2, ViewNext
<1> QED
  BY <1>2, <1>4, <1>5 DEF AbstractVars, Sessions!tableVars

-----------------------------------------------------------------------------
(* One lemma per method that the readers notice *)

\* A new peer is a Register step.
LEMMA AddPeerAddrRegisters ==
  ASSUME IInv, NEW i \in Index, NEW a \in Addr, AddPeerAddr(i, a)
  PROVE  Sessions!Register(i, a)
<1> DEFINE p == [addr |-> a, established |-> FALSE,
                 counterpart |-> NoIndex, ttl |-> HandshakeTTL]
<1>1. /\ DOMAIN CleanedPeers = LivePeers
      /\ \A j \in LivePeers : CleanedPeers[j] = peers[j]
      /\ DOMAIN CleanedEndpoints = Known
      /\ AllKnown(CleanedEndpoints)
  BY CleanupUnseen
<1>2. /\ i \notin LivePeers
      /\ peers' = Put(CleanedPeers, i, p)
      /\ endpoints' = RefEndpoint(CleanedEndpoints, a)
      /\ peerPubkeys' = peerPubkeys
  BY <1>1 DEF AddPeerAddr
<1>3. ~(p.ttl < 0) /\ p.addr = a /\ p.established = FALSE
  BY TTLAssumption
<1> HIDE DEF p
<1>4. /\ LivePeers' = LivePeers \cup {i}
      /\ peers'[i] = p
      /\ \A j \in LivePeers : peers'[j] = peers[j]
  <2>1. /\ DOMAIN peers' = LivePeers \cup {i}
        /\ peers'[i] = p
        /\ \A j \in LivePeers : peers'[j] = peers[j]
    BY <1>1, <1>2 DEF Put
  <2>2. \A j \in LivePeers : ~(peers[j].ttl < 0)
    BY DEF LivePeers, PeerExpired
  <2>3. LivePeers' = {j \in DOMAIN peers' : ~(peers'[j].ttl < 0)}
    BY DEF LivePeers, PeerExpired
  <2> QED
    BY <1>3, <2>1, <2>2, <2>3
<1>5. AddrOf' = Sessions!Bind(AddrOf, i, a)
  BY <1>2, <1>3, <1>4 DEF AddrOf, Sessions!Bind
<1>6. SessionOf' = SessionOf
  BY <1>2, <1>3, <1>4 DEF SessionOf
<1>7. Known' = Known \cup {a}
  <2>1. \A b \in DOMAIN CleanedEndpoints : CleanedEndpoints[b].refs \in Nat
    BY CleanTables, BoundAssumption DEF Typed, Endpoint
  <2> QED
    BY <1>1, <1>2, <2>1, RefSeen, ViewNext
<1>8. DOMAIN AddrOf = LivePeers
  BY DEF AddrOf
<1> QED
  BY <1>2, <1>5, <1>6, <1>7, <1>8 DEF Sessions!Register

\* A roaming peer is a Move step: the endpoint it leaves stays known.
LEMMA UpdatePeerAddrMoves ==
  ASSUME IInv, NEW i \in Index, NEW a \in Addr, UpdatePeerAddr(i, a)
  PROVE  Sessions!Move(i, a)
<1> DEFINE b   == CleanedPeers[i].addr
           ce  == CleanedEndpoints
           ce2 == [ce EXCEPT ![b] = Deref(@, 1)]
<1>1. /\ DOMAIN CleanedPeers = LivePeers
      /\ \A j \in LivePeers : CleanedPeers[j] = peers[j]
      /\ DOMAIN ce = Known
      /\ AllKnown(ce)
  BY CleanupUnseen
<1>2. /\ i \in LivePeers
      /\ peers' = [CleanedPeers EXCEPT ![i].addr = a]
      /\ endpoints' = RefEndpoint(ce2, a)
      /\ peerPubkeys' = peerPubkeys
  BY <1>1 DEF UpdatePeerAddr
<1>3. Typed(ce, CleanedPeers) /\ Covered(ce, CleanedPeers)
  BY CleanTables
<1>4. /\ DOMAIN peers' = LivePeers
      /\ \A j \in LivePeers : /\ peers'[j].ttl = peers[j].ttl
                              /\ peers'[j].established = peers[j].established
                              /\ peers'[j].counterpart = peers[j].counterpart
                              /\ peers'[j].addr = IF j = i THEN a ELSE peers[j].addr
  BY <1>1, <1>2, <1>3 DEF Typed, Peer
<1>5. LivePeers' = LivePeers
  BY <1>4 DEF LivePeers, PeerExpired
<1>6. AddrOf' = [AddrOf EXCEPT ![i] = a]
  BY <1>2, <1>4, <1>5 DEF AddrOf
<1>7. SessionOf' = SessionOf
  BY <1>4, <1>5 DEF SessionOf
<1>8. Known' = Known \cup {a}
  <2>1. ce[b] \in Endpoint /\ ce[b].refs >= 1
    <3>1. b \in DOMAIN ce /\ ce[b].refs >= Cardinality(Users(CleanedPeers, b))
      BY <1>1, <1>2, <1>3 DEF Covered
    <3>2. Cardinality(Users(CleanedPeers, b)) \in Nat /\ Cardinality(Users(CleanedPeers, b)) >= 1
      BY <1>1, <1>2, <1>3, UsersFinite, UsedIsPositive DEF Typed
    <3>3. ce[b] \in Endpoint /\ ce[b].refs \in Nat
      BY <1>3, <3>1, BoundAssumption DEF Typed, Endpoint
    <3> QED
      BY <3>1, <3>2, <3>3
  <2>2. /\ Deref(ce[b], 1) \in Endpoint
        /\ Deref(ce[b], 1).refs = ce[b].refs - 1
    BY <2>1, DerefType
  <2>3. ~EndpointExpired(Deref(ce[b], 1))
    BY <2>1, <2>2, TTLAssumption DEF EndpointExpired, Deref, Endpoint
  <2>4. /\ DOMAIN ce2 = DOMAIN ce
        /\ \A c \in DOMAIN ce : ce2[c] = IF c = b THEN Deref(ce[b], 1) ELSE ce[c]
    BY <1>3 DEF Typed
  <2>5. \A c \in DOMAIN ce2 : ce2[c].refs \in Nat
    BY <1>3, <2>2, <2>4, BoundAssumption DEF Typed, Endpoint
  <2>6. AllKnown(ce2)
    BY <1>1, <2>3, <2>4 DEF AllKnown
  <2> HIDE DEF ce2
  <2>7. DOMAIN endpoints' = Known \cup {a} /\ AllKnown(endpoints')
    BY <1>1, <1>2, <2>4, <2>5, <2>6, RefSeen
  <2> QED
    BY <2>7, ViewNext
<1>9. DOMAIN AddrOf = LivePeers
  BY DEF AddrOf
<1> QED
  BY <1>2, <1>6, <1>7, <1>8, <1>9 DEF Sessions!Move

\* Two single peers become a session in one Link step.
LEMMA AssociatePeersLinks ==
  ASSUME IInv, NEW s \in Index, NEW r \in Index, AssociatePeers(s, r)
  PROVE  Sessions!Link(s, r)
<1>1. /\ DOMAIN CleanedPeers = LivePeers
      /\ \A j \in LivePeers : CleanedPeers[j] = peers[j]
      /\ DOMAIN CleanedEndpoints = Known
      /\ AllKnown(CleanedEndpoints)
  BY CleanupUnseen
<1>2. /\ {s, r} \subseteq LivePeers
      /\ ~peers[s].established /\ ~peers[r].established
      /\ peers' = [CleanedPeers EXCEPT ![s] = LinkedTo(@, r), ![r] = LinkedTo(@, s)]
      /\ endpoints' = CleanedEndpoints
      /\ peerPubkeys' = peerPubkeys
  BY <1>1 DEF AssociatePeers, Associable
<1>3. Typed(CleanedEndpoints, CleanedPeers)
  BY CleanTables
<1> DEFINE cp == CleanedPeers
<1> HIDE DEF cp
<1>4. /\ DOMAIN peers' = LivePeers
      /\ \A j \in LivePeers \ {s, r} : peers'[j] = peers[j]
      /\ \A j \in LivePeers : peers'[j].addr = peers[j].addr
      /\ peers'[s].established /\ peers'[s].counterpart = r /\ peers'[s].ttl = SessionTTL
      /\ peers'[r].established /\ peers'[r].counterpart = s /\ peers'[r].ttl = SessionTTL
  <2>1. /\ DOMAIN cp = LivePeers
        /\ \A j \in LivePeers : cp[j] = peers[j]
        /\ {s, r} \subseteq LivePeers
        /\ peers' = [cp EXCEPT ![s] = LinkedTo(@, r), ![r] = LinkedTo(@, s)]
        /\ cp \in [DOMAIN cp -> Peer]
    BY <1>1, <1>2, <1>3 DEF cp, Typed
  <2>2. DOMAIN peers' = LivePeers
    BY <2>1
  <2>3. \A j \in LivePeers \ {s, r} : peers'[j] = peers[j]
    BY <2>1
  <2>4. \A j \in LivePeers : peers'[j].addr = cp[j].addr
    BY <2>1 DEF LinkedTo, Peer
  <2>5. /\ peers'[s].established /\ peers'[s].counterpart = r /\ peers'[s].ttl = SessionTTL
        /\ peers'[r].established /\ peers'[r].counterpart = s /\ peers'[r].ttl = SessionTTL
    BY <2>1 DEF LinkedTo, Peer
  <2> QED
    BY <2>1, <2>2, <2>3, <2>4, <2>5
<1>5. LivePeers' = LivePeers
  BY <1>2, <1>4, TTLAssumption DEF LivePeers, PeerExpired
<1>6. AddrOf' = AddrOf
  BY <1>4, <1>5 DEF AddrOf
<1>7. SessionOf' = Sessions!Bind(Sessions!Bind(SessionOf, s, r), r, s)
  <2>1. {j \in LivePeers : peers'[j].established}
          = {j \in LivePeers : peers[j].established} \cup {s, r}
    BY <1>2, <1>4
  <2> QED
    BY <1>2, <1>4, <1>5, <2>1 DEF SessionOf, Sessions!Bind
<1>8. Known' = Known
  BY <1>1, <1>2, ViewNext
<1>9. Sessions!Single(s) /\ Sessions!Single(r)
  BY <1>2 DEF Sessions!Single, AddrOf, SessionOf
<1> QED
  BY <1>2, <1>6, <1>7, <1>8, <1>9 DEF Sessions!Link

\* An eviction is a Revoke step.  What it takes beyond the revoked sessions
\* are expired peers, which were no longer visible, and their keys.
LEMMA EvictSessionsRevokes ==
  ASSUME IInv, NEW allowed \in SUBSET Key, EvictSessionsByRemovedKeys(allowed)
  PROVE  \E stale \in SUBSET Index : Sessions!Revoke(allowed, stale)
<1> DEFINE gone  == EvictedPeers(allowed)
           stale == (DOMAIN peerPubkeys \cap gone) \ LivePeers
           seen  == Sessions!Revoked(allowed)
<1>1. /\ peers' = Restrict(peers, DOMAIN peers \ gone)
      /\ peerPubkeys' = Restrict(peerPubkeys, DOMAIN peerPubkeys \ gone)
      /\ endpoints' = endpoints
  BY DEF EvictSessionsByRemovedKeys
<1>2. Paired(peers) /\ KeysTyped(peerPubkeys)
  BY InvariantParts
<1>3. DOMAIN AddrOf = LivePeers /\ DOMAIN SessionOf = {i \in LivePeers : peers[i].established}
  BY DEF AddrOf, SessionOf
<1>4. seen = gone \cap LivePeers
  <2> DEFINE live == {i \in LivePeers \cap DOMAIN peerPubkeys : peerPubkeys[i] \notin allowed}
  <2>1. seen = live \cup {peers[i].counterpart : i \in {j \in live : peers[j].established}}
    <3>1. seen = live \cup {SessionOf[i] : i \in live \cap DOMAIN SessionOf}
      BY <1>3 DEF Sessions!Revoked, Sessions!WithCounterparts
    <3>2. \A i \in DOMAIN SessionOf : SessionOf[i] = peers[i].counterpart
      BY DEF SessionOf
    <3>3. live \cap DOMAIN SessionOf = {j \in live : peers[j].established}
      BY <1>3
    <3> QED
      BY <3>1, <3>2, <3>3
  <2>2. live = RevokedPeers(allowed) \cap LivePeers
    BY DEF RevokedPeers, LivePeers
  <2>3. \A i \in DOMAIN peers : peers[i].established =>
          (peers[i].counterpart \in LivePeers <=> i \in LivePeers)
    BY <1>2 DEF Paired, LivePeers, PeerExpired
  <2>4. gone = RevokedPeers(allowed) \cup
          {peers[i].counterpart : i \in {j \in RevokedPeers(allowed) : peers[j].established}}
    BY DEF EvictedPeers
  <2>5. RevokedPeers(allowed) \subseteq DOMAIN peers
    BY DEF RevokedPeers
  <2> HIDE DEF live, seen, gone
  <2> QED
    BY <2>1, <2>2, <2>3, <2>4, <2>5
<1> HIDE DEF gone, seen
<1>5. LivePeers' = LivePeers \ gone /\ \A i \in LivePeers' : peers'[i] = peers[i]
  BY <1>1 DEF LivePeers, PeerExpired, Restrict
<1>6. AddrOf' = Sessions!Without(AddrOf, seen)
  BY <1>4, <1>5 DEF AddrOf, Sessions!Without, Sessions!Restrict
<1>7. SessionOf' = Sessions!Without(SessionOf, seen)
  BY <1>4, <1>5 DEF SessionOf, Sessions!Without, Sessions!Restrict
<1>8. peerPubkeys' = Sessions!Without(peerPubkeys, seen \cup stale)
  <2>1. DOMAIN peerPubkeys \ gone = DOMAIN peerPubkeys \ (seen \cup stale)
    BY <1>4
  <2> QED
    BY <1>1, <2>1 DEF Sessions!Without, Sessions!Restrict, Restrict
<1>9. Known' = Known
  BY <1>1 DEF Known
<1>10. stale \subseteq DOMAIN peerPubkeys \ DOMAIN AddrOf /\ stale \in SUBSET Index
  BY <1>2, <1>3 DEF KeysTyped
<1> QED
  BY <1>6, <1>7, <1>8, <1>9, <1>10 DEF Sessions!Revoke, seen

\* Clearing the table is a Clear step.
LEMMA EvictAllClears == ASSUME EvictAllSessions PROVE Sessions!Clear
<1>1. LivePeers' = {}
  BY DEF EvictAllSessions, LivePeers
<1>2. AddrOf' = [i \in {} |-> i] /\ SessionOf' = [i \in {} |-> i]
  BY <1>1 DEF AddrOf, SessionOf
<1>3. Known' = {}
  BY DEF EvictAllSessions, Known
<1> QED
  BY <1>2, <1>3 DEF EvictAllSessions, Sessions!Clear

\* The passing of time is an Expire step: peers leave with the other ends of
\* their sessions, and only addresses that no peer uses are forgotten.
LEMMA TickExpires ==
  ASSUME IInv, Tick
  PROVE  \E S \in SUBSET Index, forgotten \in SUBSET Addr : Sessions!Expire(S, forgotten)
<1> DEFINE S         == LivePeers \ LivePeers'
           forgotten == Known \ Known'
<1>1. /\ Typed(endpoints, peers) /\ Covered(endpoints, peers)
      /\ Paired(peers)
  BY InvariantParts
<1>2. /\ DOMAIN peers' = DOMAIN peers
      /\ \A i \in DOMAIN peers : /\ peers'[i].addr = peers[i].addr
                                 /\ peers'[i].established = peers[i].established
                                 /\ peers'[i].counterpart = peers[i].counterpart
                                 /\ peers'[i].ttl = Elapse(peers[i].ttl)
                                 /\ peers[i].ttl \in Int
  BY <1>1 DEF Tick, Typed, Peer, Past
<1>3. /\ DOMAIN endpoints' = DOMAIN endpoints
      /\ \A a \in DOMAIN endpoints : /\ endpoints'[a].refs = endpoints[a].refs
                                     /\ endpoints'[a].ttl = Elapse(endpoints[a].ttl)
                                     /\ endpoints[a].ttl \in Int
  BY <1>1 DEF Tick, Typed, Endpoint, Past
<1>4. \A t \in Int : t < 0 => Elapse(t) < 0
  BY DEF Elapse, Past
<1>5. LivePeers' \subseteq LivePeers
  BY <1>2, <1>4 DEF LivePeers, PeerExpired
<1>6. Known' \subseteq Known
  BY <1>3, <1>4 DEF Known, EndpointExpired
<1>7. DOMAIN AddrOf = LivePeers /\ DOMAIN SessionOf = {i \in LivePeers : peers[i].established}
  BY DEF AddrOf, SessionOf
<1>8. AddrOf' = Sessions!Without(AddrOf, S)
  BY <1>2, <1>5 DEF AddrOf, Sessions!Without, Sessions!Restrict, LivePeers
<1>9. SessionOf' = Sessions!Without(SessionOf, S)
  <2>1. {i \in LivePeers' : peers'[i].established}
          = {i \in LivePeers : peers[i].established} \ S
    BY <1>2, <1>5 DEF LivePeers
  <2>2. \A i \in LivePeers' : peers'[i].counterpart = peers[i].counterpart
    BY <1>2, <1>5 DEF LivePeers
  <2> QED
    BY <1>5, <2>1, <2>2 DEF SessionOf, Sessions!Without, Sessions!Restrict
<1>10. Sessions!WithCounterparts(S) = S
  <2>1. ASSUME NEW i \in S, peers[i].established PROVE peers[i].counterpart \in S
    <3> DEFINE c == peers[i].counterpart
    <3>1. i \in DOMAIN peers /\ c \in DOMAIN peers /\ peers[c].ttl = peers[i].ttl
      BY <1>1, <2>1 DEF Paired, LivePeers
    <3>2. peers'[c].ttl = peers'[i].ttl
      BY <1>2, <3>1
    <3> QED
      BY <1>2, <3>1, <3>2 DEF LivePeers, PeerExpired
  <2>2. \A i \in S \cap DOMAIN SessionOf :
          peers[i].established /\ SessionOf[i] = peers[i].counterpart
    BY DEF SessionOf
  <2> QED
    BY <2>1, <2>2 DEF Sessions!WithCounterparts
<1>11. forgotten \subseteq Known \ {AddrOf[i] : i \in DOMAIN AddrOf}
  <2> SUFFICES ASSUME NEW i \in LivePeers PROVE AddrOf[i] \notin forgotten
    BY <1>7
  <2> DEFINE a == peers[i].addr
  <2>1. i \in DOMAIN peers /\ AddrOf[i] = a
    BY DEF AddrOf, LivePeers
  <2>2. a \in DOMAIN endpoints /\ endpoints[a].refs >= Cardinality(Users(peers, a))
    BY <1>1, <2>1 DEF Covered
  <2>3. Cardinality(Users(peers, a)) >= 1 /\ Cardinality(Users(peers, a)) \in Nat
    BY <1>1, <2>1, UsersFinite, UsedIsPositive DEF Typed
  <2>4. endpoints[a].refs \in Nat
    BY <1>1, <2>2, BoundAssumption DEF Typed, Endpoint
  <2>5. endpoints'[a].refs >= 1
    BY <1>3, <2>2, <2>3, <2>4
  <2>6. ~EndpointExpired(endpoints'[a])
    BY <1>3, <2>2, <2>4, <2>5 DEF EndpointExpired
  <2>7. a \in Known'
    BY <1>3, <2>2, <2>6 DEF Known
  <2> QED
    BY <2>1, <2>7
<1>12. S \in SUBSET Index /\ forgotten \in SUBSET Addr /\ S \subseteq DOMAIN AddrOf
  BY <1>1, <1>7 DEF Typed, LivePeers, Known
<1>13. Known' = Known \ forgotten
  BY <1>6
<1> HIDE DEF S, forgotten
<1> QED
  BY <1>8, <1>9, <1>10, <1>11, <1>12, <1>13 DEF Sessions!Expire, Tick

-----------------------------------------------------------------------------
(* The refinement *)

\* Each step of the table is a step of the abstract table, or is unseen.
LEMMA StepRefines ==
  ASSUME IInv, [Next]_vars
  PROVE  [Sessions!TableNext]_AbstractVars
<1>1. ASSUME CleanupOnly PROVE UNCHANGED AbstractVars
  BY <1>1, CleanupStutters
<1>2. ASSUME NEW i \in Index, NEW a \in Addr, AddPeerAddr(i, a)
      PROVE  Sessions!TableNext
  BY <1>2, AddPeerAddrRegisters DEF Sessions!TableNext
<1>3. ASSUME NEW i \in Index, NEW a \in Addr, UpdatePeerAddr(i, a)
      PROVE  Sessions!TableNext
  BY <1>3, UpdatePeerAddrMoves DEF Sessions!TableNext
<1>4. ASSUME NEW i \in Index, AddPeerAddrFails(i) \/ UpdatePeerAddrFails(i)
      PROVE  UNCHANGED AbstractVars
  BY <1>1, <1>4 DEF AddPeerAddrFails, UpdatePeerAddrFails
<1>5. ASSUME NEW s \in Index, NEW r \in Index, AssociatePeers(s, r)
      PROVE  Sessions!TableNext
  BY <1>5, AssociatePeersLinks DEF Sessions!TableNext
<1>6. ASSUME NEW s \in Index, NEW r \in Index,
             AssociatePeersAgain(s, r) \/ AssociatePeersFails(s, r)
      PROVE  UNCHANGED AbstractVars
  BY <1>1, <1>6 DEF AssociatePeersAgain, AssociatePeersFails
<1>7. ASSUME NEW i \in Index, NEW k \in Key, SetPeerPubkey(i, k)
      PROVE  Sessions!TableNext
  <2>1. AddrOf' = AddrOf /\ SessionOf' = SessionOf /\ Known' = Known
    BY <1>7 DEF SetPeerPubkey, AddrOf, SessionOf, Known, LivePeers
  <2>2. Sessions!Record(i, k)
    BY <1>7, <2>1 DEF SetPeerPubkey, Put, Sessions!Record, Sessions!Bind
  <2> QED
    BY <2>2 DEF Sessions!TableNext
<1>8. ASSUME NEW allowed \in SUBSET Key, EvictSessionsByRemovedKeys(allowed)
      PROVE  Sessions!TableNext
  BY <1>8, EvictSessionsRevokes DEF Sessions!TableNext
<1>9. CASE EvictAllSessions
  BY <1>9, EvictAllClears DEF Sessions!TableNext
<1>10. CASE Tick
  BY <1>10, TickExpires DEF Sessions!TableNext
<1>11. CASE UNCHANGED vars
  BY <1>11 DEF vars, AbstractVars, Sessions!tableVars, AddrOf, SessionOf, Known, LivePeers
<1> QED
  BY <1>2, <1>3, <1>4, <1>5, <1>6, <1>7, <1>8, <1>9, <1>10, <1>11 DEF Next

\* The exchange table implements the table its readers are promised.
THEOREM Refinement == Spec => ImplementsSessionTable
<1>1. Init => Sessions!TableInit
  <2> SUFFICES ASSUME Init PROVE Sessions!TableInit
    OBVIOUS
  <2>1. LivePeers = {}
    BY DEF Init, LivePeers
  <2>2. AddrOf = [i \in {} |-> i] /\ SessionOf = [i \in {} |-> i] /\ Known = {}
    BY <2>1 DEF Init, AddrOf, SessionOf, Known
  <2> QED
    BY <2>2 DEF Init, Sessions!TableInit
<1>2. IInv /\ [Next]_vars => [Sessions!TableNext]_(Sessions!tableVars)
  BY StepRefines DEF AbstractVars
<1> QED
  BY <1>1, <1>2, Invariance, PTL DEF Spec, ImplementsSessionTable, Sessions!Spec
=============================================================================
