---------------------------- MODULE ExchangeTable ----------------------------
(***************************************************************************)
(* The exchange table of internal/exchange/exchange.go: the relay's only   *)
(* record of which WireGuard index lives at which UDP address and of which *)
(* two indices form a session.  Every method takes the table's lock for    *)
(* its whole body, so each is one action; the methods that only read are   *)
(* operators.                                                              *)
(*                                                                         *)
(* Time.  An expiry deadline is kept as the time left until it: the action *)
(* Tick shortens every deadline by one unit, and a negative rest is        *)
(* "expired" (expiredAt.Before(now) is strict).  Nothing depends on how    *)
(* long ago a deadline passed, so the rest stops at Past = -1.  A method   *)
(* runs within one unit: its calls of time.Now() agree.                    *)
(*                                                                         *)
(* Pointers.  A peerInfo points at an endpointInfo; the model keeps the    *)
(* address instead.  That is exact as long as the endpoint of every peer   *)
(* is the one the endpoint map holds for its address, which                *)
(* RefsCoverPeers states and ExchangeTableProofs proves.                   *)
(***************************************************************************)
EXTENDS Integers, FiniteSets, Functions

CONSTANTS
  Index,         \* WireGuard peer indices (uint32)
  Addr,          \* UDP addresses
  Key,           \* static public keys
  NoIndex,       \* the counterpart field of a peer without a session
  EndpointTTL,   \* endpointTTL, 3 minutes
  HandshakeTTL,  \* handshakeTTL, 45 seconds
  SessionTTL,    \* sessionTTL, 12 minutes
  MaxRefs        \* bound: no endpoint is referenced more often than this

ASSUME IndexAssumption == IsFiniteSet(Index)
ASSUME TTLAssumption   == /\ {EndpointTTL, HandshakeTTL, SessionTTL} \subseteq Nat
                          /\ HandshakeTTL <= SessionTTL
ASSUME BoundAssumption == MaxRefs \in Nat

VARIABLES
  endpoints,     \* address -> reference count and time to live
  peers,         \* index -> address, session and time to live
  peerPubkeys    \* index -> key its handshake initiation was addressed to

vars == <<endpoints, peers, peerPubkeys>>

-----------------------------------------------------------------------------
(* Data *)

Past == -1

Endpoint == [refs : 0 .. MaxRefs, ttl : Past .. EndpointTTL]
Peer     == [addr : Addr, established : BOOLEAN,
             counterpart : Index \cup {NoIndex}, ttl : Past .. SessionTTL]

Put(f, k, v) == [x \in DOMAIN f \cup {k} |-> IF x = k THEN v ELSE f[x]]

\* Mutant: the time alone decides.
EndpointExpiredByTime(e) == e.ttl < 0

EndpointExpired(e) == e.refs <= 0 /\ e.ttl < 0
PeerExpired(p)     == p.ttl < 0

TypeOK ==
  /\ DOMAIN endpoints \subseteq Addr
  /\ endpoints \in [DOMAIN endpoints -> Endpoint]
  /\ DOMAIN peers \subseteq Index
  /\ peers \in [DOMAIN peers -> Peer]
  /\ DOMAIN peerPubkeys \subseteq Index
  /\ peerPubkeys \in [DOMAIN peerPubkeys -> Key]

\* The peers that point at the endpoint of a.
UsersOf(a) == {i \in DOMAIN peers : peers[i].addr = a}

-----------------------------------------------------------------------------
(* Reference counts and expiry *)

\* Mutant: a known endpoint is handed out without counting the new user.
RefEndpointUncounted(eps, a) ==
  IF a \in DOMAIN eps THEN eps ELSE Put(eps, a, [refs |-> 1, ttl |-> Past])

\* A new endpoint starts with the zero time, long past, as its deadline.
RefEndpoint(eps, a) ==
  Put(eps, a, IF a \in DOMAIN eps THEN [eps[a] EXCEPT !.refs = @ + 1]
                                  ELSE [refs |-> 1, ttl |-> Past])

\* Mutant: every user is released twice.
DerefTwice(e, n) ==
  IF n > 0 /\ e.refs - 2 * n <= 0
  THEN [refs |-> e.refs - 2 * n, ttl |-> EndpointTTL]
  ELSE [e EXCEPT !.refs = @ - 2 * n]

\* Mutant: the last user leaves and the deadline is not renewed.
DerefNoGrace(e, n) == [e EXCEPT !.refs = @ - n]

\* n users leave endpoint e.
Deref(e, n) ==
  IF n > 0 /\ e.refs - n <= 0
  THEN [refs |-> e.refs - n, ttl |-> EndpointTTL]
  ELSE [e EXCEPT !.refs = @ - n]

LivePeers    == {i \in DOMAIN peers : ~PeerExpired(peers[i])}
ExpiredPeers == DOMAIN peers \ LivePeers

ExpiredUsersOf(a) == UsersOf(a) \cap ExpiredPeers

\* The two loops of cleanup(): expired peers release their endpoints, then
\* expired endpoints go.  peerPubkeys is not touched.
CleanedPeers == Restrict(peers, LivePeers)

Released ==
  [a \in DOMAIN endpoints |->
     Deref(endpoints[a], Cardinality(ExpiredUsersOf(a)))]

CleanedEndpoints ==
  Restrict(Released, {a \in DOMAIN Released : ~EndpointExpired(Released[a])})

\* What a method that fails after its cleanup() leaves behind.
CleanupOnly ==
  /\ peers' = CleanedPeers
  /\ endpoints' = CleanedEndpoints
  /\ UNCHANGED peerPubkeys

-----------------------------------------------------------------------------
(* The reading methods *)

Contains(a) == a \in DOMAIN endpoints /\ ~EndpointExpired(endpoints[a])

ListAddrs(exclude) ==
  {a \in DOMAIN endpoints : ~EndpointExpired(endpoints[a])} \ {exclude}

HasPeerAddr(i) == i \in LivePeers
GetPeerAddr(i) == peers[i].addr                    \* if HasPeerAddr(i)

HasCounterpart(i) == i \in LivePeers /\ peers[i].established
GetPeerCounterpart(i) == peers[i].counterpart      \* if HasCounterpart(i)

-----------------------------------------------------------------------------
(* The writing methods *)

Init ==
  /\ endpoints = [a \in {} |-> a]
  /\ peers = [i \in {} |-> i]
  /\ peerPubkeys = [i \in {} |-> i]

AddPeerAddr(i, a) ==
  /\ i \notin DOMAIN CleanedPeers
  /\ peers' = Put(CleanedPeers, i,
                  [addr |-> a, established |-> FALSE,
                   counterpart |-> NoIndex, ttl |-> HandshakeTTL])
  /\ endpoints' = RefEndpoint(CleanedEndpoints, a)
  /\ endpoints'[a].refs <= MaxRefs
  /\ UNCHANGED peerPubkeys

AddPeerAddrFails(i) == i \in DOMAIN CleanedPeers /\ CleanupOnly

\* Mutant: the endpoint the peer leaves is not released.
UpdatePeerAddrUnreleased(i, a) ==
  /\ i \in DOMAIN CleanedPeers
  /\ peers' = [CleanedPeers EXCEPT ![i].addr = a]
  /\ endpoints' = RefEndpoint(CleanedEndpoints, a)
  /\ endpoints'[a].refs <= MaxRefs
  /\ UNCHANGED peerPubkeys

UpdatePeerAddr(i, a) ==
  /\ i \in DOMAIN CleanedPeers
  /\ peers' = [CleanedPeers EXCEPT ![i].addr = a]
  /\ endpoints' = RefEndpoint(
       [CleanedEndpoints EXCEPT ![CleanedPeers[i].addr] = Deref(@, 1)], a)
  /\ endpoints'[a].refs <= MaxRefs
  /\ UNCHANGED peerPubkeys

UpdatePeerAddrFails(i) == i \notin DOMAIN CleanedPeers /\ CleanupOnly

LinkedTo(p, c) ==
  [addr |-> p.addr, established |-> TRUE, counterpart |-> c, ttl |-> SessionTTL]

AlreadyAssociated(s, r) ==
  /\ {s, r} \subseteq DOMAIN CleanedPeers
  /\ CleanedPeers[s].established /\ CleanedPeers[s].counterpart = r
  /\ CleanedPeers[r].established /\ CleanedPeers[r].counterpart = s

\* Mutant: only the sender is checked for an existing session.
AssociableBySenderOnly(s, r) ==
  {s, r} \subseteq DOMAIN CleanedPeers /\ ~CleanedPeers[s].established

Associable(s, r) ==
  /\ {s, r} \subseteq DOMAIN CleanedPeers
  /\ ~CleanedPeers[s].established
  /\ ~CleanedPeers[r].established

AssociatePeers(s, r) ==
  /\ Associable(s, r)
  /\ peers' = [CleanedPeers EXCEPT ![s] = LinkedTo(@, r),
                                   ![r] = LinkedTo(@, s)]
  /\ endpoints' = CleanedEndpoints
  /\ UNCHANGED peerPubkeys

\* Mutant: the same response again renews the session.
AssociatePeersAgainRenewing(s, r) ==
  /\ AlreadyAssociated(s, r)
  /\ peers' = [CleanedPeers EXCEPT ![s].ttl = SessionTTL, ![r].ttl = SessionTTL]
  /\ endpoints' = CleanedEndpoints
  /\ UNCHANGED peerPubkeys

\* The same response again: success, nothing renewed.
AssociatePeersAgain(s, r) == AlreadyAssociated(s, r) /\ CleanupOnly

AssociatePeersFails(s, r) ==
  ~Associable(s, r) /\ ~AlreadyAssociated(s, r) /\ CleanupOnly

SetPeerPubkey(i, k) ==
  /\ peerPubkeys' = Put(peerPubkeys, i, k)
  /\ UNCHANGED <<endpoints, peers>>

\* The peers, expired ones included, whose recorded key is not allowed.
RevokedPeers(allowed) ==
  {i \in DOMAIN peers \cap DOMAIN peerPubkeys : peerPubkeys[i] \notin allowed}

\* Mutant: the other end of a revoked session is forgotten.
EvictedPeersOneSided(allowed) == RevokedPeers(allowed)

EvictedPeers(allowed) ==
  RevokedPeers(allowed) \cup
  {peers[i].counterpart : i \in {j \in RevokedPeers(allowed) : peers[j].established}}

\* No cleanup() and no derefEndpoint: the endpoints keep their counts.
EvictSessionsByRemovedKeys(allowed) ==
  /\ peers' = Restrict(peers, DOMAIN peers \ EvictedPeers(allowed))
  /\ peerPubkeys' =
       Restrict(peerPubkeys, DOMAIN peerPubkeys \ EvictedPeers(allowed))
  /\ UNCHANGED endpoints

EvictAllSessions ==
  /\ peers' = [i \in {} |-> i]
  /\ endpoints' = [a \in {} |-> a]
  /\ peerPubkeys' = [i \in {} |-> i]

-----------------------------------------------------------------------------
(* Time and the specification *)

Elapse(t) == IF t < 0 THEN Past ELSE t - 1

Tick ==
  /\ peers' = [i \in DOMAIN peers |-> [peers[i] EXCEPT !.ttl = Elapse(@)]]
  /\ endpoints' =
       [a \in DOMAIN endpoints |-> [endpoints[a] EXCEPT !.ttl = Elapse(@)]]
  /\ UNCHANGED peerPubkeys

Next ==
  \/ \E i \in Index, a \in Addr : AddPeerAddr(i, a) \/ UpdatePeerAddr(i, a)
  \/ \E i \in Index : AddPeerAddrFails(i) \/ UpdatePeerAddrFails(i)
  \/ \E s, r \in Index : \/ AssociatePeers(s, r)
                         \/ AssociatePeersAgain(s, r)
                         \/ AssociatePeersFails(s, r)
  \/ \E i \in Index, k \in Key : SetPeerPubkey(i, k)
  \/ \E allowed \in SUBSET Key : EvictSessionsByRemovedKeys(allowed)
  \/ EvictAllSessions
  \/ Tick

Spec == Init /\ [][Next]_vars

\* Time passes; nothing else is owed by the table's callers.
TimedSpec == Spec /\ WF_vars(Tick)

-----------------------------------------------------------------------------
(* Properties *)

\* A session has two ends that name each other and expire together, so no
\* lookup of one end can find the other missing, single, or bound elsewhere
\* (AssociatePeers, cleanup, EvictSessionsByRemovedKeys).
PairingSymmetric ==
  \A i \in DOMAIN peers : peers[i].established =>
    LET c == peers[i].counterpart IN
      /\ c \in DOMAIN peers
      /\ peers[c].established
      /\ peers[c].counterpart = i
      /\ peers[c].ttl = peers[i].ttl

\* The endpoint of every peer is in the map, counted at least once per peer
\* that points at it (refEndpoint, derefEndpoint, cleanup): a peer never
\* points at an endpoint the table has dropped.
RefsCoverPeers ==
  \A i \in DOMAIN peers :
    /\ peers[i].addr \in DOMAIN endpoints
    /\ endpoints[peers[i].addr].refs >= Cardinality(UsersOf(peers[i].addr))

\* While an index can be looked up, packets reach it: its address passes
\* the Contains test and is in every broadcast list but its own, and the
\* other end of its session can be looked up as well.
LivePeersRoutable ==
  \A i \in Index : HasPeerAddr(i) =>
    /\ Contains(GetPeerAddr(i))
    /\ \A x \in Addr \ {GetPeerAddr(i)} : GetPeerAddr(i) \in ListAddrs(x)
    /\ HasCounterpart(i) => HasPeerAddr(GetPeerCounterpart(i))

\* A running session is never rebound, shortened or extended: an unexpired
\* end either keeps its counterpart, losing at most the unit that passed, or
\* leaves the table together with its counterpart and both recorded keys.
SessionStable ==
  [][\A i \in LivePeers : peers[i].established =>
       LET both == {i, peers[i].counterpart} IN
       \/ /\ i \in DOMAIN peers'
          /\ peers'[i].established
          /\ peers'[i].counterpart = peers[i].counterpart
          /\ peers'[i].ttl \in {peers[i].ttl, peers[i].ttl - 1}
       \/ both \cap (DOMAIN peers' \cup DOMAIN peerPubkeys') = {}]_vars

\* An address leaves the broadcast set only if no peer, expired or not,
\* used it any more before the step: the last user's departure starts the
\* three minutes of grace.  Clearing the whole table is the exception.
EndpointGrace ==
  [][\A a \in DOMAIN endpoints \ DOMAIN endpoints' :
       \/ UsersOf(a) = {}
       \/ DOMAIN endpoints' = {} /\ DOMAIN peerPubkeys' = {}]_vars

\* The units left to an entry at most: a single one may still be linked, once.
Left(i) ==
  IF peers[i].established THEN peers[i].ttl ELSE SessionTTL + 1 + peers[i].ttl

\* No entry lives forever: whatever the callers do, time that has passed is
\* never given back to an index that stays found, neither by data, nor by
\* roaming, nor by the same response again, and each unit of time takes some.
EntriesRunOut ==
  [][\A i \in LivePeers : i \in LivePeers' =>
       Left(i)' <= Left(i) /\ (Tick => Left(i)' < Left(i))]_vars

\* References to the endpoint of a that belong to no peer.
Leaked(a) ==
  IF a \in DOMAIN endpoints
  THEN endpoints[a].refs - Cardinality(UsersOf(a)) ELSE 0

\* exchange.go:302-306 is the one place where references are lost: through
\* every other step, those of registering, roaming, linking, failing and
\* expiring peers included, the count of an endpoint moves with its users.
\* Nothing but clearing the table takes a lost reference back.
EvictionAloneLeaks ==
  [][\/ \A a \in Addr : Leaked(a)' = Leaked(a)
     \/ \E allowed \in SUBSET Key : EvictSessionsByRemovedKeys(allowed)
     \/ EvictAllSessions]_vars

\* exchange.go:15 gives endpoints a timeout of three minutes: an address
\* that no peer uses any more does not stay known for ever.
EndpointTimeout ==
  \A a \in Addr : <>[](UsersOf(a) = {}) => <>[]~Contains(a)
=============================================================================
