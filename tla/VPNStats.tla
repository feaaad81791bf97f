------------------------------- MODULE VPNStats -------------------------------
(***************************************************************************)
(* The statistics of internal/stats/stats.go: what the dashboard and the   *)
(* JSON API show of the peers.  One mutex is held for the whole body of    *)
(* every method, so each method is one action; a background goroutine      *)
(* calls SyncPeerStatus and then CleanupExpiredPeers every five seconds,   *)
(* and another one, of the relay, CleanupExpiredPeers with a timeout of    *)
(* its own every thirty seconds, at any moment between the other calls.    *)
(*                                                                         *)
(* Data.  LastSeen is kept as the age of the entry, which stops growing    *)
(* past every threshold.  ConnectedAt is only ever compared with other     *)
(* ConnectedAt: it is kept as a rank, compressed when time passes, and     *)
(* Now ranks above all earlier ones.  Of the byte counts the model keeps   *)
(* whether they are zero.  The running totals are never read back and are  *)
(* left out.  ConnectedAt is set where an entry is made, so the IsZero     *)
(* branches of the code never run.                                         *)
(***************************************************************************)
EXTENDS Integers, FiniteSets, Functions

CONSTANTS
  Index, Addr,
  Timeout,       \* 45 seconds, of StartCleanupTimer
  RecentTraffic, \* 90 seconds, of SyncPeerStatus
  RelayTimeout,  \* 3 minutes, of the ticker in StartWithStatsServer
  MaxActive      \* bound on ActiveSessions, with room for every entry

ASSUME StatsAssumption ==
  /\ IsFiniteSet(Index)
  /\ {Timeout, RecentTraffic, RelayTimeout, MaxActive} \subseteq Nat
ASSUME ActiveAssumption == Cardinality(Index) <= MaxActive

VARIABLES
  entries,        \* VPNStats.Peers
  endpointMap,    \* address -> index
  activeSessions,
  ticker,         \* what the background goroutine calls next
  crashed         \* a panic has ended the process

statsVars == <<entries, endpointMap, activeSessions, ticker, crashed>>

MaxAge == 1 + CHOOSE m \in {2 * Timeout, 2 * RelayTimeout, RecentTraffic} :
                \A n \in {2 * Timeout, 2 * RelayTimeout, RecentTraffic} : n <= m
Now    == Cardinality(Index) + 1

Status == {"handshaking", "connected", "disconnected"}
Entry  == [addr : Addr, status : Status, connectedAt : 1 .. Now,
           age : 0 .. MaxAge, traffic : BOOLEAN]

StatsTypeOK ==
  /\ DOMAIN entries \subseteq Index
  /\ entries \in [DOMAIN entries -> Entry]
  /\ DOMAIN endpointMap \subseteq Addr
  /\ endpointMap \in [DOMAIN endpointMap -> Index]
  /\ activeSessions \in 0 .. MaxActive
  /\ ticker \in {"sync", "cleanup"}
  /\ crashed \in BOOLEAN

StatsInit ==
  /\ entries = [i \in {} |-> i]
  /\ endpointMap = [a \in {} |-> a]
  /\ activeSessions = 0
  /\ ticker = "sync"
  /\ crashed = FALSE

-----------------------------------------------------------------------------
(* Helpers *)

Assign(f, k, v) == [x \in DOMAIN f \cup {k} |-> IF x = k THEN v ELSE f[x]]

NewEntry(a, status, traffic) ==
  [addr |-> a, status |-> status, connectedAt |-> Now, age |-> 0,
   traffic |-> traffic]

\* An entry sees traffic: a handshaking one counts as connected from now on.
Active(e) ==
  [e EXCEPT !.age = 0, !.traffic = TRUE,
            !.status = IF @ = "handshaking" THEN "connected" ELSE @]

With(es, status) == {i \in DOMAIN es : es[i].status = status}

\* The number the dashboard and the JSON API show.
ConnectedPeers(es) == Cardinality(With(es, "connected"))

\* Mutant: the decrement is not guarded.
DecreasedUnguarded(n) == activeSessions - n

\* ActiveSessions is unsigned, and never decremented below zero.
Decreased(n) == IF activeSessions > n THEN activeSessions - n ELSE 0

Increase(n) ==
  activeSessions' = activeSessions + n /\ activeSessions' <= MaxActive

-----------------------------------------------------------------------------
(* Calls of the packet handlers and of the exchange table *)

LogHandshakeInitiated(i, a) ==
  /\ ~crashed
  /\ entries' = Assign(entries, i,
       IF i \in DOMAIN entries
       THEN [entries[i] EXCEPT !.status = "handshaking", !.addr = a, !.age = 0]
       ELSE NewEntry(a, "handshaking", FALSE))
  /\ endpointMap' = Assign(endpointMap, a, i)
  /\ UNCHANGED <<activeSessions, ticker, crashed>>

LogHandshakeCompleted(s, r) ==
  /\ ~crashed
  /\ Increase(1)
  /\ entries' = [i \in DOMAIN entries |->
       IF i \in {s, r} THEN [entries[i] EXCEPT !.status = "connected", !.age = 0]
                       ELSE entries[i]]
  /\ UNCHANGED <<endpointMap, ticker, crashed>>

\* The sender has an entry.
LogDataTransferKnown(s, r, a) ==
  /\ ~crashed
  /\ s \in DOMAIN entries
  /\ entries' = [i \in DOMAIN entries |->
       IF i = s THEN [Active(entries[i]) EXCEPT !.addr = a]
       ELSE IF i = r THEN Active(entries[i]) ELSE entries[i]]
  /\ endpointMap' = Assign(endpointMap, a, s)
  /\ Increase(Cardinality({s, r} \cap With(entries, "handshaking")))
  /\ UNCHANGED <<ticker, crashed>>

OwnerOf(a) == IF a \in DOMAIN endpointMap THEN {endpointMap[a]} ELSE {}

\* Another index has the address: its entry, address and all, becomes the
\* sender's.  The method returns here, before it comes to the receiver.
LogDataTransferTakeOver(s, a) ==
  /\ ~crashed
  /\ s \notin DOMAIN entries
  /\ \E old \in OwnerOf(a) \cap DOMAIN entries :
       /\ entries' = Assign(Restrict(entries, DOMAIN entries \ {old}),
                            s, Active(entries[old]))
       /\ Increase(Cardinality({old} \cap With(entries, "handshaking")))
  /\ endpointMap' = Assign(endpointMap, a, s)
  /\ UNCHANGED <<ticker, crashed>>

LogDataTransferNew(s, r, a) ==
  /\ ~crashed
  /\ s \notin DOMAIN entries
  /\ OwnerOf(a) \cap DOMAIN entries = {}
  /\ entries' = Assign([i \in DOMAIN entries |->
                          IF i = r THEN Active(entries[i]) ELSE entries[i]],
                       s, NewEntry(a, "connected", TRUE))
  /\ endpointMap' = Assign(endpointMap, a, s)
  /\ Increase(1 + Cardinality({r} \cap With(entries, "handshaking")))
  /\ UNCHANGED <<ticker, crashed>>

LogDataTransfer(s, r, a) ==
  \/ LogDataTransferKnown(s, r, a)
  \/ LogDataTransferTakeOver(s, a)
  \/ LogDataTransferNew(s, r, a)

\* The address leaves the map whoever owns it.  (Without an entry the call
\* changes nothing.)
LogPeerDisconnected(i) ==
  /\ ~crashed
  /\ i \in DOMAIN entries
  /\ entries' = [entries EXCEPT ![i].status = "disconnected"]
  /\ activeSessions' = Decreased(Cardinality({i} \cap With(entries, "connected")))
  /\ endpointMap' = Restrict(endpointMap, DOMAIN endpointMap \ {entries[i].addr})
  /\ UNCHANGED <<ticker, crashed>>

-----------------------------------------------------------------------------
(* The background work *)

\* Mutant: only disconnected entries are ever dropped.
GoneKeepingHandshakes(t) ==
  {i \in DOMAIN entries : entries[i].status # "handshaking" /\ entries[i].age > 2 * t}

\* Entries idle for twice the timeout; connected ones have just been marked.
Gone(t) == {i \in DOMAIN entries : entries[i].age > 2 * t}

CleanupExpiredPeers(t) ==
  LET idle == {i \in With(entries, "connected") : entries[i].age > t} IN
  /\ entries' = [i \in DOMAIN entries \ Gone(t) |->
       IF i \in idle THEN [entries[i] EXCEPT !.status = "disconnected"]
                     ELSE entries[i]]
  /\ activeSessions' = Decreased(Cardinality(idle))
  /\ endpointMap' = Restrict(endpointMap,
       DOMAIN endpointMap \ {entries[i].addr : i \in Gone(t)})
  /\ UNCHANGED crashed

\* Mutant: the former criterion, total bytes, decides.
MayReplaceByTraffic(c, e) == c.traffic \/ ~e.traffic

\* Two entries of one address: the later one to be visited, c, may replace
\* the earlier one, e.  Equal times are decided by the byte counts; if
\* neither is zero, either may be the larger.
MayReplace(c, e) ==
  \/ c.connectedAt > e.connectedAt
  \/ c.connectedAt = e.connectedAt /\ (c.traffic \/ ~e.traffic)

MayKeep(c, e) ==
  \/ c.connectedAt < e.connectedAt
  \/ c.connectedAt = e.connectedAt /\ e.traffic

\* The entries after the first loop of SyncPeerStatus.
Corrected ==
  [i \in DOMAIN entries |->
     IF /\ entries[i].status = "handshaking"
        /\ entries[i].traffic
        /\ entries[i].age < RecentTraffic
     THEN [entries[i] EXCEPT !.status = "connected"]
     ELSE entries[i]]

AddrsIn(es)  == {es[i].addr : i \in DOMAIN es}
At(es, a)    == {i \in DOMAIN es : es[i].addr = a}

\* k is left at its address.  The map is visited in any order, and the
\* second loop compares every later entry with the first one visited: either
\* k came first and nothing replaced it, or k came last and replaced it.
Survives(es, k) ==
  LET others == At(es, es[k].addr) \ {k} IN
  \/ \A i \in others : MayKeep(es[i], es[k])
  \/ \E f \in others : /\ MayReplace(es[k], es[f])
                       /\ \A i \in others \ {f} : MayKeep(es[i], es[f])

\* Mutant: the count to repair is left as it is.
RepairedUp(kept) ==
  IF activeSessions > ConnectedPeers(kept) THEN activeSessions ELSE ConnectedPeers(kept)

\* ActiveSessions is set to the number of connected entries, and decreased
\* for each one the second loop removes.
Repaired(kept) == ConnectedPeers(kept)

SyncPeerStatus ==
  \E keeper \in [AddrsIn(Corrected) -> DOMAIN entries] :
    LET kept == Restrict(Corrected, {keeper[a] : a \in DOMAIN keeper}) IN
    /\ \A a \in DOMAIN keeper : /\ Corrected[keeper[a]].addr = a
                                /\ Survives(Corrected, keeper[a])
    /\ entries' = kept
    /\ activeSessions' = Repaired(kept)
    /\ endpointMap' =
         [a \in DOMAIN endpointMap \cup
                {b \in DOMAIN keeper : Cardinality(At(Corrected, b)) > 1} |->
            IF a \in DOMAIN keeper /\ Cardinality(At(Corrected, a)) > 1
            THEN keeper[a] ELSE endpointMap[a]]
    /\ UNCHANGED crashed

\* Once an entry has replaced the first one visited, addressMap still names
\* the deleted one: the next entry of that address dereferences nil.
SyncPeerStatusPanics ==
  /\ \E f \in DOMAIN Corrected :
       LET others == At(Corrected, Corrected[f].addr) \ {f} IN
       /\ Cardinality(others) > 1
       /\ \E i \in others : MayReplace(Corrected[i], Corrected[f])
  /\ crashed' = TRUE
  /\ UNCHANGED <<entries, endpointMap, activeSessions, ticker>>

Ticker ==
  /\ ~crashed
  /\ \/ ticker = "sync" /\ SyncPeerStatus /\ ticker' = "cleanup"
     \/ ticker = "sync" /\ SyncPeerStatusPanics
     \/ ticker = "cleanup" /\ CleanupExpiredPeers(Timeout) /\ ticker' = "sync"

\* The goroutine of StartWithStatsServer.
RelayTicker == ~crashed /\ CleanupExpiredPeers(RelayTimeout) /\ UNCHANGED ticker

-----------------------------------------------------------------------------
(* Time *)

Earlier(i) == {entries[j].connectedAt :
                 j \in {k \in DOMAIN entries :
                          entries[k].connectedAt <= entries[i].connectedAt}}

TimePasses ==
  /\ ~crashed
  /\ entries' = [i \in DOMAIN entries |->
       [entries[i] EXCEPT !.age = IF @ < MaxAge THEN @ + 1 ELSE @,
                          !.connectedAt = Cardinality(Earlier(i))]]
  /\ UNCHANGED <<endpointMap, activeSessions, ticker, crashed>>

StatsNext ==
  \/ \E i \in Index, a \in Addr : LogHandshakeInitiated(i, a)
  \/ \E s, r \in Index : LogHandshakeCompleted(s, r)
  \/ \E s, r \in Index, a \in Addr : LogDataTransfer(s, r, a)
  \/ \E i \in Index : LogPeerDisconnected(i)
  \/ Ticker \/ RelayTicker
  \/ TimePasses

StatsSpec == StatsInit /\ [][StatsNext]_statsVars

\* Time passes and the background goroutine keeps running; nobody is obliged
\* to send packets.
StatsFairSpec == StatsSpec /\ WF_statsVars(Ticker) /\ WF_statsVars(TimePasses)

-----------------------------------------------------------------------------
(* Properties *)

\* A synchronisation that ends leaves one entry for each address, one that
\* was connected no earlier than any other of that address, in whatever
\* order the map was visited.
DuplicatesResolved ==
  [][~crashed' /\ ticker = "sync" /\ ticker' = "cleanup" =>
       /\ AddrsIn(entries') = AddrsIn(entries)
       /\ \A i, j \in DOMAIN entries' : entries'[i].addr = entries'[j].addr => i = j
       /\ \A i \in DOMAIN entries' : \A j \in At(entries, entries'[i].addr) :
            entries[j].connectedAt <= entries'[i].connectedAt]_statsVars

\* However far ActiveSessions has drifted from the number of connected
\* entries (an index that starts a new handshake, a completion without
\* entries), it comes back to it.
DriftRepaired ==
  activeSessions # ConnectedPeers(entries) ~>
    crashed \/ activeSessions = ConnectedPeers(entries)

\* README.md:15, "automatically expires stale peer sessions": an entry that
\* no call touches any more is removed, whatever its status.  How soon is not
\* said here.
StaleEntriesLeave ==
  \A i \in Index :
    (i \in DOMAIN entries /\ entries[i].age > 0) ~>
      crashed \/ i \notin DOMAIN entries \/ entries[i].age = 0

\* README.md:216, "Duplicates [...] are resolved": no set of entries makes
\* the synchronisation end the process.
NeverCrashes == ~crashed

\* stats.go:204 and 207: every data packet renews its receiver's entry.
\* (A data packet is the only call that gives an entry traffic.)
ReceiverRenewed ==
  [][\A s, r \in Index, a \in Addr :
       LogDataTransfer(s, r, a) /\ r \in DOMAIN entries' => entries'[r].age = 0]_statsVars

\* README.md:216, "evicted [...] to prevent memory leaks": when all entries
\* are gone, no address is kept.
NoAddressLeft == entries = [i \in {} |-> i] => DOMAIN endpointMap = {}
=============================================================================
