# wpex: TLA+ specifications and proofs

`wpex` relays WireGuard packets between clients that cannot reach each other.
It cannot decrypt anything: it learns from the plain-text message types and
indices which UDP address stands behind which index and which two indices form
a session. This directory specifies that state and the concurrent code that
changes it, puts the relay between WireGuard clients and a network with faults,
model-checks all of this with TLC and proves with TLAPS, for every size of
the system, every safety property that the passing runs check. Paths below are relative to the repository.

## 1. The system

| Part | Source | State it keeps | Operations |
|---|---|---|---|
| Exchange table | `internal/exchange/exchange.go` | `endpoints` (address → reference count, deadline), `peers` (index → endpoint, session, deadline), `peerPubkeys` (index → key) | AddPeerAddr, UpdatePeerAddr, AssociatePeers, SetPeerPubkey, EvictSessionsByRemovedKeys, EvictAllSessions; the readers GetPeerAddr, GetPeerCounterpart, ListAddrs, Contains; the lazy `cleanup` within the first three |
| Packet analyzer | `internal/analyzer/analyzer.go` | none of its own; the locals of each call | one handler per message type, UpdateAllowedKeys |
| MAC checker | `internal/analyzer/checker.go` | the list of allowed keys, a cookie secret | RequireCheck, MatchPubkey, VerifyMac2, CreateReply, UpdatePubkeys |
| Statistics | `internal/stats/stats.go` | `Peers`, `EndpointMap`, `ActiveSessions`, running totals | LogHandshakeInitiated, LogHandshakeCompleted, LogDataTransfer, LogPeerDisconnected, CleanupExpiredPeers, SyncPeerStatus, the five-second ticker |
| Relay workers | `internal/relay/relay.go` | one buffer per goroutine, a rate limiter | read, analyse, send; a ticker that logs and cleans the statistics |
| HTTP server | `internal/stats/http.go`, `http_api.go`, `http_debug.go` | none | formats a copy of the statistics; the reload request; ping and traceroute |
| Command line | `wpex.go` | none | parses flags, starts the relay |

How they interact. One goroutine per CPU reads packets and calls the analyzer.
A handler makes up to five calls of the checker, the table and the statistics,
each under its own lock and none spanning two. HTTP handlers run in goroutines
of `net/http`; the reload request calls `UpdateAllowedKeys`, that is, the
checker and then the table. The table reports every peer it drops to the
statistics through a callback, holding its own lock. Two tickers clean the
statistics.

What is hard here:

- interleavings of several handlers, and of handlers with a reload, between any
  two of their calls (`analyzer.go:41-84`, `93-122`, `151-198`, `272-274`);
- lazy expiry: entries are dead for the readers long before a writer happens to
  remove them and release their endpoints (`exchange.go:83-110`);
- two records of one fact: the two ends of a session, the count of an endpoint
  and its users, `ActiveSessions` and the connected entries, `EndpointMap` and
  the addresses of the entries;
- a network that loses, repeats and reorders, clients that retry and roam, and
  a limiter that refuses part of a broadcast (`relay.go:40-46`);
- deletion from a map while it is iterated in random order (`stats.go:462-522`).

What makes each part correct:

- table: sessions have two ends that expire together; a peer's endpoint stays
  as long as the peer; a session is not rebound; everything expires;
- analyzer and reload: after a reload no peer of a removed key stays, none of a
  kept key leaves;
- statistics: the count follows the entries, duplicates resolve to the newest
  entry, stale entries and their addresses leave, nothing crashes;
- relay: clients that keep trying come to have a session, in spite of lost,
  repeated and refused packets; what is sent to an index reaches its owner; a
  handshake is counted as a success once.

## 2. Modules

| Module | Models | Correspondence |
|---|---|---|
| `ExchangeTable` | `exchange.go` | Every method holds the table's lock for its whole body, so each writing method is one action, its error return a second one (`...Fails`, which still cleans up), and each reader an operator. `CleanedPeers` and `CleanedEndpoints` are the two loops of `cleanup`, and part of every action that calls it. |
| `SessionTable` | what the table promises its callers | Partial functions without counts, deadlines or garbage; `Expire` lets any whole sessions, and any unused addresses, go at any time. |
| `ExchangeTableRefinement` | the refinement mapping | An index exists if its deadline has not passed (`AddrOf`, `SessionOf`), an address if `Contains` says so (`Known`). |
| `WireguardAnalyzer` | `analyzer.go`, `checker.go`, the loop of `relay.go`, the reload of `http_api.go` | A `pc` for every worker names the call it makes next; one action per call. A reloader is an HTTP request between its two calls. It uses `SessionTable`, which `ExchangeTable` implements. |
| `Relay` | `relay.go`, the cookies of `checker.go`; externally, the UDP network and WireGuard clients | Extends `WireguardAnalyzer`: `ReadFromUDP` gives a packet in flight to a worker, `Analyse` is the next step of its handler, sends what the handler returns (`Peers`) and asks the limiter where several are to get it. `dest` is the address a handler has read and will return later. |
| `VPNStats` | `stats.go`, the cleanup ticker of `relay.go` | One action per method (the mutex is held throughout); `LogDataTransfer` is split by the three cases of its sender. `Ticker` is the background goroutine: synchronise, then clean up. `RelayTicker` is the second one, which cleans up with a longer timeout at any moment. |
| `MCExchangeTable`, `MCWireguardAnalyzer`, `MCRelay`, `MCVPNStats` | - | model values, packets, clients and symmetry sets |
| `ExchangeTableProofs`, `ExchangeTableRefinementProofs`, `WireguardAnalyzerProofs`, `RelayProofs`, `VPNStatsProofs` | - | lemmas and theorems about the module each is named for (section 5) |

A definition called a mutant in its comment is a plausible bug of the code; it
is used by nothing and is there to show that a property notices it
(`PROJECT.json`, `mutants`).

Abstractions:

- **Time.** A deadline is the time left until it, and an age the time since the
  last sign of life. `Tick` and `TimePasses` move all of them; both are bounded
  where nothing distinguishes later values (`Past`, `MaxAge`). `ConnectedAt`,
  which the code only compares, is a rank.
- **Pointers.** A peer points at an endpoint object; the model has its address.
  That is exact because the object of every peer is the one in the map, which
  is `RefsCoverPeers`, checked and proved: an object a peer points at is never
  dropped, so never replaced by another one for the same address.
- **MACs.** A packet names the key of its `mac1` and says whether `mac2`
  answers the relay's cookie. What the relay sends is state only in `Relay`.
- **Network and clients.** In `WireguardAnalyzer` any packet can come at any
  time, which is right for safety and leaves nothing to be said about progress
  or routing. In `Relay` packets are those the clients send. A client of the
  model initiates, retries under a fresh index, answers an initiation of its
  peer, confirms a session with a first packet, answers data, keeps a cookie
  and roams: what the relay can tell apart, and no cryptography. A 32-bit
  random index is taken to be fresh (`Fresh`): collisions are left out.
  Clients want sessions in pairs (`ClientAssumption`), and `Packets` contains
  all that they may send (`ClientPackets`).
- **Order.** Packets in flight are a set: any order of delivery.
- **Expiry in Relay.** An entry lives for at least 45 seconds and a packet for
  far less, so entries leave while packets are under way (`~Quiet`) only as a
  fault, and an entry a handler has just made does not leave while that
  handler runs (`JustAdded`).
- **Statistics in the handlers.** In `WireguardAnalyzer` the calls of the
  statistics are steps that take time and change nothing modelled there;
  `Relay` adds which initiations were counted without a success so far. The
  expiry callback is left out there; in `VPNStats`, `LogPeerDisconnected` and
  the calls of the handlers come in any order, a late call after a disconnection
  included.
- **Bytes and totals.** Of the byte counts `VPNStats` keeps whether they are
  zero, the only question the code asks but for the tie of equal connection
  times, where either outcome is allowed. Totals are written and never read back.
  The `Index` field inside an entry is displayed, never read, and left out.

## 3. Runs

| Run | Instance | Shows |
|---|---|---|
| `table` | 3 indices, 2 addresses, 2 keys, symmetric | the table's invariants; what a step may do to a session, an endpoint, a deadline or a reference; `ExchangeTable` implements `SessionTable` |
| `reload` | 2 workers, 1 reload at a time, every key list, 6 packets | peers of removed keys leave and those of kept keys stay, under any interleaving |
| `relay` | 2 clients, 3 addresses, 3 indices, 2 workers, 2 faults | a session comes, again and again; routing to the owner; successes counted once |
| `stats` | 2 indices, 1 address | under fair time and ticker, the session count is repaired and stale entries leave |
| `stats_duplicates` | 3 indices, 1 address, symmetric | the type invariant, with a count that never wraps; duplicates resolve to a latest entry in every order of iteration |
| `endpoint_leak`, `reload_race`, `reload_message`, `removed_key`, `sync_crash`, `stats_receiver`, `address_leak` | as small as the disagreement allows | a property quoted from the repository that the code does not have, see section 6 |

Bounds.

- Deadlines: `HandshakeTTL = 0`, `EndpointTTL = 1`, `SessionTTL = 2` keep the
  order of 45 seconds, 3 and 12 minutes. An entry with 0 left is alive until
  the next tick, so each deadline passes separately, and endpoints outlive
  handshakes and are outlived by sessions.
- Three indices give a session and a third party that tries to break into it or
  shares an endpoint with an expired peer; two addresses give roaming to a new
  and to a shared endpoint. `MaxRefs = 3` is as many references as there are
  peers; leaked references (section 6) can reach it, and only then is a
  registration of the model suppressed.
- `reload` has one handshake: the initiation with and without a good `mac2`,
  its response, a cookie reply, and data from both sides, one of them from a
  new address. Every packet can come at any time and any number of times; two
  workers are the least that interleave. Every list, the empty one (no check)
  included, can be loaded at any time. Each index belongs to one client and
  is drawn for one handshake, as random 32-bit indices are (`OneKeyPerIndex`).
- `relay` has a client A that initiates and roams between two addresses and a
  client B at a third that answers and makes itself known by initiations of its
  own, which A does not answer. Three known addresses are the least at which a
  broadcast has several recipients, which is when the limiter is asked. Up to
  two of these, at any moments: a datagram is lost, on either side; one is
  read and stays in the network; any part of a broadcast is refused; entries
  leave early, or the address a client uses is forgotten; a client roams; its
  cookie expires. Any number of ordinary expiries, retries and whole handshakes
  come in between: only faults are bounded. The key check is on and no key is
  removed (that is run `reload`).
- Three entries at one address are the least at which the order of iteration
  matters to duplicates, and the least at which it can crash. `Timeout = 1`
  and `RecentTraffic = 2` keep the code's ratio of 45 to 90 seconds.
  `RelayTimeout` is longer than `Timeout` in run `stats`, and equal to it
  elsewhere, where only the moment of the second ticker matters.
  `MaxActive` bounds the drift of the count, with room for every entry
  (`ActiveAssumption`): the repair of the count is never suppressed, only the
  drift above it.
- Deadlock is not checked for `VPNStats`: after the crash of `sync_crash` the
  process is gone, and nothing happens any more.

Fairness. `TimedSpec`, of run `endpoint_leak`, assumes that time passes
(`WF(Tick)`) and nothing of the callers: the leak is no matter of waiting
longer. `StatsFairSpec` assumes that time passes and that the background
goroutine runs (it waits only for its ticker and for a mutex whose holders never
block). In these, no packet, reload or callback is ever assumed to come.
`RelayFairSpec` assumes that the workers run and the network delivers what it
does not lose (one weak fairness: in any state with a packet or a busy worker,
one of them is served), that a client which can retry does (WireGuard retries
every five seconds), and, strongly, that deadlines pass: an entry can leave only
between packets, which is again and again but not for ever. Roaming, losing,
doubling, refusing and early expiry are never assumed.

## 4. Properties

`ExchangeTable`: `PairingSymmetric` (two ends, one deadline), `RefsCoverPeers`
(no dangling endpoint), `LivePeersRoutable` (what can be looked up can be
reached and is broadcast to), `SessionStable` (never rebound, shortened or
extended, and removed only as a pair), `EndpointGrace` (no address in use is
dropped), and the refinement `ImplementsSessionTable`. `EntriesRunOut` says that
the time an entry can still have, a future link included, never grows and
shrinks with every unit that passes: no entry lives forever, whatever its
callers do, and there is a bound, which a liveness property would not have.
`EvictionAloneLeaks` compares, over every step, the references of an endpoint
with the peers that use it: only the eviction by removed keys, the code of
run `endpoint_leak`, sets them apart.

`WireguardAnalyzer`: `RemovedKeysLeave` rests on the order "swap, then evict",
and names the one exception the code has: a handler that matched a key before
the swap and registers its peer after it (`late`). Nothing in the code looks at
such an entry again before the next reload; it goes when its time is up.
`ZeroDowntime` is the promise of `analyzer.go:271` and `exchange.go:267`. It
holds if reload requests do not overlap. The repository also says the opposite,
in the answer to the request (`http_api.go:275`) and in the comment of
`EvictAllSessions` (`exchange.go:315`): that is `AllSessionsEvicted`, which the
code does not have. `ZeroDowntime` is kept as the property because the code and
the comments at it agree.

`Relay`: `SessionComes`, that again and again the two clients have a session the
relay pairs as they do and that has carried data. It takes the cookie exchange
for an unknown address, a broadcast that reaches the peer, a response that
associates, the packet with which the initiator confirms the session reaching
the responder (data the other way is in the model but not asked for), and
recovery from every state the faults leave behind, such as a response registered
without its session.
`SuccessCountedOnce` relates the handler of a response to the handler of its
initiation, which may still be at work. `RoutedToOwner` is about a handler that
reads two addresses and moves a third, each under its own lock.

`VPNStats`: `DuplicatesResolved`, `DriftRepaired`, `StaleEntriesLeave`. The last
two say that something happens, not how soon.

The type invariants also say that counts are not negative and that sessions
name indices that exist.

## 5. Proofs

Five modules hold the theorems. They are about any number of indices,
addresses, keys, workers, reloads, clients and faults; a hypothesis is named
where a theorem has one. Constants have the assumptions of the modules that
declare them, which TLC evaluates on every run.

| Module | Theorem | States |
|---|---|---|
| `ExchangeTableProofs` | `Invariance` | `Spec => []IInv` |
| | `TypeCorrect`, `SessionsPaired`, `ReferencesCover`, `Routable` | the four invariants of run `table` |
| | `SessionsStable`, `EndpointsHaveGrace`, `LifetimesShrink`, `LeaksAreEvictions` | its action properties: `SessionStable`, `EndpointGrace`, `EntriesRunOut`, `EvictionAloneLeaks` |
| `ExchangeTableRefinementProofs` | `Refinement` | `Spec => ImplementsSessionTable` |
| `WireguardAnalyzerProofs` | `Invariance`, `TypeCorrect` | `IInv`, `TypeOK` |
| | `UsesSessionTable` | `Spec => Table!Spec` |
| | `RemovedKeysGone` | `RemovedKeysLeave`, if every index is drawn for one key (`OneKeyPerIndex`) |
| | `OnlyOvertakenReloadsEvict` | a session of keys on the current list is evicted only by a reload that another has overtaken |
| | `RunningSessionsSurvive` | `ZeroDowntime`, if reloads come one at a time |
| `RelayProofs` | `RelayInvariance`, `RelayTypeCorrect` | `RelayInv`, `RelayTypeOK` |
| | `ImplementsAnalyzer` | `RelaySpec => Spec` |
| | `RoutedToItsOwner`, `SuccessesCountedOnce` | the two safety properties of run `relay` |
| `VPNStatsProofs` | `TypeCorrect`, `DuplicatesGo` | the two properties of run `stats_duplicates` |

Two hypotheses are not assumptions of a module. `OneKeyPerIndex` is what random
32-bit indices give: a recorded key outlives its index, and would decide over
the next peer that draws it (the packets of run `reload` satisfy it, see
`IndicesAssumption`). One reload at a time is needed for `ZeroDowntime`: run
`reload_race` shows what two can do, and `OnlyOvertakenReloadsEvict` that this
is the only thing that can go wrong.

**The table.** `IInv` is the type invariant, `PairingSymmetric`, and `Covered`:
every endpoint is counted at least once per peer at its address, and every
peer's address is in the map. None of these is inductive alone. Removing an
expired peer releases one reference of its endpoint, which leaves the others
covered only if the count was at least the number of *all* users, expired ones
included. Expired ends leave in pairs only because both have one deadline.
Releasing what is counted keeps the count natural, so the type needs `Covered`.
The writers first clean up and then change the clean tables. Lemmas are
therefore about any pair of tables (`Typed`, `Covered`, `Paired`):
`CleanTables` says cleanup keeps all three, `RefKeepsTables` and
`ReleaseKeepsTables` that a peer which comes with one reference, or leaves with
one release, does, and every method is a combination of these. Users are
counted with the cardinality facts of `FiniteSetTheorems`, which is where
finiteness of `Index` is needed. `Routable` and the action properties follow
from `IInv`: `CleanupGrace` shows that `cleanup` drops no endpoint that had a
user before it, because the last user's departure renews the deadline within
the same call. `LeaksAreEvictions` follows the `Surplus` of an endpoint, its count
less its users, through the same pairs of tables: cleanup, a peer that comes and
a peer that leaves keep it (`CleanupKeepsSurplus`, `RefKeepsSurplus`,
`ReleaseKeepsSurplus`), and roaming is a peer that leaves and comes back
elsewhere. An endpoint that cleanup removes has no surplus, since it has neither
references nor users; a count that went below zero, or a user outside the map,
would break this, which is where `IInv` is needed.

**Its refinement.** `CleanupUnseen` is the heart: a reader cannot tell whether
`cleanup` has run, since it removes the peers whose deadlines have passed and
exactly the endpoints that `Contains` denied. An endpoint that loses its last
user within the call was known and stays known; one that was denied has no
users left to lose, which is `Covered` again. Every method is then one abstract
step on what cleanup leaves, an error return none or an `Expire`, and a tick an
`Expire` of whole sessions, by pairing.

**The analyzer.** `TypeOK` is not inductive: sessions stay within the table
only because both ends name each other (`Mutual`), and a recorded key is a key
only because a handler's `matched` is the key of its packet, and present when
there is one to record (`Keyed`). `RemovedKeysGone` needs `ReloadInv`: the
table has been evicted by the current list (`Evicted`), or the eviction by that
very list is still to come (`Pending`). The last swap decides, however many
reloads overlap, because its own eviction is then pending. A handler that
registers in between adds an index that is allowed or `late`; that a key left
behind by an earlier entry of its index is its own key too is `KeysMatch`.
`UsesSessionTable` and `Refinement` close the gap between the modules: the
analyzer relies on the abstract table alone, and the code's table implements it.

**The relay.** `ImplementsAnalyzer` carries over what is proved of the
analyzer; for it, clients must send only members of `Packets`, which is part of
`RelayInv`. The rest of `RelayInv` says who owns what: of every packet in
flight (`Sent`), datagram (`Forwarded`), entry and session (`OwnedTable`), end
a client believes in (`ClientInv`), and of the locals of every handler
(`OwnedHandlers`), that addresses and counterparts belong to the client that
drew the index. The last is what makes stale reads harmless: a handler's
address may be one its owner has left, but it is never another client's,
whatever happened to the entry since. That data confirms only what was
agreed takes clients that want each other's sessions, in pairs.

`SuccessesCountedOnce` relates two handlers. `CountInv` adds to `RelayInv` that
one handler at a time answers with an index (the index stays taken until it is
done: the one use of "an entry just made does not leave", `JustAdded`), that
this index is single until it is linked and then linked to the receiver, and
that an initiation in the table without a session has been counted or is held
by a handler that is going to count it.

**The statistics.** The type invariant is inductive as it is; its work is in
the ranks of connection times and in counting, which never leaves the bounds. `SyncResolves` characterises
what any order of iteration leaves behind: one entry for each address, and
none was connected later.

Where an attempt failed for good, the model was at fault. The alternatives of
`AfterAdd` overlapped for a response with a matched key, of which TLC had always
taken the first; the code has no such choice, and now neither has the model.
`Packets` could hold a handshake message without a sender, which the code cannot
parse (`PacketsAssumption`), and a client could answer one that wants a session
with a third (`ClientAssumption`).

Model-checked only:

- `SessionComes`, `DriftRepaired`, `StaleEntriesLeave`: liveness under fairness,
  which is out of the prover's reach;
- the seven disagreements of section 6, each a counterexample of a run.

Nothing here needs induction over data, and no module has a recursive operator.

## 6. Disagreements found

Each is a run that ends in a counterexample, listed under `findings`.

- `endpoint_leak`. `EvictSessionsByRemovedKeys` deletes peers without
  `derefEndpoint` (`exchange.go:302-306`). The reference stays for ever, so the
  address is kept, passes `Contains` and gets every broadcast, against the
  three minutes of `exchange.go:15`. `LeaksAreEvictions` proves that no other
  method loses a reference.
- `reload_race`. Two reloads at once can run swap K1, swap K2, evict by K1:
  a peer K2 allows is evicted, against `analyzer.go:271`.
- `reload_message`. A reload leaves the sessions of allowed keys alone
  (`exchange.go:289`), and its answer says "All sessions evicted — valid peers
  will re-handshake automatically" (`http_api.go:275`). `EvictAllSessions`, which
  would do that and is "used after a key-list update" (`exchange.go:315`), has no
  caller.
- `removed_key`. `analyseHandshakeResponse` matches a key and does not record
  it (`analyzer.go:94`): an initiation carries a MAC under its *recipient's*
  key and a response one under the initiator's, so removing the initiator's
  key evicts nothing, against `analyzer.go:275`.
- `sync_crash`. With three entries of one address `SyncPeerStatus` can
  dereference nil (`stats.go:469-475`). One client that initiates handshakes
  with three peers from its one socket between two ticks is enough: three
  indices, one address, visited in the order they came.
- `stats_receiver`. The return at `stats.go:183` skips the receiver, against
  the comment at line 204.
- `address_leak`. `EndpointMap` keeps the addresses a peer roamed away from
  after its entry is gone, against `README.md:216`.

Read, and not a run: `README.md:216` has stale peers "evicted" after 45 seconds
without activity. `CleanupExpiredPeers` only marks a connected entry disconnected
then, and removes it after twice that time (`stats.go:373`).
`StaleEntriesLeave` has no bound and says nothing of the difference.

## 7. Not modelled

Packet lengths, index decoding, cryptography, logging, HTML and JSON output,
ping and traceroute, sockets and flags: they change no state of the relay. The
requests other than a reload read a copy of the statistics. Of the running
totals only handshakes begun and completed are modelled (`counted`).

Table and statistics are not composed through the expiry callback: `VPNStats`
allows its calls in any order instead. Indices drawn twice by chance, and the
growth of `peerPubkeys`, are not modelled.

`Quiet` and `JustAdded` are assumptions on the environment, no rules of the code:
the code lets a session of twelve minutes end amid its traffic, and run `relay`
has that only as one of the two faults. Without the limit it has 936 thousand
states, too many for its liveness property. In that run a client also starts
again only when its old initiation index has left the table; a retry beside the
old registration needs a second index (1.8 million states with one fault).

Data does not turn a disconnected
entry into a connected one (`stats.go:144`): the model has this, and no
document says otherwise.

## 8. Plan

1. Done: the table, its abstraction and refinement, the reload among concurrent
   handlers, the relay between clients over a network with faults, the
   statistics with both tickers.
2. Done: proofs of every safety property of the passing runs, of both
   refinements, and of what `endpoint_leak` and `reload_race` need in order to
   happen: an eviction by removed keys, and a reload overtaken by another.
3. Proofs to come: the symmetry of the abstract `SessionTable` on its own; the
   safety half of `DriftRepaired` and of `StaleEntriesLeave` (which steps can
   bring the count away from the entries, and that only callers renew one).
4. The composition of table and statistics through the callback, to relate
   entries to peers of the table.
