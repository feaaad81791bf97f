----------------------- MODULE WireguardAnalyzerProofs -----------------------
(***************************************************************************)
(* Proofs about WireguardAnalyzer for every value of its constants: any    *)
(* number of goroutines, of reloads in progress at once, of indices, keys  *)
(* and packets.                                                            *)
(***************************************************************************)
EXTENDS WireguardAnalyzer, TLAPS

(* The inductive invariant, in three parts.                                *)

TableTyped ==
  /\ addrOf \in [DOMAIN addrOf -> Addr] /\ DOMAIN addrOf \subseteq Index
  /\ session = [i \in DOMAIN session |-> session[i]]
  /\ DOMAIN session \subseteq DOMAIN addrOf
  /\ known \subseteq Addr
  /\ keyOf \in [DOMAIN keyOf -> Key] /\ DOMAIN keyOf \subseteq Index

\* TypeOK alone is not inductive: that the other end of a session does not
\* leave on its own takes the two ends to name each other.
Mutual ==
  \A i \in DOMAIN session : session[i] \in DOMAIN session /\ session[session[i]] = i

HistoryTyped ==
  /\ admitted \in [DOMAIN addrOf -> Key \cup {NoKey}]
  /\ late \subseteq DOMAIN addrOf

ControlTyped ==
  /\ allowed \subseteq Key
  /\ reload \in [Reloader -> SUBSET Key]
  /\ reloading \subseteq Reloader

\* Nor is a handler's key one of the allowed type by itself: it is the key of
\* the packet at hand, and only handlers that matched one record it.
Keyed(w) ==
  /\ pc[w] = "idle" => matched[w] = NoKey
  /\ pc[w] # "idle" => pkt[w] \in Packets /\ matched[w] \in {NoKey, pkt[w].key}
  /\ pc[w] = "record" => matched[w] # NoKey

LocalsTyped ==
  /\ pc \in [Worker -> Steps]
  /\ pkt \in [Worker -> Packets \cup {NoPacket}]
  /\ matched \in [Worker -> Key \cup {NoKey}]
  /\ mate \in [Worker -> Index \cup {NoIndex}]
  /\ \A w \in Worker : Keyed(w)

TableInv == TableTyped /\ Mutual /\ HistoryTyped

IInv == TableInv /\ ControlTyped /\ LocalsTyped

-----------------------------------------------------------------------------
(* The steps of the exchange table *)

\* A new index is single, and enters with the key that admitted it.
LEMMA RegisterKeeps ==
  ASSUME TableInv, NEW i \in Index, NEW a \in Addr, NEW k \in Key \cup {NoKey},
         Table!Register(i, a),
         admitted' = Table!Bind(admitted, i, k),
         late' \subseteq late \cup {i}
  PROVE  TableInv' /\ DOMAIN addrOf' = DOMAIN addrOf \cup {i}
<1>1. /\ addrOf' = Table!Bind(addrOf, i, a)
      /\ known' = known \cup {a}
      /\ session' = session /\ keyOf' = keyOf
  BY DEF Table!Register
<1>2. DOMAIN addrOf' = DOMAIN addrOf \cup {i} /\ addrOf' \in [DOMAIN addrOf' -> Addr]
  BY <1>1 DEF TableInv, TableTyped, Table!Bind
<1>3. admitted' \in [DOMAIN addrOf' -> Key \cup {NoKey}]
  BY <1>2 DEF TableInv, HistoryTyped, Table!Bind
<1>4. late' \subseteq DOMAIN addrOf'
  BY <1>2 DEF TableInv, HistoryTyped
<1> QED
  BY <1>1, <1>2, <1>3, <1>4 DEF TableInv, TableTyped, Mutual, HistoryTyped

\* A move changes an address and nothing else.
LEMMA MoveKeeps ==
  ASSUME TableInv, NEW i, NEW a \in Addr, Table!Move(i, a), UNCHANGED history
  PROVE  TableInv' /\ DOMAIN addrOf' = DOMAIN addrOf
<1>1. /\ i \in DOMAIN addrOf
      /\ addrOf' = [addrOf EXCEPT ![i] = a]
      /\ known' = known \cup {a}
      /\ session' = session /\ keyOf' = keyOf
  BY DEF Table!Move
<1>2. DOMAIN addrOf' = DOMAIN addrOf /\ addrOf' \in [DOMAIN addrOf' -> Addr]
  BY <1>1 DEF TableInv, TableTyped
<1> QED
  BY <1>1, <1>2 DEF TableInv, TableTyped, Mutual, HistoryTyped, history

\* Two single indices, or one twice, come to name each other.
LEMMA LinkKeeps ==
  ASSUME TableInv, NEW s, NEW r, Table!Link(s, r), UNCHANGED history
  PROVE  TableInv'
<1>1. /\ {s, r} \subseteq DOMAIN addrOf
      /\ s \notin DOMAIN session /\ r \notin DOMAIN session
      /\ session' = Table!Bind(Table!Bind(session, s, r), r, s)
      /\ addrOf' = addrOf /\ known' = known /\ keyOf' = keyOf
  BY DEF Table!Link, Table!Single
<1>2. /\ DOMAIN session' = DOMAIN session \cup {s, r}
      /\ session'[r] = s /\ session'[s] = r
      /\ \A i \in DOMAIN session : session'[i] = session[i]
      /\ session' = [i \in DOMAIN session' |-> session'[i]]
  BY <1>1 DEF Table!Bind
<1>3. Mutual'
  BY <1>1, <1>2 DEF TableInv, Mutual
<1> QED
  BY <1>1, <1>2, <1>3 DEF TableInv, TableTyped, HistoryTyped, history

\* A recorded key is one a packet was matched with.
LEMMA RecordKeeps ==
  ASSUME TableInv, NEW i \in Index, NEW k \in Key, Table!Record(i, k),
         admitted' = admitted, late' \subseteq late \cup (DOMAIN addrOf \cap {i})
  PROVE  TableInv'
<1>1. /\ keyOf' = Table!Bind(keyOf, i, k)
      /\ addrOf' = addrOf /\ session' = session /\ known' = known
  BY DEF Table!Record
<1>2. keyOf' \in [DOMAIN keyOf' -> Key] /\ DOMAIN keyOf' \subseteq Index
  BY <1>1 DEF TableInv, TableTyped, Table!Bind
<1> QED
  BY <1>1, <1>2 DEF TableInv, TableTyped, Mutual, HistoryTyped

\* Indices leave: as both ends of a session leave or none does, the others
\* keep theirs.
LEMMA LeavingKeeps ==
  ASSUME TableInv, NEW S, NEW T,
         \A i \in DOMAIN session : i \in S <=> session[i] \in S,
         addrOf' = Table!Without(addrOf, S),
         session' = Table!Without(session, S),
         keyOf' = Table!Without(keyOf, T),
         known' \subseteq known,
         Follow
  PROVE  TableInv'
<1>1. /\ DOMAIN addrOf' = DOMAIN addrOf \ S
      /\ addrOf' \in [DOMAIN addrOf' -> Addr]
  BY DEF TableInv, TableTyped, Table!Without, Table!Restrict
<1>2. /\ DOMAIN session' = DOMAIN session \ S
      /\ session' = [i \in DOMAIN session' |-> session'[i]]
      /\ \A i \in DOMAIN session' : session'[i] = session[i]
  BY DEF Table!Without, Table!Restrict
<1>3. /\ keyOf' \in [DOMAIN keyOf' -> Key]
      /\ DOMAIN keyOf' \subseteq Index
  BY DEF TableInv, TableTyped, Table!Without, Table!Restrict
<1>4. Mutual'
  BY <1>2 DEF TableInv, Mutual
<1>5. HistoryTyped'
  BY <1>1 DEF TableInv, HistoryTyped, Follow, Restrict
<1>6. TableTyped'
  BY <1>1, <1>2, <1>3 DEF TableInv, TableTyped
<1> QED
  BY <1>4, <1>5, <1>6 DEF TableInv

\* Expired indices leave together with the other ends of their sessions.
LEMMA ExpireKeeps ==
  ASSUME TableInv, NEW S, NEW forgotten, Table!Expire(S, forgotten), Follow
  PROVE  TableInv'
<1>1. \A i \in DOMAIN session : i \in S <=> session[i] \in S
  <2>1. \A i \in DOMAIN session : i \in S => session[i] \in S
    BY DEF Table!Expire, Table!WithCounterparts
  <2> QED
    BY <2>1 DEF TableInv, Mutual
<1>2. keyOf' = Table!Without(keyOf, {})
  BY DEF Table!Expire, Table!Without, Table!Restrict, TableInv, TableTyped
<1> QED
  BY <1>1, <1>2, LeavingKeeps DEF Table!Expire

\* Revoked indices are closed under sessions: either end is revoked by its
\* own key or by that of the other.
LEMMA RevokedClosed ==
  ASSUME Mutual, NEW keys
  PROVE  \A i \in DOMAIN session :
           i \in Table!Revoked(keys) <=> session[i] \in Table!Revoked(keys)
BY DEF Mutual, Table!Revoked, Table!WithCounterparts

\* Evicted indices leave together with the other ends of their sessions.
LEMMA RevokeKeeps ==
  ASSUME TableInv, NEW keys, NEW stale, Table!Revoke(keys, stale), Follow
  PROVE  TableInv'
<1>1. \A i \in DOMAIN session :
        i \in Table!Revoked(keys) <=> session[i] \in Table!Revoked(keys)
  BY RevokedClosed DEF TableInv
<1> QED
  BY <1>1, LeavingKeeps DEF Table!Revoke

-----------------------------------------------------------------------------
(* The steps of the handlers *)

\* A handler of a packet of one of the types holds a packet.
LEMMA AtPacket ==
  ASSUME LocalsTyped, NEW w \in Worker, NEW step \in Steps \ {"idle"}, NEW types,
         At(w, step, types)
  PROVE  /\ pc[w] = step /\ pkt[w].type \in types
         /\ pkt[w] \in Packets
         /\ pkt[w].src \in Addr
         /\ matched[w] \in {NoKey, pkt[w].key} /\ matched[w] \in Key \cup {NoKey}
         /\ pkt[w].type \in Handshakes => pkt[w].sender \in Index
<1>1. pc[w] = step /\ pkt[w].type \in types
  BY DEF At
<1>2. pkt[w] \in Packets /\ matched[w] \in {NoKey, pkt[w].key}
  BY <1>1 DEF LocalsTyped, Keyed
<1> QED
  BY <1>1, <1>2, PacketsAssumption DEF LocalsTyped

\* A handler that returns leaves nothing of its packet behind.
LEMMA ReturnKeeps ==
  ASSUME LocalsTyped, NEW w \in Worker, Return(w)
  PROVE  LocalsTyped'
<1>1. /\ pc' = [pc EXCEPT ![w] = "idle"]
      /\ pkt' = [pkt EXCEPT ![w] = NoPacket]
      /\ matched' = [matched EXCEPT ![w] = NoKey]
      /\ mate' = [mate EXCEPT ![w] = NoIndex]
  BY DEF Return
<1>2. /\ pc' \in [Worker -> Steps]
      /\ pkt' \in [Worker -> Packets \cup {NoPacket}]
      /\ matched' \in [Worker -> Key \cup {NoKey}]
      /\ mate' \in [Worker -> Index \cup {NoIndex}]
  BY <1>1 DEF LocalsTyped, Steps
<1>3. ASSUME NEW v \in Worker PROVE Keyed(v)'
  BY <1>1 DEF LocalsTyped, Keyed
<1> QED
  BY <1>2, <1>3 DEF LocalsTyped

\* A handler that goes on keeps its packet and its key; it comes to the step
\* that records the key only with one.
LEMMA GotoKeeps ==
  ASSUME LocalsTyped, NEW w \in Worker, NEW step \in Steps \ {"idle"},
         pc[w] # "idle", step = "record" => matched[w] # NoKey,
         Goto(w, step)
  PROVE  LocalsTyped'
<1>1. /\ pc' = [pc EXCEPT ![w] = step]
      /\ pkt' = pkt /\ matched' = matched /\ mate' = mate
  BY DEF Goto
<1>2. pc' \in [Worker -> Steps]
  BY <1>1 DEF LocalsTyped
<1>3. ASSUME NEW v \in Worker PROVE Keyed(v)'
  BY <1>1 DEF LocalsTyped, Keyed
<1> QED
  BY <1>1, <1>2, <1>3 DEF LocalsTyped

\* A packet is read by an idle worker, which has no key yet.
LEMMA ReceiveKeeps ==
  ASSUME LocalsTyped, NEW w \in Worker, NEW p \in Packets, Receive(w, p)
  PROVE  LocalsTyped'
<1>1. /\ pc[w] = "idle"
      /\ pc' = [pc EXCEPT ![w] = FirstStep(p)]
      /\ pkt' = [pkt EXCEPT ![w] = p]
      /\ matched' = matched /\ mate' = mate
  BY DEF Receive
<1>2. FirstStep(p) \in {"lookup", "receiver", "add", "match"}
  BY DEF FirstStep
<1>3. pc' \in [Worker -> Steps] /\ pkt' \in [Worker -> Packets \cup {NoPacket}]
  BY <1>1, <1>2 DEF LocalsTyped, Steps
<1>4. ASSUME NEW v \in Worker PROVE Keyed(v)'
  BY <1>1, <1>2 DEF LocalsTyped, Keyed
<1> QED
  BY <1>1, <1>3, <1>4 DEF LocalsTyped

\* A matched key is an allowed one, the one the packet was made with.
LEMMA MatchPubkeyKeeps ==
  ASSUME LocalsTyped, ControlTyped, NEW w \in Worker, MatchPubkey(w)
  PROVE  LocalsTyped'
<1>1. /\ pc[w] = "match" /\ pkt[w] \in Packets
      /\ pkt[w].key \in Key
      /\ matched' = [matched EXCEPT ![w] = pkt[w].key]
      /\ pkt' = pkt /\ mate' = mate
  BY AtPacket DEF MatchPubkey, Steps, ControlTyped
<1>2. PICK step \in {"gate", "add"} : pc' = [pc EXCEPT ![w] = step]
  BY DEF MatchPubkey
<1>3. pc' \in [Worker -> Steps] /\ matched' \in [Worker -> Key \cup {NoKey}]
  BY <1>1, <1>2 DEF LocalsTyped, Steps
<1>4. ASSUME NEW v \in Worker PROVE Keyed(v)'
  BY <1>1, <1>2 DEF LocalsTyped, Keyed
<1> QED
  BY <1>1, <1>3, <1>4 DEF LocalsTyped

\* The counterpart of a session is an index of the table.
LEMMA DataCounterpartKeeps ==
  ASSUME LocalsTyped, TableInv, NEW w \in Worker, DataCounterpart(w)
  PROVE  LocalsTyped'
<1>1. /\ pc[w] = "counterpart"
      /\ pkt[w].receiver \in DOMAIN session
      /\ mate' = [mate EXCEPT ![w] = session[pkt[w].receiver]]
      /\ pc' = [pc EXCEPT ![w] = "source"]
      /\ pkt' = pkt /\ matched' = matched
  BY DEF DataCounterpart, At
<1>2. session[pkt[w].receiver] \in Index
  BY <1>1 DEF TableInv, TableTyped, Mutual
<1>3. pc' \in [Worker -> Steps] /\ mate' \in [Worker -> Index \cup {NoIndex}]
  BY <1>1, <1>2 DEF LocalsTyped, Steps
<1>4. ASSUME NEW v \in Worker PROVE Keyed(v)'
  BY <1>1 DEF LocalsTyped, Keyed
<1> QED
  BY <1>1, <1>3, <1>4 DEF LocalsTyped

\* Unchanged parts of the invariant stay.
LEMMA Unchanged ==
  /\ TableInv /\ UNCHANGED table /\ UNCHANGED history => TableInv'
  /\ ControlTyped /\ UNCHANGED control => ControlTyped'
  /\ LocalsTyped /\ UNCHANGED locals => LocalsTyped'
BY DEF TableInv, TableTyped, Mutual, HistoryTyped, ControlTyped, LocalsTyped, Keyed,
       table, history, control, locals

\* The step that registers the sender of a handshake message.
LEMMA AddPeerAddrKeeps ==
  ASSUME TableInv, LocalsTyped, NEW w \in Worker, AddPeerAddr(w)
  PROVE  TableInv' /\ LocalsTyped'
<1>1. /\ pc[w] = "add" /\ pkt[w].sender \in Index /\ pkt[w].src \in Addr
      /\ matched[w] \in Key \cup {NoKey} /\ pkt[w].type \in Handshakes
  BY AtPacket DEF AddPeerAddr, Steps
<1>2. TableInv'
  BY <1>1, RegisterKeeps DEF AddPeerAddr
<1>3. /\ AfterAdd(w) \in {"lookup", "record", "logInitiated"}
      /\ AfterAdd(w) = "record" => matched[w] # NoKey
  BY <1>1 DEF AfterAdd, Handshakes
<1>4. LocalsTyped'
  BY <1>1, <1>3, GotoKeeps DEF AddPeerAddr, Steps
<1> QED
  BY <1>2, <1>4

\* The step that records the key of an initiation.
LEMMA SetPeerPubkeyKeeps ==
  ASSUME TableInv, LocalsTyped, NEW w \in Worker, SetPeerPubkey(w)
  PROVE  TableInv' /\ LocalsTyped'
<1>1. /\ pc[w] = "record" /\ pkt[w].sender \in Index
      /\ matched[w] \in Key
  BY AtPacket DEF SetPeerPubkey, Steps, Handshakes, LocalsTyped, Keyed
<1>2. TableInv'
  BY <1>1, RecordKeeps DEF SetPeerPubkey
<1>3. LocalsTyped'
  BY <1>1, GotoKeeps DEF SetPeerPubkey, Steps
<1> QED
  BY <1>2, <1>3

\* The steps that read the table, or only log: the handler goes on or returns.
Reads(w) ==
  \/ MatchPubkeyFails(w) \/ Gate(w) \/ AddPeerAddrFails(w)
  \/ LogHandshakeInitiated(w) \/ Broadcast(w)
  \/ LookupReceiver(w) \/ AssociatePeersNoLink(w) \/ LogHandshakeCompleted(w)
  \/ DataReceiver(w) \/ DataCounterpartFails(w) \/ DataSource(w)
  \/ UpdatePeerAddrFails(w) \/ LogDataTransfer(w)

\* They change nothing but the handler's own step.
LEMMA ReadsOnly ==
  ASSUME NEW w \in Worker, Reads(w)
  PROVE  /\ UNCHANGED table /\ UNCHANGED control /\ UNCHANGED history
         /\ pc[w] \in Steps \ {"idle"}
         /\ \/ Return(w)
            \/ \E step \in Steps \ {"idle", "match", "gate", "record"} : Goto(w, step)
<1>1. CASE \/ MatchPubkeyFails(w) \/ AddPeerAddrFails(w) \/ Broadcast(w)
           \/ LogHandshakeCompleted(w) \/ DataCounterpartFails(w)
           \/ UpdatePeerAddrFails(w) \/ LogDataTransfer(w)
  BY <1>1 DEF MatchPubkeyFails, AddPeerAddrFails, Broadcast, LogHandshakeCompleted,
              DataCounterpartFails, UpdatePeerAddrFails, LogDataTransfer, At, Steps
<1>2. CASE Gate(w)
  BY <1>2 DEF Gate, At, Steps
<1>3. CASE LogHandshakeInitiated(w)
  BY <1>3 DEF LogHandshakeInitiated, At, Steps
<1>4. CASE LookupReceiver(w)
  BY <1>4 DEF LookupReceiver, At, Steps
<1>5. CASE AssociatePeersNoLink(w)
  BY <1>5 DEF AssociatePeersNoLink, At, Steps
<1>6. CASE DataReceiver(w)
  BY <1>6 DEF DataReceiver, At, Steps
<1>7. CASE DataSource(w)
  <2>1. UNCHANGED table /\ UNCHANGED control /\ UNCHANGED history /\ pc[w] = "source"
    BY <1>7 DEF DataSource, At
  <2>2. Return(w) \/ Goto(w, "move") \/ Goto(w, "logData")
    BY <1>7 DEF DataSource
  <2> QED
    BY <2>1, <2>2 DEF Steps
<1> QED
  BY <1>1, <1>2, <1>3, <1>4, <1>5, <1>6, <1>7 DEF Reads

\* Every step of a handler keeps the invariant.
LEMMA HandleKeeps ==
  ASSUME IInv, NEW w \in Worker, Handle(w)
  PROVE  IInv'
<1>1. TableInv /\ ControlTyped /\ LocalsTyped
  BY DEF IInv
<1>2. CASE Reads(w)
  <2>1. LocalsTyped'
    <3>1. pc[w] # "idle" /\ (Return(w) \/ \E step \in Steps \ {"idle", "record"} : Goto(w, step))
      BY <1>2, ReadsOnly
    <3> QED
      BY <1>1, <3>1, ReturnKeeps, GotoKeeps
  <2> QED
    BY <1>1, <1>2, <2>1, ReadsOnly, Unchanged DEF IInv
<1>3. CASE MatchPubkey(w)
  BY <1>1, <1>3, MatchPubkeyKeeps, Unchanged DEF MatchPubkey, IInv
<1>4. CASE AddPeerAddr(w)
  BY <1>1, <1>4, AddPeerAddrKeeps, Unchanged DEF AddPeerAddr, IInv
<1>5. CASE SetPeerPubkey(w)
  BY <1>1, <1>5, SetPeerPubkeyKeeps, Unchanged DEF SetPeerPubkey, IInv
<1>6. CASE AssociatePeers(w)
  <2>1. TableInv'
    BY <1>1, <1>6, LinkKeeps DEF AssociatePeers
  <2>2. LocalsTyped'
    BY <1>1, <1>6, GotoKeeps DEF AssociatePeers, At, Steps
  <2> QED
    BY <1>1, <1>6, <2>1, <2>2, Unchanged DEF AssociatePeers, IInv
<1>7. CASE DataCounterpart(w)
  BY <1>1, <1>7, DataCounterpartKeeps, Unchanged DEF DataCounterpart, IInv
<1>8. CASE UpdatePeerAddr(w)
  <2>1. pkt[w].src \in Addr /\ pc[w] = "move"
    BY <1>1, <1>8, AtPacket DEF UpdatePeerAddr, Steps
  <2>2. TableInv'
    BY <1>1, <1>8, <2>1, MoveKeeps DEF UpdatePeerAddr
  <2>3. LocalsTyped'
    BY <1>1, <1>8, <2>1, GotoKeeps DEF UpdatePeerAddr, Steps
  <2> QED
    BY <1>1, <1>8, <2>2, <2>3, Unchanged DEF UpdatePeerAddr, IInv
<1> QED
  BY <1>2, <1>3, <1>4, <1>5, <1>6, <1>7, <1>8 DEF Handle, Reads

-----------------------------------------------------------------------------
(* The inductive invariant *)

\* Either half of a reload keeps the invariant.
LEMMA ReloadKeeps ==
  ASSUME IInv, NEW r \in Reloader, UpdateAllowedKeys(r)
  PROVE  IInv'
<1>1. TableInv /\ ControlTyped /\ LocalsTyped
  BY DEF IInv
<1>2. ASSUME NEW keys \in KeyLists, BeginReload(r, keys), UpdatePubkeys(keys)
      PROVE  IInv'
  <2>1. keys \in SUBSET Key
    BY KeyListsAssumption
  <2>2. ControlTyped'
    BY <1>1, <1>2, <2>1 DEF BeginReload, UpdatePubkeys, ControlTyped
  <2> QED
    BY <1>1, <1>2, <2>2, Unchanged DEF BeginReload, UpdatePubkeys, IInv
<1>3. ASSUME EndReload(r), EvictSessionsByRemovedKeys(reload[r])
      PROVE  IInv'
  <2>1. TableInv'
    BY <1>1, <1>3, RevokeKeeps DEF EvictSessionsByRemovedKeys
  <2>2. ControlTyped'
    BY <1>1, <1>3 DEF EndReload, EvictSessionsByRemovedKeys, ControlTyped
  <2> QED
    BY <1>1, <1>3, <2>1, <2>2, Unchanged DEF EndReload, IInv
<1> QED
  BY <1>2, <1>3 DEF UpdateAllowedKeys

\* Every step keeps the invariant.
LEMMA NextKeeps == IInv /\ [Next]_vars => IInv'
<1> SUFFICES ASSUME IInv, [Next]_vars PROVE IInv'
  OBVIOUS
<1>1. TableInv /\ ControlTyped /\ LocalsTyped
  BY DEF IInv
<1>2. ASSUME NEW w \in Worker, NEW p \in Packets, Receive(w, p) PROVE IInv'
  BY <1>1, <1>2, ReceiveKeeps, Unchanged DEF Receive, IInv
<1>3. ASSUME NEW w \in Worker, Handle(w) PROVE IInv'
  BY <1>3, HandleKeeps
<1>4. ASSUME NEW r \in Reloader, UpdateAllowedKeys(r) PROVE IInv'
  BY <1>4, ReloadKeeps
<1>5. CASE Expire
  BY <1>1, <1>5, ExpireKeeps, Unchanged DEF Expire, IInv
<1>6. CASE UNCHANGED vars
  BY <1>1, <1>6, Unchanged DEF vars, IInv
<1> QED
  BY <1>2, <1>3, <1>4, <1>5, <1>6 DEF Next

\* The relay starts with empty tables, idle workers and a configured list.
LEMMA InitHolds == Init => IInv
<1> SUFFICES ASSUME Init PROVE IInv
  OBVIOUS
<1>1. TableInv
  BY DEF Init, Table!TableInit, TableInv, TableTyped, Mutual, HistoryTyped
<1>2. ControlTyped
  BY KeyListsAssumption DEF Init, ControlTyped
<1>3. LocalsTyped
  BY DEF Init, LocalsTyped, Keyed, Steps
<1> QED
  BY <1>1, <1>2, <1>3 DEF IInv

\* The invariant holds in every reachable state.
THEOREM Invariance == Spec => []IInv
BY InitHolds, NextKeeps, PTL DEF Spec

\* The invariant gives every part of the state its type: in particular the
\* other end of a session is in the table.
LEMMA InvTyped == IInv => TypeOK
<1> SUFFICES ASSUME IInv PROVE TypeOK
  OBVIOUS
<1>1. TableTyped /\ Mutual /\ HistoryTyped /\ ControlTyped /\ LocalsTyped
  BY DEF IInv, TableInv
<1>2. session \in [DOMAIN session -> DOMAIN addrOf]
  BY <1>1 DEF TableTyped, Mutual
<1> QED
  BY <1>1, <1>2 DEF TypeOK, TableTyped, HistoryTyped, ControlTyped, LocalsTyped

\* The handlers and the table always have their types, whatever arrives and
\* however the goroutines interleave: no handler records a key it has not
\* matched, and no session names an index that is not in the table.
THEOREM TypeCorrect == Spec => []TypeOK
BY InvTyped, Invariance, PTL

-----------------------------------------------------------------------------
(* What the handlers ask of the table *)

\* A handler's step on the table is one of its methods, with the packet's
\* index and address and a key that was matched, or none at all.
LEMMA HandleUsesTable ==
  ASSUME IInv, NEW w \in Worker, Handle(w)
  PROVE  Table!TableNext \/ UNCHANGED table
<1>1. TableInv /\ LocalsTyped
  BY DEF IInv
<1>2. CASE Reads(w)
  BY <1>2, ReadsOnly
<1>3. CASE MatchPubkey(w) \/ DataCounterpart(w)
  BY <1>3 DEF MatchPubkey, DataCounterpart
<1>4. CASE AddPeerAddr(w)
  <2>1. pkt[w].sender \in Index /\ pkt[w].src \in Addr
    BY <1>1, <1>4, AtPacket DEF AddPeerAddr, Steps
  <2> QED
    BY <1>4, <2>1 DEF AddPeerAddr, Table!TableNext
<1>5. CASE SetPeerPubkey(w)
  <2>1. pkt[w].sender \in Index /\ matched[w] \in Key
    BY <1>1, <1>5, AtPacket DEF SetPeerPubkey, Steps, Handshakes, LocalsTyped, Keyed
  <2> QED
    BY <1>5, <2>1 DEF SetPeerPubkey, Table!TableNext
<1>6. CASE AssociatePeers(w)
  <2>1. pkt[w].sender \in Index /\ pkt[w].receiver \in Index
    BY <1>1, <1>6 DEF AssociatePeers, Table!Link, Table!Single, TableInv, TableTyped
  <2> QED
    BY <1>6, <2>1 DEF AssociatePeers, Table!TableNext
<1>7. CASE UpdatePeerAddr(w)
  <2>1. pkt[w].src \in Addr
    BY <1>1, <1>7, AtPacket DEF UpdatePeerAddr, Steps
  <2>2. mate[w] \in Index
    BY <1>1, <1>7 DEF UpdatePeerAddr, Table!Move, TableInv, TableTyped
  <2> QED
    BY <1>7, <2>1, <2>2 DEF UpdatePeerAddr, Table!TableNext
<1> QED
  BY <1>2, <1>3, <1>4, <1>5, <1>6, <1>7 DEF Handle, Reads

\* However handlers, reloads and expiry interleave, the table goes through
\* steps of SessionTable only, which ExchangeTable implements: the handlers
\* need no more of the table than it promises.
THEOREM UsesSessionTable == Spec => Table!Spec
<1>1. Init => Table!TableInit
  BY DEF Init
<1>2. ASSUME IInv, [Next]_vars PROVE Table!TableNext \/ UNCHANGED table
  <2>1. ASSUME NEW w \in Worker, NEW p \in Packets, Receive(w, p) PROVE UNCHANGED table
    BY <2>1 DEF Receive
  <2>2. ASSUME NEW r \in Reloader, UpdateAllowedKeys(r) PROVE Table!TableNext \/ UNCHANGED table
    <3>1. CASE EndReload(r) /\ EvictSessionsByRemovedKeys(reload[r])
      <4>1. PICK stale \in SUBSET (DOMAIN keyOf \ DOMAIN addrOf) : Table!Revoke(reload[r], stale)
        BY <3>1 DEF EvictSessionsByRemovedKeys
      <4>2. reload[r] \in SUBSET Key /\ stale \in SUBSET Index
        BY <1>2, <4>1 DEF IInv, ControlTyped, TableInv, TableTyped
      <4> QED
        BY <4>1, <4>2 DEF Table!TableNext
    <3> QED
      BY <2>2, <3>1 DEF UpdateAllowedKeys, UpdatePubkeys
  <2>3. CASE Expire
    <3>1. PICK S \in SUBSET DOMAIN addrOf, forgotten \in SUBSET known :
            Table!Expire(S, forgotten)
      BY <2>3 DEF Expire
    <3>2. S \in SUBSET Index /\ forgotten \in SUBSET Addr
      BY <1>2, <3>1 DEF IInv, TableInv, TableTyped
    <3> QED
      BY <3>1, <3>2 DEF Table!TableNext
  <2> QED
    BY <1>2, <2>1, <2>2, <2>3, HandleUsesTable DEF Next, vars
<1>3. IInv /\ [Next]_vars => [Table!TableNext]_(Table!tableVars)
  BY <1>2 DEF table, Table!tableVars
<1> QED
  BY <1>1, <1>3, Invariance, PTL DEF Spec, Table!Spec

-----------------------------------------------------------------------------
(* What a reload leaves behind *)

\* A key recorded for an index, even for one that has left since, is the key
\* of every handshake message from it.
KeysMatch ==
  \A i \in DOMAIN keyOf : \A p \in Packets :
    p.type \in Handshakes /\ p.sender = i => keyOf[i] = p.key

\* What is left of the recorded keys is allowed, or late.
Evicted ==
  \A i \in DOMAIN addrOf \cap DOMAIN keyOf : keyOf[i] \in allowed \/ i \in late

\* The eviction that belongs to the current list is still to come.
Pending == \E r \in reloading : reload[r] = allowed

\* Between the swap and its eviction nothing can be said of the table; with
\* several reloads at once it is the last swap that counts.
ReloadInv == IInv /\ KeysMatch /\ (allowed # {} => Evicted \/ Pending)

\* A step that leaves the list and the recorded keys alone, and no index out
\* of late but with its entry, keeps what is evicted evicted.
LEMMA EvictedStays ==
  ASSUME Evicted, UNCHANGED <<allowed, keyOf>>, DOMAIN addrOf' \subseteq DOMAIN addrOf,
         late \cap DOMAIN addrOf' \subseteq late'
  PROVE  Evicted'
BY DEF Evicted

\* A handler adds an index under a key that is not allowed only as a late one.
LEMMA AddPeerAddrEvicted ==
  ASSUME ReloadInv, NEW w \in Worker, AddPeerAddr(w), allowed # {}, Evicted
  PROVE  Evicted'
<1> DEFINE s == pkt[w].sender
           k == matched[w]
<1>1. /\ pkt[w] \in Packets /\ pkt[w].type \in Handshakes
      /\ k \in {NoKey, pkt[w].key}
  BY AtPacket DEF AddPeerAddr, Steps, ReloadInv, IInv
<1>2. /\ DOMAIN addrOf' = DOMAIN addrOf \cup {s}
      /\ keyOf' = keyOf /\ allowed' = allowed
      /\ late' = IF k \notin allowed THEN late \cup {s} ELSE late
  BY DEF AddPeerAddr, Table!Register, Table!Bind, control, Outdated
<1>3. ASSUME s \in DOMAIN keyOf, k \in allowed PROVE keyOf[s] \in allowed
  <2>1. k # NoKey
    BY <1>3, NoKeyAssumption DEF ReloadInv, IInv, ControlTyped
  <2>2. keyOf[s] = pkt[w].key
    BY <1>1, <1>3 DEF ReloadInv, KeysMatch
  <2> QED
    BY <1>1, <1>3, <2>1, <2>2
<1> HIDE DEF s, k
<1> QED
  BY <1>2, <1>3 DEF Evicted

\* A handler records a key that is not allowed only for a late index.
LEMMA SetPeerPubkeyEvicted ==
  ASSUME NEW w \in Worker, SetPeerPubkey(w), allowed # {}, Evicted
  PROVE  Evicted'
<1> DEFINE s == pkt[w].sender
           k == matched[w]
<1>1. /\ DOMAIN keyOf' = DOMAIN keyOf \cup {s}
      /\ keyOf'[s] = k
      /\ \A i \in DOMAIN keyOf : i # s => keyOf'[i] = keyOf[i]
      /\ addrOf' = addrOf /\ allowed' = allowed
      /\ late' = IF k \notin allowed /\ s \in DOMAIN addrOf THEN late \cup {s} ELSE late
  BY DEF SetPeerPubkey, Table!Record, Table!Bind, control, Outdated
<1> HIDE DEF s, k
<1> QED
  BY <1>1 DEF Evicted

\* Only a handler changes a recorded key, to the key of its packet.
LEMMA KeysMatchStays ==
  ASSUME OneKeyPerIndex, ReloadInv, [Next]_vars
  PROVE  KeysMatch'
<1>1. CASE DOMAIN keyOf' \subseteq DOMAIN keyOf /\ \A i \in DOMAIN keyOf' : keyOf'[i] = keyOf[i]
  BY <1>1 DEF ReloadInv, KeysMatch
<1>2. ASSUME NEW w \in Worker, SetPeerPubkey(w) PROVE KeysMatch'
  <2>1. /\ pkt[w] \in Packets /\ pkt[w].type \in Handshakes
        /\ matched[w] = pkt[w].key
    BY <1>2, AtPacket DEF SetPeerPubkey, Steps, Handshakes, ReloadInv, IInv, LocalsTyped, Keyed
  <2>2. keyOf' = Table!Bind(keyOf, pkt[w].sender, matched[w])
    BY <1>2 DEF SetPeerPubkey, Table!Record
  <2> QED
    BY <2>1, <2>2 DEF OneKeyPerIndex, ReloadInv, KeysMatch, Table!Bind
<1>3. ASSUME NEW w \in Worker, Handle(w) PROVE keyOf' = keyOf \/ SetPeerPubkey(w)
  <2>1. CASE Reads(w)
    BY <2>1, ReadsOnly DEF table
  <2>2. CASE \/ MatchPubkey(w) \/ AddPeerAddr(w) \/ AssociatePeers(w)
             \/ DataCounterpart(w) \/ UpdatePeerAddr(w)
    BY <2>2 DEF MatchPubkey, AddPeerAddr, AssociatePeers, DataCounterpart, UpdatePeerAddr,
                Table!Register, Table!Link, Table!Move, table
  <2> QED
    BY <1>3, <2>1, <2>2 DEF Handle, Reads
<1>4. ASSUME NEW r \in Reloader, UpdateAllowedKeys(r) PROVE KeysMatch'
  <2>1. CASE keyOf' = keyOf
    BY <1>1, <2>1
  <2>2. CASE EvictSessionsByRemovedKeys(reload[r])
    BY <1>1, <2>2 DEF EvictSessionsByRemovedKeys, Table!Revoke, Table!Without, Table!Restrict
  <2> QED
    BY <1>4, <2>1, <2>2 DEF UpdateAllowedKeys, UpdatePubkeys, table
<1>5. ASSUME keyOf' = keyOf PROVE KeysMatch'
  BY <1>1, <1>5
<1> QED
  BY <1>2, <1>3, <1>4, <1>5 DEF Next, Receive, Expire, Table!Expire, vars, table

\* An eviction by the current list evicts; one by an older list does not
\* undo what a newer one has done, nor end the wait for it.
LEMMA EvictionEvicts ==
  ASSUME ReloadInv, NEW r \in Reloader,
         EndReload(r), EvictSessionsByRemovedKeys(reload[r]), allowed # {}
  PROVE  Evicted' \/ Pending'
<1>1. PICK stale \in SUBSET (DOMAIN keyOf \ DOMAIN addrOf) :
        Table!Revoke(reload[r], stale)
  BY DEF EvictSessionsByRemovedKeys
<1> DEFINE gone == Table!Revoked(reload[r])
<1>2. /\ DOMAIN addrOf' = DOMAIN addrOf \ gone
      /\ DOMAIN keyOf' = DOMAIN keyOf \ (gone \cup stale)
      /\ \A i \in DOMAIN keyOf' : keyOf'[i] = keyOf[i]
      /\ late' = late \cap DOMAIN addrOf'
      /\ allowed' = allowed
  BY <1>1 DEF Table!Revoke, Table!Without, Table!Restrict, EvictSessionsByRemovedKeys, Follow
<1>3. CASE reload[r] = allowed
  <2>1. \A i \in DOMAIN addrOf \cap DOMAIN keyOf : keyOf[i] \notin allowed => i \in gone
    BY <1>3 DEF Table!Revoked, Table!WithCounterparts
  <2> HIDE DEF gone
  <2> QED
    BY <1>2, <2>1 DEF Evicted
<1>4. CASE Evicted
  <2> HIDE DEF gone
  <2> QED
    BY <1>2, <1>4 DEF Evicted
<1>5. CASE reload[r] # allowed /\ Pending
  <2>1. PICK q \in reloading : reload[q] = allowed
    BY <1>5 DEF Pending
  <2>2. q \in reloading' /\ reload'[q] = reload[q]
    BY <1>5, <2>1 DEF EndReload, ReloadInv, IInv, ControlTyped
  <2> QED
    BY <1>2, <2>1, <2>2 DEF Pending
<1> QED
  BY <1>3, <1>4, <1>5 DEF ReloadInv

\* Every step keeps what is known of reloads.
LEMMA ReloadInvKeeps ==
  ASSUME OneKeyPerIndex
  PROVE  ReloadInv /\ [Next]_vars => ReloadInv'
<1> SUFFICES ASSUME ReloadInv, [Next]_vars, allowed' # {}
             PROVE  Evicted' \/ Pending'
  BY NextKeeps, KeysMatchStays DEF ReloadInv
<1>1. ASSUME UNCHANGED control, UNCHANGED keyOf, DOMAIN addrOf' \subseteq DOMAIN addrOf,
             late \cap DOMAIN addrOf' \subseteq late'
      PROVE  Evicted' \/ Pending'
  BY <1>1, EvictedStays DEF ReloadInv, control, Pending
<1>2. ASSUME UNCHANGED table, UNCHANGED control, UNCHANGED history
      PROVE  Evicted' \/ Pending'
  BY <1>1, <1>2 DEF table, history
<1>3. ASSUME NEW w \in Worker, Handle(w) PROVE Evicted' \/ Pending'
  <2>1. CASE Reads(w)
    BY <1>2, <2>1, ReadsOnly
  <2>2. CASE MatchPubkey(w) \/ DataCounterpart(w)
    BY <1>2, <2>2 DEF MatchPubkey, DataCounterpart
  <2>3. CASE AddPeerAddr(w)
    <3>1. UNCHANGED control
      BY <2>3 DEF AddPeerAddr
    <3> QED
      BY <2>3, <3>1, AddPeerAddrEvicted DEF ReloadInv, control, Pending
  <2>4. CASE SetPeerPubkey(w)
    <3>1. UNCHANGED control
      BY <2>4 DEF SetPeerPubkey
    <3> QED
      BY <2>4, <3>1, SetPeerPubkeyEvicted DEF ReloadInv, control, Pending
  <2>5. CASE AssociatePeers(w)
    BY <1>1, <2>5 DEF AssociatePeers, Table!Link, history
  <2>6. CASE UpdatePeerAddr(w)
    <3>1. DOMAIN addrOf' = DOMAIN addrOf
      BY <2>6 DEF UpdatePeerAddr, Table!Move
    <3> QED
      BY <1>1, <2>6, <3>1 DEF UpdatePeerAddr, Table!Move, history
  <2> QED
    BY <1>3, <2>1, <2>2, <2>3, <2>4, <2>5, <2>6 DEF Handle, Reads
<1>4. ASSUME NEW r \in Reloader, NEW keys \in KeyLists,
             BeginReload(r, keys), UpdatePubkeys(keys)
      PROVE  Pending'
  BY <1>4 DEF BeginReload, UpdatePubkeys, Pending, ReloadInv, IInv, ControlTyped
<1>5. ASSUME NEW r \in Reloader, EndReload(r), EvictSessionsByRemovedKeys(reload[r])
      PROVE  Evicted' \/ Pending'
  BY <1>5, EvictionEvicts DEF EvictSessionsByRemovedKeys
<1>6. CASE Expire
  <2>1. DOMAIN addrOf' \subseteq DOMAIN addrOf /\ keyOf' = keyOf
    BY <1>6 DEF Expire, Table!Expire, Table!Without, Table!Restrict
  <2> QED
    BY <1>1, <1>6, <2>1 DEF Expire, Follow
<1>7. ASSUME NEW w \in Worker, NEW p \in Packets, Receive(w, p) PROVE Evicted' \/ Pending'
  BY <1>2, <1>7 DEF Receive
<1>8. CASE UNCHANGED vars
  BY <1>2, <1>8 DEF vars
<1> QED
  BY <1>3, <1>4, <1>5, <1>6, <1>7, <1>8 DEF Next, UpdateAllowedKeys

\* Once every reload has evicted, no index recorded under a removed key is
\* left, but those of handlers that were on their way: for any number of
\* reloads at once, if every index is drawn for one key.
THEOREM RemovedKeysGone ==
  ASSUME OneKeyPerIndex
  PROVE  Spec => []RemovedKeysLeave
<1>1. Init => ReloadInv
  BY InitHolds DEF Init, Table!TableInit, ReloadInv, KeysMatch, Evicted
<1>2. ReloadInv => RemovedKeysLeave
  BY DEF ReloadInv, Evicted, Pending, RemovedKeysLeave
<1> QED
  BY <1>1, <1>2, ReloadInvKeeps, PTL DEF Spec

-----------------------------------------------------------------------------
(* What a reload must not take *)

\* One reload at a time: the list it evicts by is the current one.
NewestReload == \A r \in reloading : reload[r] = allowed

\* Both parts of a reload, and all else, keep that true.
LEMMA NewestReloadKeeps ==
  ASSUME \A r, s \in Reloader : r = s
  PROVE  IInv /\ NewestReload /\ [Next]_vars => NewestReload'
<1> SUFFICES ASSUME IInv, NewestReload, [Next]_vars PROVE NewestReload'
  OBVIOUS
<1>1. ASSUME UNCHANGED control PROVE NewestReload'
  BY <1>1 DEF control, NewestReload
<1>2. ASSUME NEW w \in Worker, Handle(w) PROVE UNCHANGED control
  <2>1. CASE Reads(w)
    BY <2>1, ReadsOnly
  <2> QED
    BY <1>2, <2>1 DEF Handle, Reads, MatchPubkey, AddPeerAddr, SetPeerPubkey, AssociatePeers,
                      DataCounterpart, UpdatePeerAddr
<1>3. ASSUME NEW r \in Reloader, UpdateAllowedKeys(r) PROVE NewestReload'
  <2>1. \A s \in reloading' : s = r
    BY <1>3 DEF UpdateAllowedKeys, BeginReload, EndReload, IInv, ControlTyped
  <2>2. ASSUME NEW keys \in KeyLists, BeginReload(r, keys), UpdatePubkeys(keys)
        PROVE  reload'[r] = allowed'
    BY <2>2 DEF BeginReload, UpdatePubkeys, IInv, ControlTyped
  <2>3. ASSUME EndReload(r) PROVE r \notin reloading'
    BY <2>3 DEF EndReload
  <2> QED
    BY <1>3, <2>1, <2>2, <2>3 DEF UpdateAllowedKeys, NewestReload
<1> QED
  BY <1>1, <1>2, <1>3 DEF Next, Receive, Expire, vars

\* An eviction by the current list drops a recorded key only if it, or that
\* of the other end of the session, is not on the list.
LEMMA EvictionSpares ==
  ASSUME IInv, NEW stale, Table!Revoke(allowed, stale),
         NEW i \in DOMAIN addrOf \cap DOMAIN keyOf,
         \A j \in Table!WithCounterparts({i}) \cap DOMAIN keyOf : keyOf[j] \in allowed
  PROVE  i \in DOMAIN keyOf'
<1>1. Mutual
  BY DEF IInv, TableInv
<1>2. /\ i \in Table!WithCounterparts({i})
      /\ i \in DOMAIN session => session[i] \in Table!WithCounterparts({i})
  BY DEF Table!WithCounterparts
<1>3. i \notin Table!Revoked(allowed)
  <2> SUFFICES ASSUME i \in Table!Revoked(allowed) PROVE FALSE
    OBVIOUS
  <2>1. PICK j \in DOMAIN addrOf \cap DOMAIN keyOf :
          /\ keyOf[j] \notin allowed
          /\ j = i \/ (j \in DOMAIN session /\ session[j] = i)
    BY DEF Table!Revoked, Table!WithCounterparts
  <2>2. j = i \/ (i \in DOMAIN session /\ session[i] = j)
    BY <1>1, <2>1 DEF Mutual
  <2> QED
    BY <1>2, <2>1, <2>2
<1>4. i \notin stale
  BY DEF Table!Revoke
<1> QED
  BY <1>3, <1>4 DEF Table!Revoke, Table!Without, Table!Restrict

\* The step drops the recorded key of no index whose keys are on the list.
Spared ==
  \A i \in DOMAIN addrOf \cap DOMAIN keyOf :
    (\A j \in Table!WithCounterparts({i}) \cap DOMAIN keyOf : keyOf[j] \in allowed)
      => i \in DOMAIN keyOf'

\* No step but the eviction of a reload that another has overtaken drops one.
LEMMA StepSpares ==
  ASSUME IInv, NewestReload, [Next]_vars
  PROVE  Spared
<1>1. ASSUME DOMAIN keyOf \subseteq DOMAIN keyOf' PROVE Spared
  BY <1>1 DEF Spared
<1>2. ASSUME NEW w \in Worker, Handle(w) PROVE DOMAIN keyOf \subseteq DOMAIN keyOf'
  <2>1. CASE Reads(w)
    BY <2>1, ReadsOnly DEF table
  <2>2. CASE SetPeerPubkey(w)
    BY <2>2 DEF SetPeerPubkey, Table!Record, Table!Bind
  <2> QED
    BY <1>2, <2>1, <2>2
       DEF Handle, Reads, MatchPubkey, AddPeerAddr, AssociatePeers, DataCounterpart,
           UpdatePeerAddr, Table!Register, Table!Link, Table!Move, table
<1>3. ASSUME NEW r \in Reloader, EndReload(r), EvictSessionsByRemovedKeys(reload[r])
      PROVE  Spared
  <2>1. reload[r] = allowed
    BY <1>3 DEF EndReload, NewestReload
  <2> QED
    BY <1>3, <2>1, EvictionSpares DEF EvictSessionsByRemovedKeys, Spared
<1>4. ASSUME keyOf' = keyOf PROVE Spared
  BY <1>1, <1>4
<1> QED
  BY <1>1, <1>2, <1>3, <1>4
     DEF Next, UpdateAllowedKeys, UpdatePubkeys, Receive, Expire, Table!Expire, vars, table

\* With any number of reloads at once: while every reload that is to evict has
\* swapped in the list that is current, no session of keys on that list is
\* evicted.  Only a reload that another has overtaken can do that.
THEOREM OnlyOvertakenReloadsEvict == Spec => [][NewestReload => Spared]_vars
<1>1. IInv /\ [Next]_vars => [NewestReload => Spared]_vars
  BY StepSpares
<1> QED
  BY <1>1, Invariance, PTL DEF Spec

\* As long as reloads come one at a time, a running session whose keys are
\* both on the list survives every reload (ReloadRace shows what two reloads
\* at once can do).
THEOREM RunningSessionsSurvive ==
  ASSUME \A r, s \in Reloader : r = s
  PROVE  Spec => ZeroDowntime
<1>1. Init => NewestReload
  BY DEF Init, NewestReload
<1>2. Spec => []NewestReload
  BY <1>1, InitHolds, NextKeeps, NewestReloadKeeps, PTL DEF Spec
<1>3. NewestReload /\ [NewestReload => Spared]_vars => [Spared]_vars
  OBVIOUS
<1> QED
  BY <1>2, <1>3, OnlyOvertakenReloadsEvict, PTL DEF ZeroDowntime, Spared
=============================================================================
