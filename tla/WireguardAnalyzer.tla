--------------------------- MODULE WireguardAnalyzer ---------------------------
(***************************************************************************)
(* internal/analyzer: the packet handlers, run by one goroutine per CPU,   *)
(* and the hot reload of the allowed keys, run by HTTP handlers.  Neither  *)
(* holds a lock across two calls of the exchange table or of the checker,  *)
(* so every call is a step of its own and steps of different goroutines    *)
(* interleave freely.  The table is the abstract SessionTable.             *)
(*                                                                         *)
(* The network delivers any packet of the constant Packets at any time,    *)
(* again and again and in any order: loss, duplication and reordering.     *)
(* MACs are modelled by their verdict: a packet names the key its mac1 was *)
(* computed with, and whether its mac2 answers the relay's cookie.         *)
(* Datagrams sent are not state: nobody in the relay reads them back.      *)
(***************************************************************************)
EXTENDS Functions

CONSTANTS
  Index, Addr, Key, NoKey,
  Worker,      \* goroutines in Relay.relay
  Reloader,    \* HTTP requests to /api/v1/config/reload in progress at once
  Packets,     \* [type, sender, receiver, src, key, mac2]
  KeyLists,    \* the key lists the operator configures
  NoPacket, NoIndex

Handshakes == {"initiation", "response"}
Types      == Handshakes \cup {"cookie", "data"}

ASSUME PacketsAssumption ==
  /\ Packets \subseteq [type : Types, sender : Index \cup {NoIndex},
                        receiver : Index \cup {NoIndex}, src : Addr,
                        key : Key \cup {NoKey}, mac2 : BOOLEAN]
  /\ \A p \in Packets : p.type \in Handshakes => p.sender \in Index
ASSUME NoKeyAssumption == NoKey \notin Key
ASSUME KeyListsAssumption == KeyLists \subseteq SUBSET Key

VARIABLES
  addrOf, session, known, keyOf,   \* the exchange table
  allowed,     \* macChecker.pubkeys, the empty set: no check
  pc,          \* worker -> the call it makes next
  pkt,         \* worker -> the packet it handles
  matched,     \* worker -> matchedPubkey
  mate,        \* worker -> the counterpart found for a data packet
  reload,      \* reloader -> the key set it still has to evict by, or {}
  reloading,   \* reloaders between UpdatePubkeys and the eviction
  admitted,    \* history: index -> key its packet was matched with
  late         \* history: indices admitted or recorded under a removed key

Table == INSTANCE SessionTable

table   == <<addrOf, session, known, keyOf>>
locals  == <<pc, pkt, matched, mate>>
control == <<allowed, reload, reloading>>
history == <<admitted, late>>
vars    == <<table, locals, control, history>>

Steps == {"idle", "match", "gate", "add", "record", "logInitiated", "list",
          "lookup", "associate", "logCompleted",
          "receiver", "counterpart", "source", "move", "logData"}

TypeOK ==
  /\ addrOf \in [DOMAIN addrOf -> Addr] /\ DOMAIN addrOf \subseteq Index
  /\ session \in [DOMAIN session -> DOMAIN addrOf]
  /\ DOMAIN session \subseteq DOMAIN addrOf
  /\ known \subseteq Addr
  /\ keyOf \in [DOMAIN keyOf -> Key] /\ DOMAIN keyOf \subseteq Index
  /\ allowed \subseteq Key
  /\ pc \in [Worker -> Steps]
  /\ pkt \in [Worker -> Packets \cup {NoPacket}]
  /\ matched \in [Worker -> Key \cup {NoKey}]
  /\ mate \in [Worker -> Index \cup {NoIndex}]
  /\ reload \in [Reloader -> SUBSET Key]
  /\ reloading \subseteq Reloader
  /\ admitted \in [DOMAIN addrOf -> Key \cup {NoKey}]
  /\ late \subseteq DOMAIN addrOf

Init ==
  /\ Table!TableInit
  /\ allowed \in KeyLists
  /\ pc = [w \in Worker |-> "idle"]
  /\ pkt = [w \in Worker |-> NoPacket]
  /\ matched = [w \in Worker |-> NoKey]
  /\ mate = [w \in Worker |-> NoIndex]
  /\ reload = [r \in Reloader |-> {}]
  /\ reloading = {}
  /\ admitted = [i \in {} |-> i]
  /\ late = {}

-----------------------------------------------------------------------------
(* Control flow of a worker *)

At(w, step, types) == pc[w] = step /\ pkt[w].type \in types

Goto(w, step) ==
  pc' = [pc EXCEPT ![w] = step] /\ UNCHANGED <<pkt, matched, mate>>

\* The handler returns, with a datagram to forward or without one.
Return(w) ==
  /\ pc' = [pc EXCEPT ![w] = "idle"]
  /\ pkt' = [pkt EXCEPT ![w] = NoPacket]
  /\ matched' = [matched EXCEPT ![w] = NoKey]
  /\ mate' = [mate EXCEPT ![w] = NoIndex]

\* Analyse dispatches on the type; RequireCheck is the first locked call of
\* both handshake handlers.
FirstStep(p) ==
  CASE p.type = "cookie" -> "lookup"
    [] p.type = "data"   -> "receiver"
    [] OTHER             -> IF allowed = {} THEN "add" ELSE "match"

Receive(w, p) ==
  /\ pc[w] = "idle"
  /\ pc' = [pc EXCEPT ![w] = FirstStep(p)]
  /\ pkt' = [pkt EXCEPT ![w] = p]
  /\ UNCHANGED <<table, matched, mate, control, history>>

-----------------------------------------------------------------------------
(* Handshake messages *)

\* The keys are read again: a reload may have come in between.
MatchPubkey(w) ==
  /\ At(w, "match", Handshakes)
  /\ pkt[w].key \in allowed
  /\ matched' = [matched EXCEPT ![w] = pkt[w].key]
  /\ pc' = [pc EXCEPT ![w] = IF pkt[w].type = "initiation" THEN "gate" ELSE "add"]
  /\ UNCHANGED <<table, pkt, mate, control, history>>

MatchPubkeyFails(w) ==
  /\ At(w, "match", Handshakes)
  /\ pkt[w].key \notin allowed
  /\ Return(w)
  /\ UNCHANGED <<table, control, history>>

\* Mutant: only a known address is let in.
GateKnownOnly(w) ==
  /\ At(w, "gate", {"initiation"})
  /\ IF pkt[w].src \in known THEN Goto(w, "add") ELSE Return(w)
  /\ UNCHANGED <<table, control, history>>

\* VerifyMac2 or table.Contains; otherwise the sender gets a cookie reply.
Gate(w) ==
  /\ At(w, "gate", {"initiation"})
  /\ IF pkt[w].mac2 \/ pkt[w].src \in known THEN Goto(w, "add") ELSE Return(w)
  /\ UNCHANGED <<table, control, history>>

\* The list has changed while the handler was on its way: it would no
\* longer let the packet in.
Outdated(w) == allowed # {} /\ matched[w] \notin allowed

AfterAdd(w) ==
  CASE pkt[w].type = "response"   -> "lookup"
    [] pkt[w].type = "initiation" -> IF matched[w] # NoKey THEN "record"
                                                           ELSE "logInitiated"

AddPeerAddr(w) ==
  LET s == pkt[w].sender IN
  /\ At(w, "add", Handshakes)
  /\ Table!Register(s, pkt[w].src)
  /\ admitted' = Table!Bind(admitted, s, matched[w])
  /\ late' = IF Outdated(w) THEN late \cup {s} ELSE late
  /\ Goto(w, AfterAdd(w))
  /\ UNCHANGED control

\* Mutant: an index that is taken is taken for a retransmission.
AddPeerAddrRepeated(w) ==
  /\ At(w, "add", Handshakes)
  /\ pkt[w].sender \in DOMAIN addrOf
  /\ Goto(w, AfterAdd(w))
  /\ UNCHANGED <<table, control, history>>

AddPeerAddrFails(w) ==
  /\ At(w, "add", Handshakes)
  /\ pkt[w].sender \in DOMAIN addrOf
  /\ Return(w)
  /\ UNCHANGED <<table, control, history>>

SetPeerPubkey(w) ==
  LET s == pkt[w].sender IN
  /\ At(w, "record", {"initiation"})
  /\ Table!Record(s, matched[w])
  /\ late' = IF Outdated(w) /\ s \in DOMAIN addrOf THEN late \cup {s} ELSE late
  /\ Goto(w, "logInitiated")
  /\ UNCHANGED <<control, admitted>>

LogHandshakeInitiated(w) ==
  /\ At(w, "logInitiated", {"initiation"})
  /\ Goto(w, "list")
  /\ UNCHANGED <<table, control, history>>

\* ListAddrs(src); the initiation goes to known \ {src}.
Broadcast(w) ==
  /\ At(w, "list", {"initiation"})
  /\ Return(w)
  /\ UNCHANGED <<table, control, history>>

\* GetPeerAddr of the receiver: a cookie reply is forwarded at once.
LookupReceiver(w) ==
  /\ At(w, "lookup", {"response", "cookie"})
  /\ IF pkt[w].type = "response" /\ pkt[w].receiver \in DOMAIN addrOf
     THEN Goto(w, "associate")
     ELSE Return(w)
  /\ UNCHANGED <<table, control, history>>

AssociatePeers(w) ==
  /\ At(w, "associate", {"response"})
  /\ Table!Link(pkt[w].sender, pkt[w].receiver)
  /\ Goto(w, "logCompleted")
  /\ UNCHANGED <<control, history>>

\* Already linked to each other is success; any other session, or an index
\* that has left since it was added or looked up, is an error.
AssociatePeersNoLink(w) ==
  LET s == pkt[w].sender
      r == pkt[w].receiver IN
  /\ At(w, "associate", {"response"})
  /\ ~(Table!Single(s) /\ Table!Single(r))
  /\ IF /\ {s, r} \subseteq DOMAIN session
        /\ session[s] = r
        /\ session[r] = s
     THEN Goto(w, "logCompleted")
     ELSE Return(w)
  /\ UNCHANGED <<table, control, history>>

LogHandshakeCompleted(w) ==
  /\ At(w, "logCompleted", {"response"})
  /\ Return(w)
  /\ UNCHANGED <<table, control, history>>

-----------------------------------------------------------------------------
(* Transport data *)

DataReceiver(w) ==
  /\ At(w, "receiver", {"data"})
  /\ IF pkt[w].receiver \in DOMAIN addrOf THEN Goto(w, "counterpart")
                                          ELSE Return(w)
  /\ UNCHANGED <<table, control, history>>

DataCounterpart(w) ==
  /\ At(w, "counterpart", {"data"})
  /\ pkt[w].receiver \in DOMAIN session
  /\ mate' = [mate EXCEPT ![w] = session[pkt[w].receiver]]
  /\ pc' = [pc EXCEPT ![w] = "source"]
  /\ UNCHANGED <<table, pkt, matched, control, history>>

DataCounterpartFails(w) ==
  /\ At(w, "counterpart", {"data"})
  /\ pkt[w].receiver \notin DOMAIN session
  /\ Return(w)
  /\ UNCHANGED <<table, control, history>>

\* Roaming is detected against the address at this moment.
DataSource(w) ==
  /\ At(w, "source", {"data"})
  /\ IF mate[w] \in DOMAIN addrOf
     THEN Goto(w, IF addrOf[mate[w]] # pkt[w].src THEN "move" ELSE "logData")
     ELSE Return(w)
  /\ UNCHANGED <<table, control, history>>

\* Mutant: the index in the packet moves, not its counterpart.
UpdateReceiverAddr(w) ==
  /\ At(w, "move", {"data"})
  /\ Table!Move(pkt[w].receiver, pkt[w].src)
  /\ Goto(w, "logData")
  /\ UNCHANGED <<control, history>>

UpdatePeerAddr(w) ==
  /\ At(w, "move", {"data"})
  /\ Table!Move(mate[w], pkt[w].src)
  /\ Goto(w, "logData")
  /\ UNCHANGED <<control, history>>

UpdatePeerAddrFails(w) ==
  /\ At(w, "move", {"data"})
  /\ mate[w] \notin DOMAIN addrOf
  /\ Return(w)
  /\ UNCHANGED <<table, control, history>>

LogDataTransfer(w) ==
  /\ At(w, "logData", {"data"})
  /\ Return(w)
  /\ UNCHANGED <<table, control, history>>

-----------------------------------------------------------------------------
(* UpdateAllowedKeys: swap the key set, then evict *)

\* History follows the table.
Follow ==
  /\ admitted' = Restrict(admitted, DOMAIN addrOf')
  /\ late' = late \cap DOMAIN addrOf'

\* The two locked calls of a reload.
UpdatePubkeys(keys) ==
  allowed' = keys /\ UNCHANGED <<table, history>>

EvictSessionsByRemovedKeys(keys) ==
  /\ \E stale \in SUBSET (DOMAIN keyOf \ DOMAIN addrOf) :
       Table!Revoke(keys, stale)
  /\ Follow
  /\ UNCHANGED allowed

BeginReload(r, keys) ==
  /\ r \notin reloading
  /\ reloading' = reloading \cup {r}
  /\ reload' = [reload EXCEPT ![r] = keys]
  /\ UNCHANGED locals

EndReload(r) ==
  /\ r \in reloading
  /\ reloading' = reloading \ {r}
  /\ reload' = [reload EXCEPT ![r] = {}]
  /\ UNCHANGED locals

\* Mutant: the eviction comes first.
UpdateAllowedKeysSwapped(r) ==
  \/ \E keys \in KeyLists : BeginReload(r, keys) /\ EvictSessionsByRemovedKeys(keys)
  \/ EndReload(r) /\ UpdatePubkeys(reload[r])

UpdateAllowedKeys(r) ==
  \/ \E keys \in KeyLists : BeginReload(r, keys) /\ UpdatePubkeys(keys)
  \/ EndReload(r) /\ EvictSessionsByRemovedKeys(reload[r])

\* Sessions, handshakes and unused addresses run out of time.
Expire ==
  /\ \E S \in SUBSET DOMAIN addrOf, forgotten \in SUBSET known :
       Table!Expire(S, forgotten)
  /\ Follow
  /\ UNCHANGED <<locals, control>>

Handle(w) ==
  \/ MatchPubkey(w) \/ MatchPubkeyFails(w) \/ Gate(w)
  \/ AddPeerAddr(w) \/ AddPeerAddrFails(w) \/ SetPeerPubkey(w)
  \/ LogHandshakeInitiated(w) \/ Broadcast(w)
  \/ LookupReceiver(w) \/ AssociatePeers(w) \/ AssociatePeersNoLink(w)
  \/ LogHandshakeCompleted(w)
  \/ DataReceiver(w) \/ DataCounterpart(w) \/ DataCounterpartFails(w)
  \/ DataSource(w) \/ UpdatePeerAddr(w) \/ UpdatePeerAddrFails(w)
  \/ LogDataTransfer(w)

Next ==
  \/ \E w \in Worker, p \in Packets : Receive(w, p)
  \/ \E w \in Worker : Handle(w)
  \/ \E r \in Reloader : UpdateAllowedKeys(r)
  \/ Expire

Spec == Init /\ [][Next]_vars

-----------------------------------------------------------------------------
(* Properties *)

\* Random 32-bit indices: the handshake messages that come from one index
\* were made with one key.  A recorded key outlives its index, so this is what
\* makes it the key of whoever has the index (RemovedKeysGone in the proofs).
OneKeyPerIndex ==
  \A p, q \in Packets :
    {p.type, q.type} \subseteq Handshakes /\ p.sender = q.sender => p.key = q.key

\* Once no reload is between its swap and its eviction, an index recorded
\* under a removed key can still be looked up only if its handler matched
\* the key before the swap and registered the index after it.  The order
\* of the two calls in UpdateAllowedKeys is what makes this so.
RemovedKeysLeave ==
  reloading = {} /\ allowed # {} =>
    \A i \in DOMAIN addrOf \cap DOMAIN keyOf : keyOf[i] \in allowed \/ i \in late

\* analyzer.go:271, exchange.go:267: an index is not evicted while its
\* recorded key, and that of its counterpart, are in the allowed list.  (Only
\* an eviction drops a recorded key.)  What the repository says elsewhere is
\* the opposite: see AllSessionsEvicted.
ZeroDowntime ==
  [][\A i \in DOMAIN addrOf \cap DOMAIN keyOf :
       (\A j \in Table!WithCounterparts({i}) \cap DOMAIN keyOf : keyOf[j] \in allowed)
         => i \in DOMAIN keyOf']_vars

\* analyzer.go:275 "removed-key sessions evicted": when no reload is in
\* progress, no session has an end that was admitted by a removed key,
\* except by a handler that was already on its way.
RemovedKeySessionsEvicted ==
  reloading = {} /\ allowed # {} =>
    \A i \in DOMAIN session : admitted[i] \in allowed \cup {NoKey} \/ i \in late

\* http_api.go:275 answers a reload with "All sessions evicted": none of the
\* sessions that a reload meets is there when it returns.
AllSessionsEvicted ==
  [][\A r \in reloading \ reloading' : DOMAIN session \cap DOMAIN session' = {}]_vars
=============================================================================
