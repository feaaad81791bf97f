------------------------------ MODULE RelayProofs ------------------------------
(***************************************************************************)
(* Proofs about Relay for every value of its constants: any number of      *)
(* pairs of clients, of addresses they roam between, of indices and of     *)
(* goroutines, and any bound on the faults.                                *)
(***************************************************************************)
EXTENDS Relay, WireguardAnalyzerProofs

-----------------------------------------------------------------------------
(* The inductive invariant *)

\* What clients send.  They send no cookie replies, draw the indices of
\* initiations and responses from different sets, and send an index only
\* from where its peer is.
Sent(p) ==
  /\ p \in Packets
  /\ p.type # "cookie"
  /\ p.type = "initiation" => p.sender \in InitIndex /\ p.src \in Home[Owner[p.sender]]
  /\ p.type = "response" => /\ p.sender \in Index \ InitIndex
                            /\ p.receiver \in InitIndex
                            /\ Owner[p.receiver] = PeerOf[Owner[p.sender]]
                            /\ p.src \in Home[Owner[p.sender]]
  /\ p.type = "data" => /\ p.receiver \in Index
                        /\ p.src \in Home[PeerOf[Owner[p.receiver]]]

\* What the relay sends.
Forwarded(d) ==
  /\ d \in Datagram
  /\ d.type = "initiation" => d.sender \in InitIndex
  /\ d.type = "response" => /\ d.sender \in Index \ InitIndex
                            /\ d.receiver \in InitIndex
                            /\ Owner[d.receiver] = PeerOf[Owner[d.sender]]
  /\ d.type \in {"response", "data"} => /\ d.receiver \in Index
                                        /\ d.to \in Home[Owner[d.receiver]]

NetworkInv ==
  /\ \A p \in up : Sent(p)
  /\ \A d \in down : Forwarded(d)
  /\ faults \in 0 .. MaxFaults

\* The ends that clients think they have are each other's.
ClientInv ==
  /\ at \in [Client -> Addr]
  /\ \A c \in Client : at[c] \in Home[c]
  /\ cookie \subseteq Client
  /\ remote \in [DOMAIN remote -> Index] /\ DOMAIN remote \subseteq Index
  /\ \A i \in DOMAIN remote : Owner[remote[i]] = PeerOf[Owner[i]]
  /\ confirmed \subseteq DOMAIN remote \ InitIndex

\* The table knows an index only at an address of its owner, and pairs
\* indices only of clients that want a session with each other.
OwnedTable ==
  /\ \A i \in DOMAIN addrOf : addrOf[i] \in Home[Owner[i]]
  /\ \A i \in DOMAIN session : Owner[session[i]] = PeerOf[Owner[i]]

Holding == {"associate", "logCompleted", "counterpart", "source", "move", "logData"}

\* What a handler has read remains true of the owner, whatever has become of
\* the entry it read.
OwnedHandlers ==
  /\ \A w \in Worker : pc[w] # "idle" => Sent(pkt[w])
  /\ \A w \in Worker : pc[w] \in {"source", "move"} =>
       mate[w] \in Index /\ Owner[mate[w]] = PeerOf[Owner[pkt[w].receiver]]
  /\ DOMAIN dest = {w \in Worker : pc[w] \in Holding}
  /\ dest \in [DOMAIN dest -> Addr]
  /\ \A w \in DOMAIN dest : dest[w] \in Home[Owner[pkt[w].receiver]]

CountedTyped == counted \subseteq InitIndex

RelayInv ==
  IInv /\ NetworkInv /\ ClientInv /\ OwnedTable /\ OwnedHandlers /\ CountedTyped

-----------------------------------------------------------------------------
(* The way of a handler *)

\* The step a handler of a packet of type t may take after step s.
Onward(t, s, n) ==
  \/ s = "match" /\ n \in {"gate", "add"}
  \/ s = "gate" /\ n = "add"
  \/ s = "add" /\ t = "initiation" /\ n \in {"record", "logInitiated"}
  \/ s = "add" /\ t = "response" /\ n = "lookup"
  \/ s = "record" /\ t = "initiation" /\ n = "logInitiated"
  \/ s = "logInitiated" /\ t = "initiation" /\ n = "list"
  \/ s = "lookup" /\ t = "response" /\ n = "associate"
  \/ s = "associate" /\ t = "response" /\ n = "logCompleted"
  \/ s = "receiver" /\ t = "data" /\ n = "counterpart"
  \/ s = "counterpart" /\ t = "data" /\ n = "source"
  \/ s = "source" /\ t = "data" /\ n \in {"move", "logData"}
  \/ s = "move" /\ t = "data" /\ n = "logData"

\* A handler that goes on takes one of those steps, keeps its packet and the
\* counterpart it has read, and does not touch the other handlers.
LEMMA HandlerFlow ==
  ASSUME LocalsTyped, NEW w \in Worker, Handle(w)
  PROVE  /\ pc[w] # "idle"
         /\ \A v \in Worker \ {w} :
              pc'[v] = pc[v] /\ pkt'[v] = pkt[v] /\ mate'[v] = mate[v]
         /\ pc'[w] # "idle" => /\ pkt'[w] = pkt[w]
                               /\ Onward(pkt[w].type, pc[w], pc'[w])
                               /\ pc[w] # "counterpart" => mate'[w] = mate[w]
<1> DEFINE Kept == \A v \in Worker \ {w} :
                     pc'[v] = pc[v] /\ pkt'[v] = pkt[v] /\ mate'[v] = mate[v]
<1>1. ASSUME Return(w) PROVE pc'[w] = "idle" /\ Kept
  BY <1>1 DEF Return, LocalsTyped
<1>2. ASSUME NEW n, Goto(w, n)
      PROVE  pc'[w] = n /\ pkt'[w] = pkt[w] /\ mate'[w] = mate[w] /\ Kept
  BY <1>2 DEF Goto, LocalsTyped
<1> HIDE DEF Kept
<1>3. CASE MatchPubkey(w)
  <2>1. /\ pc[w] = "match" /\ pkt' = pkt /\ mate' = mate
        /\ pc' = [pc EXCEPT ![w] = IF pkt[w].type = "initiation" THEN "gate" ELSE "add"]
    BY <1>3 DEF MatchPubkey, At
  <2>2. pc'[w] \in {"gate", "add"} /\ Kept
    BY <2>1 DEF LocalsTyped, Kept
  <2> QED
    BY <2>1, <2>2 DEF Onward, Kept
<1>4. CASE DataCounterpart(w)
  <2>1. /\ pc[w] = "counterpart" /\ pkt[w].type = "data" /\ pkt' = pkt
        /\ pc' = [pc EXCEPT ![w] = "source"]
        /\ mate' = [mate EXCEPT ![w] = session[pkt[w].receiver]]
    BY <1>4 DEF DataCounterpart, At
  <2>2. pc'[w] = "source" /\ Kept
    BY <2>1 DEF LocalsTyped, Kept
  <2> QED
    BY <2>1, <2>2 DEF Onward, Kept
<1>5. ASSUME NEW s, NEW types, At(w, s, types), s # "idle", Return(w)
      PROVE  pc[w] # "idle" /\ pc'[w] = "idle" /\ Kept
  BY <1>1, <1>5 DEF At
<1>6. ASSUME NEW s, NEW types, At(w, s, types), NEW n, Goto(w, n)
      PROVE  /\ pc[w] = s /\ pkt[w].type \in types
             /\ pc'[w] = n /\ pkt'[w] = pkt[w] /\ mate'[w] = mate[w] /\ Kept
  BY <1>2, <1>6 DEF At
<1>7. CASE \/ MatchPubkeyFails(w) \/ AddPeerAddrFails(w) \/ Broadcast(w)
           \/ LogHandshakeCompleted(w) \/ DataCounterpartFails(w)
           \/ UpdatePeerAddrFails(w) \/ LogDataTransfer(w)
  BY <1>5, <1>7 DEF MatchPubkeyFails, AddPeerAddrFails, Broadcast, LogHandshakeCompleted,
                    DataCounterpartFails, UpdatePeerAddrFails, LogDataTransfer, Kept
<1>8. CASE Gate(w)
  BY <1>5, <1>6, <1>8 DEF Gate, Onward, Kept
<1>9. CASE AddPeerAddr(w)
  <2>1. /\ pc[w] = "add" /\ pkt[w].type \in Handshakes
        /\ pc'[w] = AfterAdd(w) /\ pkt'[w] = pkt[w] /\ mate'[w] = mate[w] /\ Kept
    BY <1>6, <1>9 DEF AddPeerAddr
  <2>2. \/ pkt[w].type = "response" /\ AfterAdd(w) = "lookup"
        \/ pkt[w].type = "initiation" /\ AfterAdd(w) \in {"record", "logInitiated"}
    <3>1. CASE pkt[w].type = "response"
      BY <3>1 DEF AfterAdd
    <3>2. CASE pkt[w].type = "initiation"
      BY <3>2 DEF AfterAdd
    <3> QED
      BY <2>1, <3>1, <3>2 DEF Handshakes
  <2> QED
    BY <2>1, <2>2 DEF Onward, Kept
<1>10. CASE SetPeerPubkey(w)
  BY <1>6, <1>10 DEF SetPeerPubkey, Onward, Kept
<1>11. CASE LogHandshakeInitiated(w)
  BY <1>6, <1>11 DEF LogHandshakeInitiated, Onward, Kept
<1>12. CASE LookupReceiver(w)
  BY <1>5, <1>6, <1>12 DEF LookupReceiver, Onward, Kept
<1>13. CASE AssociatePeers(w)
  BY <1>6, <1>13 DEF AssociatePeers, Onward, Kept
<1>14. CASE AssociatePeersNoLink(w)
  BY <1>5, <1>6, <1>14 DEF AssociatePeersNoLink, Onward, Kept
<1>15. CASE DataReceiver(w)
  BY <1>5, <1>6, <1>15 DEF DataReceiver, Onward, Kept
<1>16. CASE DataSource(w)
  <2>1. At(w, "source", {"data"}) /\ (Return(w) \/ Goto(w, "move") \/ Goto(w, "logData"))
    BY <1>16 DEF DataSource
  <2> QED
    BY <1>5, <1>6, <2>1 DEF Onward, Kept
<1>17. CASE UpdatePeerAddr(w)
  BY <1>6, <1>17 DEF UpdatePeerAddr, Onward, Kept
<1> QED
  BY <1>3, <1>4, <1>7, <1>8, <1>9, <1>10, <1>11, <1>12, <1>13, <1>14, <1>15, <1>16, <1>17
     DEF Handle

\* What a handler does to the table.
LEMMA HandlerEffect ==
  ASSUME NEW w \in Worker, Handle(w)
  PROVE  \/ UNCHANGED <<addrOf, session>>
         \/ AddPeerAddr(w) \/ AssociatePeers(w) \/ UpdatePeerAddr(w)
<1>1. CASE Reads(w)
  BY <1>1, ReadsOnly DEF table
<1> QED
  BY <1>1 DEF Handle, Reads, MatchPubkey, SetPeerPubkey, Table!Record, DataCounterpart, table

\* The messages at the steps that send something or count something.
LEMMA HandlerTypes ==
  ASSUME NEW w \in Worker, Handle(w)
  PROVE  /\ pc[w] \in {"gate", "list", "logInitiated"} => pkt[w].type = "initiation"
         /\ pc[w] = "lookup" => pkt[w].type \in {"response", "cookie"}
         /\ pc[w] \in {"associate", "logCompleted"} => pkt[w].type = "response"
         /\ pc[w] \in {"receiver", "counterpart", "source", "move", "logData"}
              => pkt[w].type = "data"
<1>1. \E s \in Steps, types \in SUBSET Types :
        /\ At(w, s, types)
        /\ s \in {"gate", "record", "list", "logInitiated"} => types = {"initiation"}
        /\ s = "lookup" => types = {"response", "cookie"}
        /\ s \in {"associate", "logCompleted"} => types = {"response"}
        /\ s \in {"receiver", "counterpart", "source", "move", "logData"} => types = {"data"}
  <2>1. CASE MatchPubkey(w) \/ MatchPubkeyFails(w)
    BY <2>1 DEF MatchPubkey, MatchPubkeyFails, Steps, Types, Handshakes
  <2>2. CASE AddPeerAddr(w) \/ AddPeerAddrFails(w)
    BY <2>2 DEF AddPeerAddr, AddPeerAddrFails, Steps, Types, Handshakes
  <2>3. CASE Gate(w) \/ SetPeerPubkey(w) \/ LogHandshakeInitiated(w) \/ Broadcast(w)
    BY <2>3 DEF Gate, SetPeerPubkey, LogHandshakeInitiated, Broadcast, Steps, Types, Handshakes
  <2>4. CASE LookupReceiver(w)
    BY <2>4 DEF LookupReceiver, Steps, Types, Handshakes
  <2>5. CASE AssociatePeers(w) \/ AssociatePeersNoLink(w) \/ LogHandshakeCompleted(w)
    BY <2>5 DEF AssociatePeers, AssociatePeersNoLink, LogHandshakeCompleted, Steps, Types,
                Handshakes
  <2>6. CASE \/ DataReceiver(w) \/ DataCounterpart(w) \/ DataCounterpartFails(w)
             \/ DataSource(w) \/ UpdatePeerAddr(w) \/ UpdatePeerAddrFails(w)
             \/ LogDataTransfer(w)
    BY <2>6 DEF DataReceiver, DataCounterpart, DataCounterpartFails, DataSource,
                UpdatePeerAddr, UpdatePeerAddrFails, LogDataTransfer, Steps, Types
  <2> QED
    BY <2>1, <2>2, <2>3, <2>4, <2>5, <2>6 DEF Handle
<1> QED
  BY <1>1 DEF At

-----------------------------------------------------------------------------
(* The steps of the relay *)

\* The fields of a packet.
LEMMA PacketTyped ==
  ASSUME NEW p \in Packets
  PROVE  /\ p.type \in Types /\ p.src \in Addr
         /\ p.sender \in Index \cup {NoIndex} /\ p.receiver \in Index \cup {NoIndex}
         /\ p.type \in Handshakes => p.sender \in Index
BY PacketsAssumption

\* A handler sends only what the relay may: broadcasts of initiations,
\* cookie replies, and what belongs to a session to its owner.
LEMMA PeersForwarded ==
  ASSUME RelayInv, NEW w \in Worker, Handle(w), NEW d \in Peers(w)
  PROVE  Forwarded(d)
<1>1. /\ pc[w] # "idle" /\ Sent(pkt[w])
      /\ pkt[w] \in Packets /\ pkt[w].type # "cookie"
  BY HandlerFlow DEF RelayInv, IInv, OwnedHandlers, Sent
<1>2. /\ pkt[w].type \in Types /\ pkt[w].src \in Addr
      /\ pkt[w].sender \in Index \cup {NoIndex} /\ pkt[w].receiver \in Index \cup {NoIndex}
      /\ pkt[w].type \in Handshakes => pkt[w].sender \in Index
  BY <1>1, PacketTyped
<1>3. CASE pc[w] = "list"
  <2>1. PICK a \in known : d = Forward(w, a)
    BY <1>3 DEF Peers
  <2>2. a \in Addr
    BY <2>1 DEF RelayInv, IInv, TableInv, TableTyped
  <2>3. pkt[w].type = "initiation"
    BY <1>3, HandlerTypes
  <2> QED
    BY <1>1, <1>2, <2>1, <2>2, <2>3 DEF Forward, Forwarded, Datagram, Sent
<1>4. CASE pc[w] = "gate"
  <2>1. d = CookieReplyTo(pkt[w])
    BY <1>4 DEF Peers
  <2> QED
    BY <1>1, <1>2, <2>1 DEF CookieReplyTo, Forwarded, Datagram, Types
<1>5. CASE pc[w] \in {"logCompleted", "logData"}
  <2>1. d = Forward(w, dest[w])
    BY <1>5 DEF Peers
  <2>2. w \in DOMAIN dest
    BY <1>5 DEF RelayInv, OwnedHandlers, Holding
  <2>3. dest[w] \in Addr /\ dest[w] \in Home[Owner[pkt[w].receiver]]
    BY <2>2 DEF RelayInv, OwnedHandlers
  <2>4. pkt[w].type \in {"response", "data"}
    BY <1>5, HandlerTypes
  <2>5. /\ d.to = dest[w] /\ d.type = pkt[w].type
        /\ d.sender = pkt[w].sender /\ d.receiver = pkt[w].receiver
        /\ d \in Datagram
    BY <1>2, <2>1, <2>3 DEF Forward, Datagram
  <2>6. InitIndex \subseteq Index
    BY ClientAssumption
  <2> QED
    BY <1>1, <2>3, <2>4, <2>5, <2>6 DEF Forwarded, Sent
<1> QED
  BY <1>1, <1>3, <1>4, <1>5 DEF Peers

\* The call that a handler makes at the steps where the others need to know.
LEMMA HandlerAt ==
  ASSUME NEW w \in Worker, Handle(w)
  PROVE  /\ pc[w] = "add" => AddPeerAddr(w) \/ AddPeerAddrFails(w)
         /\ pc[w] = "record" => SetPeerPubkey(w)
         /\ pc[w] = "lookup" => LookupReceiver(w)
         /\ pc[w] = "associate" => AssociatePeers(w) \/ AssociatePeersNoLink(w)
         /\ pc[w] = "receiver" => DataReceiver(w)
         /\ pc[w] = "counterpart" => DataCounterpart(w) \/ DataCounterpartFails(w)
BY DEF Handle, At, MatchPubkey, MatchPubkeyFails, Gate, AddPeerAddr, AddPeerAddrFails,
       SetPeerPubkey, LogHandshakeInitiated, Broadcast, LookupReceiver, AssociatePeers,
       AssociatePeersNoLink, LogHandshakeCompleted, DataReceiver, DataCounterpart,
       DataCounterpartFails, DataSource, UpdatePeerAddr, UpdatePeerAddrFails, LogDataTransfer

\* A handler that goes on after a lookup has found what it looked for.
LEMMA LookupsFind ==
  ASSUME LocalsTyped, NEW w \in Worker, Handle(w), pc'[w] # "idle"
  PROVE  /\ pc[w] \in {"lookup", "receiver"} => pkt[w].receiver \in DOMAIN addrOf
         /\ pc[w] = "counterpart" => /\ pkt[w].receiver \in DOMAIN session
                                     /\ mate'[w] = session[pkt[w].receiver]
<1>1. ~Return(w)
  BY DEF Return, LocalsTyped
<1>2. CASE pc[w] \in {"lookup", "receiver"}
  BY <1>1, <1>2, HandlerAt DEF LookupReceiver, DataReceiver
<1>3. CASE pc[w] = "counterpart"
  BY <1>1, <1>3, HandlerAt DEF DataCounterpart, DataCounterpartFails, LocalsTyped
<1> QED
  BY <1>2, <1>3

\* What a handler writes into the table is its packet's, and the clients send
\* their packets from where they are and pair the right indices.
LEMMA OwnedTableKept ==
  ASSUME RelayInv, NEW w \in Worker, Handle(w)
  PROVE  OwnedTable'
<1>1. /\ pc[w] # "idle" /\ Sent(pkt[w]) /\ pkt[w] \in Packets
      /\ pkt[w].type \in {"initiation", "response"} => pkt[w].sender \in Index
      /\ LocalsTyped /\ OwnedTable
  BY HandlerFlow, PacketTyped DEF RelayInv, IInv, OwnedHandlers, Sent, Handshakes
<1>2. CASE UNCHANGED <<addrOf, session>>
  BY <1>1, <1>2 DEF OwnedTable
<1>3. CASE AddPeerAddr(w)
  <2>1. /\ addrOf' = Table!Bind(addrOf, pkt[w].sender, pkt[w].src)
        /\ session' = session
        /\ pkt[w].type \in {"initiation", "response"}
    BY <1>3 DEF AddPeerAddr, Table!Register, At, Handshakes
  <2>2. pkt[w].src \in Home[Owner[pkt[w].sender]]
    BY <1>1, <2>1 DEF Sent
  <2> QED
    BY <1>1, <2>1, <2>2 DEF OwnedTable, Table!Bind
<1>4. CASE AssociatePeers(w)
  <2> DEFINE s == pkt[w].sender
             r == pkt[w].receiver
  <2>1. /\ session' = Table!Bind(Table!Bind(session, s, r), r, s)
        /\ addrOf' = addrOf
        /\ pkt[w].type = "response"
    BY <1>4 DEF AssociatePeers, Table!Link, At
  <2>2. s \in Index /\ r \in Index /\ Owner[r] = PeerOf[Owner[s]]
    BY <1>1, <2>1, ClientAssumption DEF Sent
  <2>3. Owner[s] = PeerOf[Owner[r]]
    BY <2>2, ClientAssumption
  <2> QED
    BY <1>1, <2>1, <2>2, <2>3 DEF OwnedTable, Table!Bind
<1>5. CASE UpdatePeerAddr(w)
  <2>1. /\ mate[w] \in DOMAIN addrOf
        /\ addrOf' = [addrOf EXCEPT ![mate[w]] = pkt[w].src]
        /\ session' = session
        /\ pkt[w].type = "data" /\ pc[w] = "move"
    BY <1>5 DEF UpdatePeerAddr, Table!Move, At
  <2>2. pkt[w].src \in Home[Owner[mate[w]]]
    BY <1>1, <2>1 DEF Sent, RelayInv, OwnedHandlers
  <2> QED
    BY <1>1, <2>1, <2>2 DEF OwnedTable
<1> QED
  BY <1>2, <1>3, <1>4, <1>5, HandlerEffect

\* A handler holds a destination from its lookup until it returns, and it
\* remains one of the receiver's owner.
LEMMA OwnedHandlersKept ==
  ASSUME RelayInv, NEW w \in Worker, Handle(w), LookUp(w)
  PROVE  OwnedHandlers'
<1>1. /\ pc[w] # "idle" /\ Sent(pkt[w])
      /\ LocalsTyped /\ OwnedTable /\ OwnedHandlers
      /\ \A v \in Worker \ {w} :
           pc'[v] = pc[v] /\ pkt'[v] = pkt[v] /\ mate'[v] = mate[v]
      /\ pc'[w] # "idle" => /\ pkt'[w] = pkt[w]
                            /\ Onward(pkt[w].type, pc[w], pc'[w])
                            /\ pc[w] # "counterpart" => mate'[w] = mate[w]
  BY HandlerFlow DEF RelayInv, IInv, OwnedHandlers
<1>2. ASSUME NEW v \in Worker, pc'[v] # "idle" PROVE Sent(pkt'[v])
  BY <1>1, <1>2 DEF OwnedHandlers
<1>3. ASSUME NEW v \in Worker, pc'[v] \in {"source", "move"}
      PROVE  mate'[v] \in Index /\ Owner[mate'[v]] = PeerOf[Owner[pkt'[v].receiver]]
  <2>1. CASE v # w
    BY <1>1, <1>3, <2>1 DEF OwnedHandlers
  <2>2. CASE v = w /\ pc[w] = "source"
    BY <1>1, <1>3, <2>2 DEF OwnedHandlers
  <2>3. CASE v = w /\ pc[w] = "counterpart"
    <3>1. /\ pkt[w].receiver \in DOMAIN session
          /\ mate'[w] = session[pkt[w].receiver] /\ pkt'[w] = pkt[w]
      BY <1>1, <1>3, <2>3, LookupsFind
    <3>2. session[pkt[w].receiver] \in Index
      BY <3>1 DEF RelayInv, IInv, TableInv, TableTyped, Mutual
    <3> QED
      BY <1>1, <2>3, <3>1, <3>2 DEF OwnedTable
  <2> QED
    BY <1>1, <1>3, <2>1, <2>2, <2>3 DEF Onward
<1>4. /\ DOMAIN dest' = {v \in Worker : pc'[v] \in Holding}
      /\ dest' \in [DOMAIN dest' -> Addr]
      /\ \A v \in DOMAIN dest' : dest'[v] \in Home[Owner[pkt'[v].receiver]]
  <2>0. /\ DOMAIN dest = {v \in Worker : pc[v] \in Holding}
        /\ dest \in [DOMAIN dest -> Addr]
        /\ \A v \in DOMAIN dest : dest[v] \in Home[Owner[pkt[v].receiver]]
    BY <1>1 DEF OwnedHandlers
  <2>1. CASE pc[w] \in {"lookup", "receiver"} /\ pc'[w] # "idle"
    <3>1. dest' = Table!Bind(dest, w, addrOf[pkt[w].receiver])
      BY <2>1 DEF LookUp
    <3>2. pkt[w].receiver \in DOMAIN addrOf
      BY <1>1, <2>1, LookupsFind
    <3>3. /\ addrOf[pkt[w].receiver] \in Addr
          /\ addrOf[pkt[w].receiver] \in Home[Owner[pkt[w].receiver]]
      BY <1>1, <3>2 DEF OwnedTable, RelayInv, IInv, TableInv, TableTyped
    <3>4. pc'[w] \in Holding
      BY <1>1, <2>1 DEF Onward, Holding
    <3>5. /\ DOMAIN dest' = DOMAIN dest \cup {w} /\ dest'[w] = addrOf[pkt[w].receiver]
          /\ \A v \in DOMAIN dest' \ {w} : dest'[v] = dest[v]
          /\ dest' = [v \in DOMAIN dest' |-> dest'[v]]
      BY <3>1 DEF Table!Bind
    <3>6. DOMAIN dest' = {v \in Worker : pc'[v] \in Holding}
      BY <1>1, <2>0, <3>4, <3>5
    <3>7. dest' \in [DOMAIN dest' -> Addr]
      BY <2>0, <3>1, <3>3 DEF Table!Bind
    <3>8. \A v \in DOMAIN dest' : dest'[v] \in Home[Owner[pkt'[v].receiver]]
      BY <1>1, <2>0, <2>1, <3>3, <3>5
    <3> QED
      BY <3>6, <3>7, <3>8
  <2>2. CASE pc'[w] = "idle"
    <3>1. dest' = Table!Without(dest, {w})
      BY <2>2 DEF LookUp
    <3>2. /\ DOMAIN dest' = DOMAIN dest \ {w}
          /\ \A v \in DOMAIN dest' : dest'[v] = dest[v]
          /\ dest' = [v \in DOMAIN dest' |-> dest'[v]]
      BY <3>1 DEF Table!Without, Table!Restrict
    <3> QED
      BY <1>1, <2>0, <2>2, <3>2 DEF Holding
  <2>3. CASE pc[w] \notin {"lookup", "receiver"} /\ pc'[w] # "idle"
    <3>1. dest' = dest
      BY <2>3 DEF LookUp
    <3>2. pc'[w] \in Holding <=> pc[w] \in Holding
      BY <1>1, <2>3 DEF Onward, Holding
    <3> QED
      BY <1>1, <2>0, <2>3, <3>1, <3>2
  <2> QED
    BY <2>1, <2>2, <2>3
<1> QED
  BY <1>2, <1>3, <1>4 DEF OwnedHandlers

\* The faults stay within their bound.
LEMMA FaultsBounded ==
  ASSUME faults \in 0 .. MaxFaults, Fault \/ Smooth
  PROVE  faults' \in 0 .. MaxFaults
BY ClientAssumption DEF Fault, Smooth

\* Every step of the relay among its clients is a step of the analyzer on the
\* packets it assumes, or leaves the analyzer alone.
LEMMA StepOfAnalyzer ==
  ASSUME RelayInv, [RelayNext]_relayVars
  PROVE  [Next]_vars
<1>1. CASE Read
  <2>1. PICK w \in Worker, p \in up : Receive(w, p)
    BY <1>1 DEF Read, ReadFromUDP
  <2>2. p \in Packets
    BY DEF RelayInv, NetworkInv, Sent
  <2> QED
    BY <2>1, <2>2 DEF Next
<1>2. CASE Work
  BY <1>2 DEF Work, Analyse, Next
<1>3. ASSUME NEW S, NEW forgotten, ExpireEntries(S, forgotten) PROVE Next
  <2>1. S \in SUBSET DOMAIN addrOf /\ forgotten \in SUBSET known
    BY <1>3 DEF ExpireEntries, Table!Expire
  <2> QED
    BY <1>3, <2>1 DEF ExpireEntries, Expire, Next
<1>4. ASSUME UNCHANGED relay PROVE UNCHANGED vars
  BY <1>4 DEF relay
<1>5. CASE Arrive
  BY <1>4, <1>5 DEF Arrive, Deliver, Discard
<1>6. ASSUME NEW c \in Client, Initiate(c) \/ Roam(c) \/ CookieExpires(c)
      PROVE  UNCHANGED vars
  BY <1>4, <1>6 DEF Initiate, Roam, CookieExpires
<1>7. CASE Lose
  BY <1>4, <1>7 DEF Lose
<1>8. CASE UNCHANGED relayVars
  BY <1>4, <1>8 DEF relayVars
<1> QED
  BY <1>1, <1>2, <1>3, <1>5, <1>6, <1>7, <1>8 DEF RelayNext, Leave, Forget

\* A worker reads a packet that a client has sent, and holds no destination.
LEMMA ReadKeeps ==
  ASSUME RelayInv, NEW w \in Worker, NEW p \in up, ReadFromUDP(w, p)
  PROVE  NetworkInv' /\ ClientInv' /\ OwnedTable' /\ OwnedHandlers' /\ CountedTyped'
<1>1. Receive(w, p) /\ UNCHANGED <<table, down, dest, counted, clients, mate>>
  BY DEF ReadFromUDP, Receive
<1>2. Sent(p) /\ up' \subseteq up /\ (Fault \/ Smooth)
  BY DEF RelayInv, NetworkInv, ReadFromUDP
<1>3. NetworkInv'
  BY <1>1, <1>2, FaultsBounded DEF RelayInv, NetworkInv
<1>4. ClientInv' /\ CountedTyped' /\ OwnedTable'
  BY <1>1 DEF RelayInv, ClientInv, CountedTyped, OwnedTable, clients, table
<1>5. /\ pc[w] = "idle" /\ pc'[w] \in {"receiver", "add", "match"}
      /\ pkt'[w] = p
      /\ \A v \in Worker \ {w} : pc'[v] = pc[v] /\ pkt'[v] = pkt[v]
  <2>1. FirstStep(p) \in {"receiver", "add", "match"}
    BY <1>2 DEF FirstStep, Sent
  <2> QED
    BY <1>1, <2>1 DEF Receive, RelayInv, IInv, LocalsTyped
<1>6. OwnedHandlers'
  <2>1. {v \in Worker : pc'[v] \in Holding} = {v \in Worker : pc[v] \in Holding}
    BY <1>5 DEF Holding
  <2>2. \A v \in DOMAIN dest : v # w
    BY <1>5 DEF RelayInv, OwnedHandlers, Holding
  <2>3. dest' = dest /\ mate' = mate
    BY <1>1
  <2> QED
    BY <1>2, <1>5, <2>1, <2>2, <2>3 DEF RelayInv, OwnedHandlers
<1> QED
  BY <1>3, <1>4, <1>6

\* Whatever a handler does, it sends what it may, to whom it may.
LEMMA AnalyseKeeps ==
  ASSUME RelayInv, NEW w \in Worker, Analyse(w)
  PROVE  NetworkInv' /\ ClientInv' /\ OwnedTable' /\ OwnedHandlers' /\ CountedTyped'
<1>1. Handle(w) /\ LookUp(w) /\ Count(w) /\ UNCHANGED <<up, clients>>
      /\ (Fault \/ Smooth)
      /\ \A d \in down' : d \in down \cup Peers(w)
  BY DEF Analyse
<1>2. NetworkInv'
  BY <1>1, FaultsBounded, PeersForwarded DEF RelayInv, NetworkInv
<1>3. ClientInv'
  BY <1>1 DEF RelayInv, ClientInv, clients
<1>4. CountedTyped'
  <2>1. CASE pc[w] = "logInitiated"
    <3>1. pkt[w].sender \in InitIndex
      BY <1>1, <2>1, HandlerTypes DEF RelayInv, OwnedHandlers, Sent
    <3> QED
      BY <1>1, <2>1, <3>1 DEF Count, RelayInv, CountedTyped
  <2>2. CASE pc[w] # "logInitiated"
    BY <1>1, <2>2 DEF Count, RelayInv, CountedTyped
  <2> QED
    BY <2>1, <2>2
<1> QED
  BY <1>1, <1>2, <1>3, <1>4, OwnedTableKept, OwnedHandlersKept

\* What leaves the table does not change what stays, nor what was read.
LEMMA ExpireEntriesKeeps ==
  ASSUME RelayInv, NEW S, NEW forgotten, ExpireEntries(S, forgotten)
  PROVE  NetworkInv' /\ ClientInv' /\ OwnedTable' /\ OwnedHandlers' /\ CountedTyped'
<1>1. /\ UNCHANGED <<locals, dest, counted, up, down, clients>>
      /\ Fault \/ Smooth
      /\ addrOf' = Table!Without(addrOf, S)
      /\ session' = Table!Without(session, S)
  BY DEF ExpireEntries, Table!Expire
<1>2. NetworkInv'
  BY <1>1, FaultsBounded DEF RelayInv, NetworkInv
<1>3. ClientInv' /\ CountedTyped' /\ OwnedHandlers'
  BY <1>1 DEF RelayInv, ClientInv, clients, CountedTyped, OwnedHandlers, locals
<1>4. OwnedTable'
  BY <1>1 DEF RelayInv, OwnedTable, Table!Without, Table!Restrict
<1> QED
  BY <1>2, <1>3, <1>4

-----------------------------------------------------------------------------
(* The steps of the clients *)

\* What a client sends is of the form the analyzer assumes of packets.
LEMMA PacketSent ==
  ASSUME NEW type \in Types, NEW s \in Index \cup {NoIndex}, NEW r \in Index \cup {NoIndex},
         NEW c \in Client, at[c] \in Addr, NEW k \in Key \cup {NoKey},
         type \in Handshakes => s \in Index
  PROVE  LET p == Packet(type, s, r, c, k) IN
         /\ p \in Packets
         /\ p.type = type /\ p.sender = s /\ p.receiver = r /\ p.src = at[c] /\ p.key = k
<1> DEFINE p == Packet(type, s, r, c, k)
<1>1. /\ p \in [type : Types, sender : Index \cup {NoIndex},
                receiver : Index \cup {NoIndex}, src : Addr,
                key : Key \cup {NoKey}, mac2 : BOOLEAN]
      /\ p.type = type /\ p.sender = s /\ p.receiver = r /\ p.src = at[c] /\ p.key = k
  BY DEF Packet
<1>2. p \in ClientPackets
  BY <1>1 DEF ClientPackets
<1> QED
  BY <1>1, <1>2, RelayAssumption

\* A packet of a session goes from a home of the client to the end that its
\* peer has drawn.
LEMMA TransportSent ==
  ASSUME NEW c \in Client, NEW a \in Home[c], at[c] \in Addr,
         NEW i \in Index, Owner[i] = PeerOf[c]
  PROVE  Sent([Transport(c, i) EXCEPT !.src = a])
<1> DEFINE p == [Transport(c, i) EXCEPT !.src = a]
<1>1. a \in Addr /\ PeerOf[Owner[i]] = c
  BY ClientAssumption
<1>2. /\ p \in [type : Types, sender : Index \cup {NoIndex},
                receiver : Index \cup {NoIndex}, src : Addr,
                key : Key \cup {NoKey}, mac2 : BOOLEAN]
      /\ p.type = "data" /\ p.receiver = i /\ p.src = a
  BY <1>1 DEF Transport, Packet, Types
<1>3. p \in Packets
  BY <1>2, RelayAssumption DEF ClientPackets, Handshakes
<1> QED
  BY <1>1, <1>2, <1>3 DEF Sent

\* In particular from where it is.
LEMMA TransportSentHere ==
  ASSUME NEW c \in Client, at[c] \in Home[c],
         NEW i \in Index, Owner[i] = PeerOf[c]
  PROVE  Sent(Transport(c, i))
<1>1. at[c] \in Addr
  BY ClientAssumption
<1>2. Transport(c, i) = [Transport(c, i) EXCEPT !.src = at[c]]
  BY DEF Transport, Packet
<1> QED
  BY <1>1, <1>2, TransportSent

\* What a client does when a datagram arrives: it sends at most one packet,
\* and the ends of its sessions stay those of its peer.
LEMMA TakeKeeps ==
  ASSUME ClientInv, NEW c \in Client, NEW d, Forwarded(d),
         \/ TakeInitiation(c, d) \/ TakeResponse(c, d)
         \/ TakeData(c, d) \/ TakeCookie(c, d)
  PROVE  /\ \A p \in up' \ up : Sent(p)
         /\ ClientInv'
<1>1. /\ at[c] \in Home[c] /\ at[c] \in Addr /\ InitIndex \subseteq Index
      /\ PeerOf[c] \in Client /\ PeerOf[PeerOf[c]] = c /\ PublicKey[PeerOf[c]] \in Key
  BY ClientAssumption DEF ClientInv
<1>2. CASE TakeInitiation(c, d)
  <2>1. PICK j \in FreeAnswers(c) :
          /\ Emit(Packet("response", j, d.sender, c, PublicKey[PeerOf[c]]))
          /\ remote' = Table!Bind(remote, j, d.sender)
          /\ confirmed' = confirmed \ {j}
    BY <1>2 DEF TakeInitiation
  <2>2. /\ j \in Index \ InitIndex /\ Owner[j] = c
        /\ d.sender \in InitIndex /\ Owner[d.sender] = PeerOf[c]
        /\ UNCHANGED <<at, cookie>>
    BY <1>2 DEF FreeAnswers, TakeInitiation, Forwarded
  <2> DEFINE p == Packet("response", j, d.sender, c, PublicKey[PeerOf[c]])
  <2>3. /\ p \in Packets /\ p.type = "response"
        /\ p.sender = j /\ p.receiver = d.sender /\ p.src = at[c]
    BY <1>1, <2>2, PacketSent DEF Types, Handshakes
  <2>4. Sent(p)
    BY <1>1, <2>2, <2>3 DEF Sent
  <2>5. ClientInv'
    BY <1>1, <2>1, <2>2 DEF ClientInv, Table!Bind
  <2> QED
    BY <2>1, <2>4, <2>5 DEF Emit
<1>3. CASE TakeResponse(c, d)
  <2>1. /\ remote' = Table!Bind(remote, d.receiver, d.sender)
        /\ Emit(Transport(c, d.sender))
        /\ UNCHANGED <<at, cookie, confirmed>>
        /\ d.sender \in Index /\ d.receiver \in InitIndex
        /\ Owner[d.receiver] = c /\ c = PeerOf[Owner[d.sender]]
        /\ d.receiver \notin DOMAIN remote
    BY <1>3 DEF TakeResponse, Forwarded
  <2>2. Owner[d.sender] = PeerOf[c]
    BY <2>1, ClientAssumption
  <2>3. Sent(Transport(c, d.sender))
    BY <1>1, <2>1, <2>2, TransportSentHere
  <2>4. ClientInv'
    BY <1>1, <2>1, <2>2 DEF ClientInv, Table!Bind
  <2> QED
    BY <2>1, <2>3, <2>4 DEF Emit
<1>4. CASE TakeData(c, d)
  <2>1. /\ d.receiver \in DOMAIN remote \ InitIndex
        /\ Owner[d.receiver] = c
        /\ confirmed' = confirmed \cup {d.receiver}
        /\ Emit(Transport(c, remote[d.receiver]))
        /\ UNCHANGED <<at, cookie, remote>>
    BY <1>4 DEF TakeData
  <2>2. remote[d.receiver] \in Index /\ Owner[remote[d.receiver]] = PeerOf[c]
    BY <2>1 DEF ClientInv
  <2>3. Sent(Transport(c, remote[d.receiver]))
    BY <1>1, <2>2, TransportSentHere
  <2>4. ClientInv'
    BY <2>1 DEF ClientInv
  <2> QED
    BY <2>1, <2>3, <2>4 DEF Emit
<1>5. CASE TakeCookie(c, d)
  BY <1>5 DEF TakeCookie, ClientInv
<1> QED
  BY <1>2, <1>3, <1>4, <1>5

\* The clients and the network do not touch the relay, and what clients send
\* is theirs to send.
LEMMA ClientsKeep ==
  ASSUME RelayInv,
         \/ Arrive \/ Lose
         \/ \E c \in Client : Initiate(c) \/ Roam(c) \/ CookieExpires(c)
  PROVE  NetworkInv' /\ ClientInv' /\ UNCHANGED relay
<1>1. NetworkInv /\ ClientInv
  BY DEF RelayInv
<1>2. ASSUME down' \subseteq down, \A p \in up' \ up : Sent(p),
             (Fault \/ Smooth)
      PROVE  NetworkInv'
  BY <1>1, <1>2, FaultsBounded DEF NetworkInv
<1>3. CASE Lose
  <2>1. /\ down' \subseteq down /\ up' \subseteq up /\ Fault
        /\ UNCHANGED clients /\ UNCHANGED relay
    BY <1>3 DEF Lose
  <2> QED
    BY <1>1, <1>2, <2>1 DEF clients, ClientInv
<1>4. ASSUME NEW d \in down, Discard(d) PROVE NetworkInv' /\ ClientInv' /\ UNCHANGED relay
  BY <1>1, <1>2, <1>4 DEF Discard, Smooth, clients, ClientInv
<1>5. ASSUME NEW d \in down, Deliver(d) PROVE NetworkInv' /\ ClientInv' /\ UNCHANGED relay
  <2>1. PICK c \in Client : \/ TakeInitiation(c, d) \/ TakeResponse(c, d)
                            \/ TakeData(c, d) \/ TakeCookie(c, d)
    BY <1>5 DEF Deliver
  <2>2. Forwarded(d)
    BY <1>1 DEF NetworkInv
  <2>3. (\A p \in up' \ up : Sent(p)) /\ ClientInv'
    BY <1>1, <2>1, <2>2, TakeKeeps
  <2> QED
    BY <1>2, <1>5, <2>3 DEF Deliver, Smooth
<1>6. ASSUME NEW c \in Client, Initiate(c) PROVE NetworkInv' /\ ClientInv' /\ UNCHANGED relay
  <2>1. PICK i \in InitIndex :
          /\ Owner[i] = c
          /\ Emit(Packet("initiation", i, NoIndex, c, PublicKey[PeerOf[c]]))
          /\ remote' = Table!Without(remote, {i})
          /\ UNCHANGED <<down, faults, at, cookie, confirmed, relay>>
    BY <1>6 DEF Initiate
  <2> DEFINE p == Packet("initiation", i, NoIndex, c, PublicKey[PeerOf[c]])
  <2>2. at[c] \in Home[c] /\ at[c] \in Addr /\ i \in Index /\ PublicKey[PeerOf[c]] \in Key
    BY <1>1, ClientAssumption DEF ClientInv
  <2>3. p \in Packets /\ p.type = "initiation" /\ p.sender = i /\ p.src = at[c]
    BY <2>2, PacketSent DEF Types, Handshakes
  <2>4. Sent(p)
    BY <2>1, <2>2, <2>3 DEF Sent
  <2>5. NetworkInv'
    BY <1>2, <2>1, <2>4 DEF Emit, Smooth
  <2>6. ClientInv'
    BY <1>1, <2>1 DEF ClientInv, Table!Without, Table!Restrict
  <2> QED
    BY <2>1, <2>5, <2>6
<1>7. ASSUME NEW c \in Client, Roam(c) PROVE NetworkInv' /\ ClientInv' /\ UNCHANGED relay
  <2>1. PICK a \in Home[c] \ {at[c]} :
          /\ at' = [at EXCEPT ![c] = a]
          /\ IF Sessions(c) = {} THEN UNCHANGED up
             ELSE \E i \in Sessions(c) :
                    up' = up \cup {[Transport(c, remote[i]) EXCEPT !.src = a]}
    BY <1>7 DEF Roam
  <2>2. /\ Fault /\ cookie' = cookie \ {c}
        /\ UNCHANGED <<remote, confirmed, down>> /\ UNCHANGED relay
    BY <1>7 DEF Roam
  <2>3. a \in Addr /\ at[c] \in Addr
    BY <1>1, ClientAssumption DEF ClientInv
  <2>4. ASSUME NEW i \in Sessions(c)
        PROVE  Sent([Transport(c, remote[i]) EXCEPT !.src = a])
    <3>1. remote[i] \in Index /\ Owner[remote[i]] = PeerOf[c]
      BY <1>1 DEF Sessions, ClientInv
    <3> QED
      BY <2>3, <3>1, TransportSent
  <2>5. \A p \in up' \ up : Sent(p)
    BY <2>1, <2>4
  <2>6. ClientInv'
    BY <1>1, <2>1, <2>2, <2>3 DEF ClientInv
  <2> QED
    BY <1>2, <2>2, <2>5, <2>6
<1>8. ASSUME NEW c \in Client, CookieExpires(c)
      PROVE  NetworkInv' /\ ClientInv' /\ UNCHANGED relay
  BY <1>1, <1>2, <1>8 DEF CookieExpires, ClientInv
<1> QED
  BY <1>3, <1>4, <1>5, <1>6, <1>7, <1>8 DEF Arrive

-----------------------------------------------------------------------------
(* The invariant and what follows from it *)

\* Nothing is known and nothing under way at the start.
LEMMA RelayInitHolds == RelayInit => RelayInv
<1> SUFFICES ASSUME RelayInit PROVE RelayInv
  OBVIOUS
<1>1. IInv
  BY InitHolds DEF RelayInit
<1>2. NetworkInv /\ CountedTyped
  BY ClientAssumption DEF RelayInit, NetworkInv, CountedTyped
<1>3. ClientInv
  <2>1. \A c \in Client : at[c] \in Home[c] /\ at[c] \in Addr
    BY ClientAssumption DEF RelayInit
  <2> QED
    BY <2>1 DEF RelayInit, ClientInv
<1>4. OwnedTable /\ OwnedHandlers
  BY DEF RelayInit, Init, Table!TableInit, OwnedTable, OwnedHandlers, Holding
<1> QED
  BY <1>1, <1>2, <1>3, <1>4 DEF RelayInv

\* Every step of the relay among its clients keeps the invariant.
LEMMA RelayNextKeeps == RelayInv /\ [RelayNext]_relayVars => RelayInv'
<1> SUFFICES ASSUME RelayInv, [RelayNext]_relayVars PROVE RelayInv'
  OBVIOUS
<1>1. IInv'
  BY StepOfAnalyzer, NextKeeps DEF RelayInv
<1>2. CASE Read
  BY <1>1, <1>2, ReadKeeps DEF Read, RelayInv
<1>3. CASE Work
  BY <1>1, <1>3, AnalyseKeeps DEF Work, RelayInv
<1>4. CASE (\E i \in Index : Leave(i)) \/ Forget
  BY <1>1, <1>4, ExpireEntriesKeeps DEF Leave, Forget, RelayInv
<1>5. ASSUME UNCHANGED relay PROVE OwnedTable' /\ OwnedHandlers' /\ CountedTyped'
  BY <1>5 DEF relay, vars, table, locals, RelayInv, OwnedTable, OwnedHandlers, CountedTyped
<1>6. CASE \/ Arrive \/ Lose
           \/ \E c \in Client : Initiate(c) \/ Roam(c) \/ CookieExpires(c)
  BY <1>1, <1>5, <1>6, ClientsKeep DEF RelayInv
<1>7. CASE UNCHANGED relayVars
  <2>1. NetworkInv' /\ ClientInv' /\ UNCHANGED relay
    BY <1>7 DEF relayVars, network, clients, RelayInv, NetworkInv, ClientInv
  <2> QED
    BY <1>1, <1>5, <2>1 DEF RelayInv
<1> QED
  BY <1>2, <1>3, <1>4, <1>6, <1>7 DEF RelayNext

\* The invariant holds in every reachable state.
THEOREM RelayInvariance == RelaySpec => []RelayInv
BY RelayInitHolds, RelayNextKeeps, PTL DEF RelaySpec

\* The relay among its clients implements the analyzer that is given its
\* packets: whatever is proved of Spec holds of RelaySpec too.
THEOREM ImplementsAnalyzer == RelaySpec => Spec
<1>1. RelayInit => Init
  BY DEF RelayInit
<1> QED
  BY <1>1, StepOfAnalyzer, RelayInvariance, PTL DEF RelaySpec, Spec

\* All parts of the relay always have their types: a handler holds a
\* destination exactly while it has read one and not returned it, only
\* initiations are counted, and only what both clients agreed on is confirmed.
THEOREM RelayTypeCorrect == RelaySpec => []RelayTypeOK
<1>1. RelayInv => RelayTypeOK
  BY InvTyped
     DEF RelayInv, RelayTypeOK, NetworkInv, Sent, Forwarded, ClientInv, OwnedHandlers,
         CountedTyped, Holding
<1> QED
  BY <1>1, RelayInvariance, PTL

\* However clients roam, packets are reordered and goroutines interleave
\* between the lookup of an address and its use, what is sent to an index is
\* sent to an address of the client that drew it.
THEOREM RoutedToItsOwner == RelaySpec => []RoutedToOwner
<1>1. RelayInv => RoutedToOwner
  BY DEF RelayInv, NetworkInv, Forwarded, RoutedToOwner
<1> QED
  BY <1>1, RelayInvariance, PTL

-----------------------------------------------------------------------------
(* One success per counted initiation *)

\* The handler of a response that has registered its sender.
Answering(w) == pc[w] \in {"lookup", "associate", "logCompleted"}

\* The initiation is counted, or will be by a handler that is on its way.
Counts(i) ==
  \/ i \in counted
  \/ \E v \in Worker : pc[v] \in {"record", "logInitiated"} /\ pkt[v].sender = i

\* SuccessCountedOnce is about one handler.  It is inductive with what lies
\* before: only one handler answers with an index, as the index stays taken;
\* that index is single until it is linked, and then linked to the receiver;
\* and an initiation without a session has not been a success yet.
CountInv ==
  /\ \A w \in Worker : Answering(w) => pkt[w].type = "response"
  /\ \A w, v \in Worker :
       Answering(w) /\ Answering(v) /\ pkt[w].sender = pkt[v].sender => w = v
  /\ \A w \in Worker : pc[w] \in {"lookup", "associate"} => Table!Single(pkt[w].sender)
  /\ \A w \in Worker : pc[w] = "logCompleted" =>
       /\ pkt[w].sender \in DOMAIN session
       /\ session[pkt[w].sender] = pkt[w].receiver
       /\ Counts(pkt[w].receiver)
  /\ \A i \in InitIndex \cap DOMAIN addrOf : i \notin DOMAIN session => Counts(i)

\* An initiation stops counting only by its success.
LEMMA CountsStays ==
  ASSUME RelayInv, NEW w \in Worker, Handle(w), Count(w), NEW i, Counts(i),
         pc[w] = "logCompleted" => i # pkt[w].receiver
  PROVE  Counts(i)'
<1>1. CASE i \in counted
  BY <1>1 DEF Count, Counts
<1>2. ASSUME NEW v \in Worker, pc[v] \in {"record", "logInitiated"}, pkt[v].sender = i
      PROVE  Counts(i)'
  <2>1. CASE v # w
    <3>1. pc'[v] = pc[v] /\ pkt'[v] = pkt[v]
      BY <2>1, HandlerFlow DEF RelayInv, IInv
    <3> QED
      BY <1>2, <3>1 DEF Counts
  <2>2. CASE v = w /\ pc[w] = "record"
    <3>1. pc'[w] = "logInitiated" /\ pkt'[w] = pkt[w]
      BY <2>2, HandlerAt DEF SetPeerPubkey, Goto, RelayInv, IInv, LocalsTyped
    <3> QED
      BY <1>2, <2>2, <3>1 DEF Counts
  <2>3. CASE v = w /\ pc[w] = "logInitiated"
    BY <1>2, <2>3 DEF Count, Counts
  <2> QED
    BY <1>2, <2>1, <2>2, <2>3
<1> QED
  BY <1>1, <1>2 DEF Counts

\* Two responses do not succeed for one initiation at a time: it is the other
\* end of one session.
LEMMA SuccessesDiffer ==
  ASSUME RelayInv, CountInv, NEW w \in Worker, pc[w] = "logCompleted"
  PROVE  /\ \A v \in Worker \ {w} : pc[v] = "logCompleted" => pkt[v].receiver # pkt[w].receiver
         /\ pkt[w].receiver \in DOMAIN session
<1>1. \A v \in Worker : pc[v] = "logCompleted" =>
        /\ pkt[v].receiver \in DOMAIN session
        /\ session[pkt[v].receiver] = pkt[v].sender
  BY DEF CountInv, RelayInv, IInv, TableInv, Mutual
<1> QED
  BY <1>1 DEF CountInv, Answering

\* Every step of a handler keeps the count in order.
LEMMA AnalyseCounts ==
  ASSUME RelayInv, CountInv, NEW w \in Worker, Handle(w), Count(w)
  PROVE  CountInv'
<1>1. /\ pc[w] # "idle" /\ Sent(pkt[w]) /\ LocalsTyped /\ InitIndex \subseteq Index
      /\ \A v \in Worker \ {w} : pc'[v] = pc[v] /\ pkt'[v] = pkt[v]
      /\ pc'[w] # "idle" => pkt'[w] = pkt[w] /\ Onward(pkt[w].type, pc[w], pc'[w])
  BY HandlerFlow, ClientAssumption DEF RelayInv, IInv, OwnedHandlers
<1>2. \A v \in Worker : Answering(v) => pkt[v].sender \in DOMAIN addrOf
  BY DEF CountInv, Answering, Table!Single, RelayInv, IInv, TableInv, TableTyped
<1>3. ASSUME NEW v \in Worker \ {w}, pc[v] = "logCompleted"
      PROVE  Counts(pkt[v].receiver)'
  <2>1. PICK i : i = pkt[v].receiver
    OBVIOUS
  <2>2. Counts(i) /\ (pc[w] = "logCompleted" => i # pkt[w].receiver)
    BY <1>3, <2>1, SuccessesDiffer DEF CountInv
  <2>3. Counts(i)'
    BY <2>2, CountsStays
  <2> QED
    BY <1>1, <2>1, <2>3 DEF Counts
<1>4. ASSUME NEW i \in InitIndex \cap DOMAIN addrOf, i \notin DOMAIN session
      PROVE  Counts(i)'
  BY <1>4, CountsStays, SuccessesDiffer DEF CountInv
<1>5. CASE AddPeerAddr(w)
  <2> DEFINE s == pkt[w].sender
  <2>1. /\ pc[w] = "add" /\ s \notin DOMAIN addrOf
        /\ DOMAIN addrOf' = DOMAIN addrOf \cup {s} /\ session' = session
        /\ s \notin DOMAIN session
        /\ pkt[w].type \in Handshakes
        /\ pc'[w] = AfterAdd(w)
    BY <1>1, <1>5 DEF AddPeerAddr, At, Goto, LocalsTyped, Table!Register, Table!Bind,
                      RelayInv, IInv, TableInv, TableTyped
  <2>2. pc'[w] # "idle" /\ ~Answering(w)
    BY <2>1 DEF AfterAdd, Handshakes, Answering
  <2>3. /\ pkt'[w] = pkt[w]
        /\ \/ pkt[w].type = "response" /\ pc'[w] = "lookup"
           \/ pkt[w].type = "initiation" /\ pc'[w] \in {"record", "logInitiated"}
    BY <1>1, <2>1, <2>2 DEF Onward
  <2>4. \A u, v \in Worker :
          Answering(u)' /\ Answering(v)' /\ pkt'[u].sender = pkt'[v].sender => u = v
    BY <1>1, <1>2, <2>1, <2>3 DEF CountInv, Answering
  <2>5. \A v \in Worker : pc'[v] \in {"lookup", "associate"} => Table!Single(pkt[v].sender)'
    BY <1>1, <2>1, <2>3 DEF CountInv, Table!Single
  <2>6. \A v \in Worker : pc'[v] = "logCompleted" =>
          /\ pkt'[v].sender \in DOMAIN session'
          /\ session'[pkt'[v].sender] = pkt'[v].receiver
          /\ Counts(pkt[v].receiver)'
    BY <1>1, <1>3, <2>1, <2>3 DEF CountInv
  <2>7. \A i \in InitIndex \cap DOMAIN addrOf' : i \notin DOMAIN session' => Counts(i)'
    <3>1. CASE pkt[w].type = "response"
      BY <1>1, <1>4, <2>1, <3>1 DEF Sent
    <3>2. CASE pkt[w].type = "initiation"
      <4>1. \A i \in InitIndex \cap DOMAIN addrOf' :
              i \notin DOMAIN session' => i = s \/ Counts(i)'
        BY <1>4, <2>1
      <4> QED
        BY <2>3, <3>2, <4>1 DEF Counts
    <3> QED
      BY <2>3, <3>1, <3>2
  <2>8. \A v \in Worker : Answering(v)' => pkt'[v].type = "response"
    BY <1>1, <2>1, <2>3 DEF CountInv, Answering
  <2> QED
    BY <2>4, <2>5, <2>6, <2>7, <2>8 DEF CountInv
<1>6. CASE AssociatePeers(w)
  <2> DEFINE s == pkt[w].sender
             r == pkt[w].receiver
  <2>1. /\ pc[w] = "associate" /\ pkt[w].type = "response"
        /\ Table!Single(s) /\ Table!Single(r)
        /\ session' = Table!Bind(Table!Bind(session, s, r), r, s)
        /\ addrOf' = addrOf
        /\ pc'[w] = "logCompleted" /\ pkt'[w] = pkt[w]
    BY <1>1, <1>6 DEF AssociatePeers, At, Goto, LocalsTyped, Table!Link
  <2>2. s \in Index \ InitIndex /\ r \in InitIndex
    BY <1>1, <2>1 DEF Sent
  <2>3. /\ DOMAIN session' = DOMAIN session \cup {s, r}
        /\ session'[s] = r
        /\ \A i \in DOMAIN session : session'[i] = session[i]
    BY <2>1, <2>2 DEF Table!Bind, Table!Single
  <2>4. Counts(r)'
    BY <1>4, <2>1, <2>2 DEF Table!Single
  <2>5. \A u, v \in Worker :
          Answering(u)' /\ Answering(v)' /\ pkt'[u].sender = pkt'[v].sender => u = v
    BY <1>1, <2>1 DEF CountInv, Answering
  <2>6. ASSUME NEW v \in Worker, pc'[v] \in {"lookup", "associate"}
        PROVE  Table!Single(pkt[v].sender)'
    <3>1. v # w /\ Answering(v) /\ Answering(w) /\ Table!Single(pkt[v].sender)
      BY <1>1, <2>1, <2>6 DEF Answering, CountInv
    <3>2. pkt[v].sender # s
      BY <3>1 DEF CountInv
    <3>3. pkt[v].sender # r
      BY <2>2, <3>1 DEF Answering, RelayInv, OwnedHandlers, Sent, CountInv
    <3> QED
      BY <1>1, <2>1, <2>3, <3>1, <3>2, <3>3 DEF Table!Single
  <2>7. \A v \in Worker : pc'[v] = "logCompleted" =>
          /\ pkt'[v].sender \in DOMAIN session'
          /\ session'[pkt'[v].sender] = pkt'[v].receiver
          /\ Counts(pkt[v].receiver)'
    BY <1>1, <1>3, <2>1, <2>3, <2>4 DEF CountInv
  <2>8. \A i \in InitIndex \cap DOMAIN addrOf' : i \notin DOMAIN session' => Counts(i)'
    BY <1>4, <2>1, <2>3
  <2>9. \A v \in Worker : Answering(v)' => pkt'[v].type = "response"
    BY <1>1, <2>1 DEF CountInv, Answering
  <2> QED
    BY <2>5, <2>6, <2>7, <2>8, <2>9 DEF CountInv
<1>7. CASE ~AddPeerAddr(w) /\ ~AssociatePeers(w)
  <2>1. DOMAIN addrOf' = DOMAIN addrOf /\ session' = session
    BY <1>7, HandlerEffect DEF UpdatePeerAddr, Table!Move
  <2>2. pc'[w] # "lookup"
    <3>1. CASE pc[w] = "add"
      BY <1>1, <1>7, <3>1, HandlerAt DEF AddPeerAddrFails, Return, LocalsTyped
    <3> QED
      BY <1>1, <3>1 DEF Onward
  <2>3. pc'[w] # "logCompleted"
    <3>1. CASE pc[w] = "associate"
      BY <1>1, <1>7, <3>1, HandlerAt
         DEF AssociatePeersNoLink, Return, LocalsTyped, CountInv, Table!Single
    <3> QED
      BY <1>1, <3>1 DEF Onward
  <2>4. /\ pc'[w] = "associate" => pc[w] = "lookup"
        /\ Answering(w)' => pc[w] = "lookup"
    BY <1>1, <2>2, <2>3 DEF Onward, Answering
  <2>5. \A u, v \in Worker :
          Answering(u)' /\ Answering(v)' /\ pkt'[u].sender = pkt'[v].sender => u = v
    <3>1. \A v \in Worker : Answering(v)' => Answering(v) /\ pkt'[v] = pkt[v]
      BY <1>1, <2>4 DEF Answering
    <3> QED
      BY <3>1 DEF CountInv
  <2>6. \A v \in Worker : pc'[v] \in {"lookup", "associate"} => Table!Single(pkt[v].sender)'
    BY <1>1, <2>1, <2>2, <2>4 DEF CountInv, Table!Single
  <2>7. \A v \in Worker : pc'[v] = "logCompleted" =>
          /\ pkt'[v].sender \in DOMAIN session'
          /\ session'[pkt'[v].sender] = pkt'[v].receiver
          /\ Counts(pkt[v].receiver)'
    BY <1>1, <1>3, <2>1, <2>3 DEF CountInv
  <2>8. \A i \in InitIndex \cap DOMAIN addrOf' : i \notin DOMAIN session' => Counts(i)'
    BY <1>4, <2>1
  <2>9. \A v \in Worker : Answering(v)' => pkt'[v].type = "response"
    BY <1>1, <2>4 DEF CountInv, Answering
  <2> QED
    BY <2>5, <2>6, <2>7, <2>8, <2>9 DEF CountInv
<1> QED
  BY <1>5, <1>6, <1>7

\* An entry does not expire under the handler that made it, so an answer
\* stays single or linked and an initiation counted.
LEMMA ExpireEntriesCounts ==
  ASSUME RelayInv, CountInv, NEW S, NEW forgotten, ExpireEntries(S, forgotten)
  PROVE  CountInv'
<1>1. /\ UNCHANGED <<pc, pkt, counted>>
      /\ DOMAIN addrOf' = DOMAIN addrOf \ S
      /\ DOMAIN session' = DOMAIN session \ S
      /\ \A i \in DOMAIN session' : session'[i] = session[i]
  BY DEF ExpireEntries, locals, Table!Expire, Table!Without, Table!Restrict
<1>2. \A w \in Worker : Answering(w) => pkt[w].sender \notin S
  <2>1. \A w \in Worker : Answering(w) => pkt[w].sender \in JustAdded
    BY DEF Answering, JustAdded
  <2> QED
    BY <2>1 DEF ExpireEntries
<1>3. \A i : Counts(i) => Counts(i)'
  BY <1>1 DEF Counts
<1>4. \A w \in Worker : pc[w] = "logCompleted" =>
        /\ pkt[w].sender \in DOMAIN session'
        /\ session'[pkt[w].sender] = pkt[w].receiver
        /\ Counts(pkt[w].receiver)'
  BY <1>1, <1>2 DEF CountInv, Answering, Counts
<1>5. \A i \in InitIndex \cap DOMAIN addrOf' : i \notin DOMAIN session' => Counts(i)'
  BY <1>1, <1>3 DEF CountInv
<1>6. \A w \in Worker : pc[w] \in {"lookup", "associate"} => Table!Single(pkt[w].sender)'
  BY <1>1, <1>2 DEF CountInv, Answering, Table!Single
<1> QED
  BY <1>1, <1>4, <1>5, <1>6 DEF CountInv, Answering

\* A packet that is read neither answers nor counts yet.
LEMMA ReadCounts ==
  ASSUME RelayInv, CountInv, NEW w \in Worker, NEW p \in up, ReadFromUDP(w, p)
  PROVE  CountInv'
<1>1. /\ pc[w] = "idle" /\ pc'[w] \in {"receiver", "add", "match"}
      /\ \A v \in Worker \ {w} : pc'[v] = pc[v] /\ pkt'[v] = pkt[v]
      /\ UNCHANGED <<addrOf, session, counted>>
  <2>1. FirstStep(p) \in {"receiver", "add", "match"}
    BY DEF FirstStep, RelayInv, NetworkInv, Sent
  <2> QED
    BY <2>1 DEF ReadFromUDP, Receive, RelayInv, IInv, LocalsTyped, table
<1>2. \A v \in Worker : pc'[v] \in {"lookup", "associate", "logCompleted"} =>
        v # w /\ pc'[v] = pc[v] /\ pkt'[v] = pkt[v]
  BY <1>1
<1>3. \A i : Counts(i) => Counts(i)'
  BY <1>1 DEF Counts
<1>4. \A v \in Worker : pc'[v] = "logCompleted" =>
        /\ pkt'[v].sender \in DOMAIN session'
        /\ session'[pkt'[v].sender] = pkt'[v].receiver
        /\ Counts(pkt[v].receiver)'
  BY <1>1, <1>2 DEF CountInv, Counts
<1>5. \A i \in InitIndex \cap DOMAIN addrOf' : i \notin DOMAIN session' => Counts(i)'
  BY <1>1, <1>3 DEF CountInv
<1>6. \A v \in Worker : pc'[v] \in {"lookup", "associate"} => Table!Single(pkt[v].sender)'
  BY <1>1, <1>2 DEF CountInv, Table!Single
<1> QED
  BY <1>2, <1>4, <1>5, <1>6 DEF CountInv, Answering

\* Every step keeps the count in order.
LEMMA CountInvKeeps == RelayInv /\ CountInv /\ [RelayNext]_relayVars => CountInv'
<1> SUFFICES ASSUME RelayInv, CountInv, [RelayNext]_relayVars PROVE CountInv'
  OBVIOUS
<1>1. CASE Read
  BY <1>1, ReadCounts DEF Read
<1>2. CASE Work
  BY <1>2, AnalyseCounts DEF Work, Analyse
<1>3. CASE (\E i \in Index : Leave(i)) \/ Forget
  BY <1>3, ExpireEntriesCounts DEF Leave, Forget
<1>4. ASSUME UNCHANGED relay PROVE CountInv'
  BY <1>4 DEF relay, vars, table, locals, CountInv, Answering, Counts, Table!Single
<1>5. CASE \/ Arrive \/ Lose
           \/ \E c \in Client : Initiate(c) \/ Roam(c) \/ CookieExpires(c)
  BY <1>4, <1>5, ClientsKeep
<1>6. CASE UNCHANGED relayVars
  BY <1>4, <1>6 DEF relayVars
<1> QED
  BY <1>1, <1>2, <1>3, <1>5, <1>6 DEF RelayNext

\* However responses are lost, doubled, delayed or refused, and whenever
\* entries expire, a success is counted only for an initiation that was
\* counted or is about to be, and for each of them once.
THEOREM SuccessesCountedOnce == RelaySpec => []SuccessCountedOnce
<1>1. RelayInit => CountInv
  BY DEF RelayInit, Init, Table!TableInit, CountInv, Answering
<1>2. CountInv => SuccessCountedOnce
  BY DEF CountInv, SuccessCountedOnce, Counts
<1> QED
  BY <1>1, <1>2, RelayInvariance, CountInvKeeps, PTL DEF RelaySpec
=============================================================================
