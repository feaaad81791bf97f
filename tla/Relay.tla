--------------------------------- MODULE Relay ---------------------------------
(***************************************************************************)
(* The relay at work between WireGuard clients: internal/relay/relay.go    *)
(* runs the handlers of WireguardAnalyzer on what arrives and sends what   *)
(* they return, over a network that loses, duplicates and reorders.  The   *)
(* packets are no longer given: they are what the clients send, so that it *)
(* makes sense to ask whether a session comes about, who receives what and *)
(* how many handshakes are counted.                                        *)
(*                                                                         *)
(* The clients are outside the repository.  They are modelled by what the  *)
(* relay needs of them: the index and the address they use, when they      *)
(* retry, and what they answer.  Random 32-bit indices are fresh, which is *)
(* why a client takes an index again only when no packet, no handler and   *)
(* no entry of the table has it.  The allowed keys do not change here.     *)
(***************************************************************************)
EXTENDS WireguardAnalyzer, Integers, FiniteSets

CONSTANTS
  Client,
  PeerOf,       \* client -> the client it wants a session with, and the reverse
  PublicKey,    \* client -> key
  Home,         \* client -> the addresses it roams between
  Owner,        \* index -> the client that draws it
  InitIndex,    \* indices of initiations, the others are of responses
  MaxFaults     \* bound on the faults of a behaviour

ASSUME ClientAssumption ==
  /\ PeerOf \in [Client -> Client]
  /\ \A c \in Client : PeerOf[PeerOf[c]] = c
  /\ PublicKey \in [Client -> Key]
  /\ Home \in [Client -> (SUBSET Addr) \ {{}}]
  /\ \A c, d \in Client : c # d => Home[c] \cap Home[d] = {}
  /\ Owner \in [Index -> Client]
  /\ InitIndex \subseteq Index
  /\ IsFiniteSet(Index)
  /\ MaxFaults \in Nat

\* What the clients may send.
ClientPackets ==
  {p \in [type : Types, sender : Index \cup {NoIndex},
          receiver : Index \cup {NoIndex}, src : Addr,
          key : Key \cup {NoKey}, mac2 : BOOLEAN] :
     p.type \in Handshakes => p.sender \in Index}

ASSUME RelayAssumption ==
  /\ Reloader = {}
  /\ KeyLists = {{PublicKey[c] : c \in Client}}
  /\ ClientPackets \subseteq Packets

VARIABLES
  up,          \* packets in flight to the relay
  down,        \* datagrams in flight from it: [to, type, sender, receiver]
  dest,        \* worker -> the address its handler will return
  counted,     \* history: initiations counted without a success so far
  faults,      \* the faults so far
  at,          \* client -> its address
  cookie,      \* clients that hold a cookie for their address
  remote,      \* index in use by a client -> the index of its peer's end
  confirmed    \* indices of responses whose session has carried data

network  == <<up, down, faults>>
relay    == <<vars, dest, counted>>
clients  == <<at, cookie, remote, confirmed>>
relayVars == <<network, relay, clients>>

Datagram == [to : Addr, type : Types, sender : Index \cup {NoIndex},
             receiver : Index \cup {NoIndex}]

\* A destination is held exactly while a handler has read one and not yet
\* returned it; among the clients, only what they have agreed on is confirmed.
RelayTypeOK ==
  /\ TypeOK
  /\ up \subseteq Packets
  /\ down \subseteq Datagram
  /\ dest \in [DOMAIN dest -> Addr]
  /\ DOMAIN dest = {w \in Worker : pc[w] \in
       {"associate", "logCompleted", "counterpart", "source", "move", "logData"}}
  /\ faults \in 0 .. MaxFaults
  /\ counted \subseteq InitIndex
  /\ \A c \in Client : at[c] \in Home[c]
  /\ cookie \subseteq Client
  /\ remote \in [DOMAIN remote -> Index] /\ DOMAIN remote \subseteq Index
  /\ confirmed \subseteq DOMAIN remote \ InitIndex

RelayInit ==
  /\ Init
  /\ up = {} /\ down = {}
  /\ dest = [w \in {} |-> w]
  /\ counted = {}
  /\ faults = 0
  /\ at = [c \in Client |-> CHOOSE a \in Home[c] : TRUE]
  /\ cookie = {}
  /\ remote = [i \in {} |-> i]
  /\ confirmed = {}

-----------------------------------------------------------------------------
(* Faults *)

\* Whatever goes wrong goes wrong at most MaxFaults times, at any moments.
Fault  == faults < MaxFaults /\ faults' = faults + 1
Smooth == UNCHANGED faults

Lose ==
  /\ Fault
  /\ \/ \E p \in up : up' = up \ {p} /\ UNCHANGED down
     \/ \E d \in down : down' = down \ {d} /\ UNCHANGED up
  /\ UNCHANGED <<relay, clients>>

-----------------------------------------------------------------------------
(* The relay *)

\* A duplicate of the packet may stay in the network.
ReadFromUDP(w, p) ==
  /\ p \in up
  /\ Receive(w, p)
  /\ \/ Smooth /\ up' = up \ {p}
     \/ Fault /\ UNCHANGED up
  /\ UNCHANGED <<down, dest, counted, clients>>

Forward(w, a) ==
  [to |-> a, type |-> pkt[w].type, sender |-> pkt[w].sender, receiver |-> pkt[w].receiver]

CookieReplyTo(p) ==
  [to |-> p.src, type |-> "cookie", sender |-> NoIndex, receiver |-> p.sender]

\* What the handler returns with its next step.
Peers(w) ==
  CASE pc[w] = "list" ->
         {Forward(w, a) : a \in known \ {pkt[w].src}}
    [] pc[w] = "gate" /\ ~pkt[w].mac2 /\ pkt[w].src \notin known ->
         {CookieReplyTo(pkt[w])}
    [] pc[w] = "lookup" /\ pkt[w].type = "cookie" ->
         {Forward(w, addrOf[i]) : i \in {pkt[w].receiver} \cap DOMAIN addrOf}
    [] pc[w] \in {"logCompleted", "logData"} ->
         {Forward(w, dest[w])}
    [] OTHER -> {}

\* Mutant: the address stays for the next packet.
LookUpKept(w) ==
  dest' = IF pc[w] \in {"lookup", "receiver"} /\ pc'[w] # "idle"
          THEN Table!Bind(dest, w, addrOf[pkt[w].receiver]) ELSE dest

\* GetPeerAddr: the address is read here and used when the handler returns.
LookUp(w) ==
  dest' = CASE pc[w] \in {"lookup", "receiver"} /\ pc'[w] # "idle" ->
                 Table!Bind(dest, w, addrOf[pkt[w].receiver])
            [] pc'[w] = "idle" -> Table!Without(dest, {w})
            [] OTHER -> dest

\* TotalHandshakes and SuccessfulHandshakes, by initiation.
Count(w) ==
  counted' = CASE pc[w] = "logInitiated" -> counted \cup {pkt[w].sender}
               [] pc[w] = "logCompleted" -> counted \ {pkt[w].receiver}
               [] OTHER -> counted

\* limit.Allow is asked for each of several recipients, and may refuse some.
Broadcasts(w) == pc[w] = "list" /\ Cardinality(Peers(w)) > 1

Analyse(w) ==
  /\ Handle(w)
  /\ LookUp(w)
  /\ Count(w)
  /\ \/ Smooth /\ down' = down \cup Peers(w)
     \/ /\ Fault
        /\ Broadcasts(w)
        /\ \E lucky \in SUBSET Peers(w) : down' = down \cup lucky
  /\ UNCHANGED <<up, clients>>

\* An assumption on the environment, not a rule of the code.  Deadlines are
\* tens of seconds: as a rule no handler and no packet is under way so long
\* that an index expires meanwhile, and an address whose client retries every
\* few seconds is not forgotten.
Quiet == up = {} /\ down = {} /\ \A w \in Worker : pc[w] = "idle"

\* Another: a handler is not under way for as long as an entry it made lives,
\* 45 seconds at least.  Nothing in the table keeps the entry for it.
JustAdded ==
  {pkt[w].sender : w \in {v \in Worker :
     pc[v] \in {"record", "logInitiated", "list", "lookup", "associate", "logCompleted"}}}

ExpireEntries(S, forgotten) ==
  /\ S \cap JustAdded = {}
  /\ IF Quiet /\ forgotten \cap {at[c] : c \in Client} = {} THEN Smooth ELSE Fault
  /\ Table!Expire(S, forgotten)
  /\ Follow
  /\ UNCHANGED <<locals, control, dest, counted, up, down, clients>>

-----------------------------------------------------------------------------
(* The clients *)

Mentions(m, i) == i \in {m.sender, m.receiver}

Fresh(i) ==
  /\ i \notin DOMAIN addrOf
  /\ \A m \in up \cup down : ~Mentions(m, i)
  /\ \A w \in Worker : pc[w] # "idle" => ~Mentions(pkt[w], i)

Packet(type, sender, receiver, c, key) ==
  [type |-> type, sender |-> sender, receiver |-> receiver, src |-> at[c], key |-> key,
   mac2 |-> type = "initiation" /\ c \in cookie]

Transport(c, i) == Packet("data", NoIndex, i, c, NoKey)

\* The indices a client has transport keys for and may send with.
Sessions(c) ==
  {i \in DOMAIN remote : Owner[i] = c /\ i \in InitIndex \cup confirmed}

Emit(p) == up' = up \cup {p}

\* A first attempt or a retry, with a new index each time.
Initiate(c) ==
  \E i \in InitIndex :
    /\ Owner[i] = c
    /\ Fresh(i)
    /\ Emit(Packet("initiation", i, NoIndex, c, PublicKey[PeerOf[c]]))
    /\ remote' = Table!Without(remote, {i})
    /\ UNCHANGED <<down, faults, at, cookie, confirmed, relay>>

FreeAnswers(c) == {j \in Index \ InitIndex : Owner[j] = c /\ Fresh(j)}

TakeInitiation(c, d) ==
  /\ d.type = "initiation"
  /\ Owner[d.sender] = PeerOf[c]
  /\ \E j \in FreeAnswers(c) :
       /\ Emit(Packet("response", j, d.sender, c, PublicKey[PeerOf[c]]))
       /\ remote' = Table!Bind(remote, j, d.sender)
       /\ confirmed' = confirmed \ {j}
  /\ UNCHANGED <<at, cookie>>

\* The initiator confirms the session with a first packet at once.
TakeResponse(c, d) ==
  /\ d.type = "response"
  /\ d.receiver \notin DOMAIN remote
  /\ Owner[d.receiver] = c
  /\ remote' = Table!Bind(remote, d.receiver, d.sender)
  /\ Emit(Transport(c, d.sender))
  /\ UNCHANGED <<at, cookie, confirmed>>

\* The responder answers every packet with one of its own.
TakeData(c, d) ==
  /\ d.type = "data"
  /\ Owner[d.receiver] = c
  /\ d.receiver \in DOMAIN remote \ InitIndex
  /\ confirmed' = confirmed \cup {d.receiver}
  /\ Emit(Transport(c, remote[d.receiver]))
  /\ UNCHANGED <<at, cookie, remote>>

TakeCookie(c, d) ==
  /\ d.type = "cookie"
  /\ Owner[d.receiver] = c
  /\ cookie' = cookie \cup {c}
  /\ UNCHANGED <<up, at, remote, confirmed>>

Wanted(d) ==
  \E c \in Client :
    /\ at[c] = d.to
    /\ CASE d.type = "initiation" -> Owner[d.sender] = PeerOf[c] /\ FreeAnswers(c) # {}
         [] d.type = "response"   -> d.receiver \notin DOMAIN remote /\ Owner[d.receiver] = c
         [] d.type = "data"       -> /\ Owner[d.receiver] = c
                                     /\ d.receiver \in DOMAIN remote \ InitIndex
         [] OTHER                 -> Owner[d.receiver] = c

Deliver(d) ==
  /\ d \in down
  /\ \E c \in Client :
       /\ at[c] = d.to
       /\ \/ TakeInitiation(c, d) \/ TakeResponse(c, d)
          \/ TakeData(c, d) \/ TakeCookie(c, d)
  /\ down' = down \ {d}
  /\ UNCHANGED <<faults, relay>>

\* Nobody is at the address, or a client has no use for it.
Discard(d) ==
  /\ d \in down
  /\ ~Wanted(d)
  /\ down' = down \ {d}
  /\ UNCHANGED <<up, faults, relay, clients>>

\* The next packet of a session, if there is one, comes from the new address.
Roam(c) ==
  /\ Fault
  /\ \E a \in Home[c] \ {at[c]} :
       /\ at' = [at EXCEPT ![c] = a]
       /\ IF Sessions(c) = {} THEN UNCHANGED up
          ELSE \E i \in Sessions(c) :
                 up' = up \cup {[Transport(c, remote[i]) EXCEPT !.src = a]}
  /\ cookie' = cookie \ {c}
  /\ UNCHANGED <<remote, confirmed, down, relay>>

\* Cookies change every two hours; a client keeps one for two minutes.
CookieExpires(c) ==
  /\ Fault
  /\ c \in cookie
  /\ cookie' = cookie \ {c}
  /\ UNCHANGED <<at, remote, confirmed, up, down, relay>>

-----------------------------------------------------------------------------
Read == \E w \in Worker, p \in up : ReadFromUDP(w, p)
Work == \E w \in Worker : Analyse(w)
Arrive == \E d \in down : Deliver(d) \/ Discard(d)
Leave(i) ==
  \E S \in SUBSET DOMAIN addrOf : i \in S /\ ExpireEntries(S, {})
Forget == \E forgotten \in SUBSET known : ExpireEntries({}, forgotten)

RelayNext ==
  \/ Read \/ Work \/ Arrive
  \/ \E i \in Index : Leave(i)
  \/ Forget
  \/ \E c \in Client : Initiate(c) \/ Roam(c) \/ CookieExpires(c)
  \/ Lose

RelaySpec == RelayInit /\ [][RelayNext]_relayVars

\* The workers run, the network delivers, clients retry and deadlines pass.
\* A deadline passes between packets and a client has a fresh index when
\* none of the old one is left, again and again if not for ever: strong
\* fairness.  Nobody is obliged to roam or to send.
RelayFairSpec ==
  /\ RelaySpec
  /\ WF_relayVars(Read \/ Work \/ Arrive)
  /\ \A c \in Client : WF_relayVars(Initiate(c))
  /\ \A i \in Index : SF_relayVars(Leave(i))

-----------------------------------------------------------------------------
(* Properties *)

Connected ==
  \E i \in InitIndex \cap DOMAIN remote \cap DOMAIN session :
    session[i] = remote[i] /\ remote[i] \in confirmed

\* README.md:3, "enabling NAT traversal": whatever was lost, refused, doubled
\* or left half registered before, a client unknown to the relay is let in
\* with a cookie, reaches its peer by broadcast, and the two come to have a
\* session that the relay pairs as they do and that has carried the packet
\* that confirms it, from initiator to responder, again and again.
SessionComes == []<>Connected

\* http_api.go:132, "component scores (0-100)": a handshake is counted as a
\* success only for an initiation that was counted, or is about to be, and
\* for each of them once, however responses are doubled or delayed.
SuccessCountedOnce ==
  \A w \in Worker : pc[w] = "logCompleted" =>
    \/ pkt[w].receiver \in counted
    \/ \E v \in Worker : /\ pc[v] \in {"record", "logInitiated"}
                        /\ pkt[v].sender = pkt[w].receiver

\* What is sent to an index goes to an address of the client that drew it,
\* although addresses are read under one lock, moved under another and used
\* under none.
RoutedToOwner ==
  \A d \in down : d.type \in {"response", "data"} => d.to \in Home[Owner[d.receiver]]
=============================================================================
