----------------------- MODULE ExchangeTableRefinement -----------------------
(***************************************************************************)
(* The exchange table as its readers see it.  Expired entries that no      *)
(* method has cleaned up yet are invisible, and an address is known while  *)
(* Contains says so.                                                       *)
(***************************************************************************)
EXTENDS ExchangeTable

AddrOf == [i \in LivePeers |-> peers[i].addr]

SessionOf ==
  [i \in {j \in LivePeers : peers[j].established} |-> peers[i].counterpart]

Known == {a \in DOMAIN endpoints : ~EndpointExpired(endpoints[a])}

Sessions == INSTANCE SessionTable WITH
  addrOf <- AddrOf, session <- SessionOf, known <- Known, keyOf <- peerPubkeys

\* Lazy cleanup, reference counting and the four deadlines are invisible to
\* the readers: every method and every passing of time is one step of the
\* abstract table, or none.
ImplementsSessionTable == Sessions!Spec
=============================================================================
