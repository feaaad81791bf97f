------------------------- MODULE MCWireguardAnalyzer -------------------------
(***************************************************************************)
(* One handshake between A and B.  A initiates as index i1 from address a1 *)
(* or, having roamed, a2; B answers as i2 from b1.  An initiation carries  *)
(* a mac1 under the key of its recipient B, the response one under A's.    *)
(* Every index belongs to one handshake, as with random 32-bit indices.    *)
(***************************************************************************)
EXTENDS WireguardAnalyzer, TLC

CONSTANTS i1, i2, a1, a2, b1, kA, kB, w1, w2, r1, r2

Packet(t, s, r, a, k, m) ==
  [type |-> t, sender |-> s, receiver |-> r, src |-> a, key |-> k, mac2 |-> m]

Initiation(m) == Packet("initiation", i1, NoIndex, a1, kB, m)
Response      == Packet("response", i2, i1, b1, kA, FALSE)
CookieReply   == Packet("cookie", NoIndex, i1, b1, NoKey, FALSE)
Data(r, a)    == Packet("data", NoIndex, r, a, NoKey, FALSE)

Handshake == {Initiation(TRUE), Initiation(FALSE), Response}
Traffic   == Handshake \cup {CookieReply, Data(i1, b1), Data(i2, a2)}

TwoIndices   == {i1, i2}
ThreeAddrs   == {a1, a2, b1}
TwoAddrs     == {a1, b1}
TwoKeys      == {kA, kB}
AnyList      == SUBSET TwoKeys
CheckedLists == AnyList \ {{}}
TwoWorkers   == {w1, w2}
OneWorker    == {w1}
OneReloader  == {r1}
TwoReloaders == {r1, r2}

ASSUME IndicesAssumption == OneKeyPerIndex

Symmetry == Permutations(TwoWorkers)
=============================================================================
