-------------------------------- MODULE MCRelay --------------------------------
(***************************************************************************)
(* Client A initiates as iA and roams between a1 and a2; client B answers  *)
(* as jB from b1, and makes itself known to the relay with initiations of  *)
(* its own, as iB, which A does not answer.                                *)
(***************************************************************************)
EXTENDS Relay

CONSTANTS A, B, iA, iB, jB, a1, a2, b1, kA, kB, w1, w2

TwoClients   == {A, B}
Partners     == [c \in TwoClients |-> IF c = A THEN B ELSE A]
TheirKeys    == [c \in TwoClients |-> IF c = A THEN kA ELSE kB]
Homes        == [c \in TwoClients |-> IF c = A THEN {a1, a2} ELSE {b1}]
ThreeIndices == {iA, iB, jB}
Initiators   == {iA, iB}
Owners       == [i \in ThreeIndices |-> IF i = iA THEN A ELSE B]
ThreeAddrs   == {a1, a2, b1}
TwoKeys      == {kA, kB}
OneList      == {TwoKeys}
OneWorker    == {w1}
TwoWorkers   == {w1, w2}
=============================================================================
