----------------------------- MODULE MCVPNStats -----------------------------
(* Model values for the runs of VPNStats. *)
EXTENDS VPNStats, TLC

CONSTANTS i1, i2, i3, a1, a2

TwoIndices   == {i1, i2}
ThreeIndices == {i1, i2, i3}
OneAddr      == {a1}
TwoAddrs     == {a1, a2}

\* Sound for the safety runs only.
Symmetry == Permutations(ThreeIndices)
=============================================================================
