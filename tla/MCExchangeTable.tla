--------------------------- MODULE MCExchangeTable ---------------------------
(* Model values and symmetry for the runs of ExchangeTable and its refinement. *)
EXTENDS ExchangeTableRefinement, TLC

CONSTANTS i1, i2, i3, a1, a2, k1, k2

ThreeIndices == {i1, i2, i3}
TwoIndices   == {i1, i2}
TwoAddrs     == {a1, a2}
OneAddr      == {a1}
TwoKeys      == {k1, k2}
OneKey       == {k1}

\* Sound for the safety runs only.
Symmetry == Permutations(ThreeIndices) \cup Permutations(TwoAddrs)
              \cup Permutations(TwoKeys)
=============================================================================
