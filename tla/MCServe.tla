------------------------------- MODULE MCServe -------------------------------
(***************************************************************************)
(* Small instances of Serve for TLC.                                       *)
(***************************************************************************)
EXTENDS Serve, TLC

CONSTANTS l1, l2, l3

TwoLoaders   == {l1, l2}
ThreeLoaders == {l1, l2, l3}

Symmetry == Permutations(Loader)
==============================================================================
