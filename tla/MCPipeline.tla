----------------------------- MODULE MCPipeline ------------------------------
(***************************************************************************)
(* A small instance of Pipeline for TLC: one batch without blemish and one *)
(* with a settlement dated before its charge, which                        *)
(* assert_settlement_not_before_transaction finds in fct_settlements.      *)
(***************************************************************************)
EXTENDS Pipeline

CONSTANTS good, bad, v1, v2

MCBatch == {good, bad}
MCSuffix == {v1, v2}
MCRefused == [m \in Mart |-> IF m = "fct_settlements" THEN {bad} ELSE {}]

Symmetry == Permutations(Suffix)
==============================================================================
