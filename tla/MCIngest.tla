------------------------------ MODULE MCIngest -------------------------------
(***************************************************************************)
(* Small instances of Ingest for TLC.                                      *)
(***************************************************************************)
EXTENDS Ingest, TLC

CONSTANTS p1, p2, a1, a2

OnePartition  == {p1}
TwoPartitions == {p1, p2}
TwoAttempts   == {a1, a2}

\* Attempts that took their ingested_at in different seconds.
TwoStamps == (a1 :> 0) @@ (a2 :> 1)

\* Messages per partition.
ShortLog  == [p \in Partition |-> 1]
LongLog   == [p \in Partition |-> 3]
UnevenLog == (p1 :> 2) @@ (p2 :> 1)
==============================================================================
