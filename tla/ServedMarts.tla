----------------------------- MODULE ServedMarts -----------------------------
(***************************************************************************)
(* What the serving layer promises its readers: a mart is served whole or  *)
(* not at all, and a reload replaces one complete generation of it by one  *)
(* at least as new, in one step.                                           *)
(***************************************************************************)
EXTENDS Naturals

CONSTANT Mart

VARIABLES built,    \* built[m]: the generation of m the transform stage wrote last, 0 before the first
          served    \* served[m]: the generation readers see, 0 when there is no table

vars == <<built, served>>

Init == /\ built \in [Mart -> {0, 1}]
        /\ served = [m \in Mart |-> 0]

Build == /\ built' \in [Mart -> Nat]
         /\ \A m \in Mart : built[m] <= built'[m]
         /\ UNCHANGED served

Swap == /\ served' \in [Mart -> Nat]
        /\ \A m \in Mart : served[m] <= served'[m] /\ served'[m] <= built[m]
        /\ UNCHANGED built

Next == Build \/ Swap

Spec == Init /\ [][Next]_vars
==============================================================================
