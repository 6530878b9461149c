------------------------------ MODULE Lifecycle ------------------------------
(***************************************************************************)
(* What the staged transactions promise: one status per charge, which is   *)
(* the furthest the charge has come in the events known so far, however    *)
(* late, repeated or out of order they arrived.                            *)
(***************************************************************************)
EXTENDS Naturals

CONSTANTS Event,        \* events, with their ref and status
          Rank,         \* how far a status is: [Status -> Nat]
          None          \* nothing is known of the charge

VARIABLES known,        \* the events the last publication was made from
          status        \* the status published for each charge

vars == <<known, status>>

Ref == {e.ref : e \in Event}

Furthest(r, events) ==
    LET own == {e \in events : e.ref = r}
    IN  IF own = {} THEN None
        ELSE (CHOOSE e \in own : \A d \in own : Rank[d.status] <= Rank[e.status]).status

Init == known = {} /\ status = [r \in Ref |-> None]

Publish == /\ known \subseteq known'
           /\ known' \subseteq Event
           /\ status' = [r \in Ref |-> Furthest(r, known')]

Spec == Init /\ [][Publish]_vars
==============================================================================
