----------------------------- MODULE LogTransfer -----------------------------
(***************************************************************************)
(* What the raw layer promises, with no consumers, batches or failures in  *)
(* it: messages published to a log are copied to durable storage, and the  *)
(* source is told it may forget a message (its offset is committed) only   *)
(* once the copy exists.  Nothing stored is ever removed and no            *)
(* acknowledgement is taken back: at-least-once delivery.                  *)
(***************************************************************************)

CONSTANT Message        \* every message that may ever be published

VARIABLES published,    \* messages in the log
          stored,       \* messages with a durable copy
          acked         \* messages whose offset is committed

vars == <<published, stored, acked>>

Init == published = {} /\ stored = {} /\ acked = {}

Publish == /\ published \subseteq published'
           /\ published' \subseteq Message
           /\ UNCHANGED <<stored, acked>>

Store == /\ stored \subseteq stored'
         /\ stored' \subseteq published
         /\ UNCHANGED <<published, acked>>

Ack == /\ acked \subseteq acked'
       /\ acked' \subseteq stored
       /\ UNCHANGED <<published, stored>>

Next == Publish \/ Store \/ Ack

Spec == Init /\ [][Next]_vars
==============================================================================
