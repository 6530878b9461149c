--------------------------- MODULE MCReconciliation --------------------------
(***************************************************************************)
(* Small instances of Reconciliation for TLC.                              *)
(***************************************************************************)
EXTENDS Reconciliation

MCLag == [r1 |-> 2, r2 |-> 1]

Succeeded == [succeeds |-> TRUE, created |-> FirstDay, on |-> FirstDay, reversed |-> Null,
              paid |-> Null, delay |-> 0, kobo |-> 10000, channel |-> "bank_transfer",
              rate |-> Null, settledRate |-> Null]

\* Amounts at the edges: the smallest net amount there is, the step of the card
\* fee, a capped fee, and the smallest charge in USD at rates that move either way.
Naira(kobo, channel) == [Succeeded EXCEPT !.kobo = kobo, !.channel = channel]
Dollars(rate, later) ==
    [Succeeded EXCEPT !.kobo = 10000, !.channel = "card", !.rate = rate, !.settledRate = later]
Odd == Naira(10199, "qr")
Sales ==
    {Naira(10000, "bank_transfer"), Odd, Naira(250001, "card"), Naira(20000001, "bank_transfer"),
     Dollars(15908, 16392), Dollars(16392, 15908), Dollars(16001, 16001)}

\* What may be done to the payment of r1, and what the source and time may do to it.
Paid == {[s EXCEPT !.paid = paid] : s \in Sales, paid \in Adjustment}
    \cup {[Odd EXCEPT !.paid = paid, !.reversed = FirstDay] : paid \in Adjustment}

\* <<created, confirmed>>: of the day of publication, from one day to the next, and
\* long past every bucket before any of its events arrives.
Days == {<<FirstDay, FirstDay>>, <<FirstDay - 2, FirstDay - 1>>, <<0, 0>>}
Unpaid ==
    {[Succeeded EXCEPT !.created = d[1], !.on = d[2], !.reversed = reversed, !.paid = paid,
                       !.delay = delay] :
        d \in Days, reversed \in {Null, 4}, paid \in {"short", Null}, delay \in {0, 3}}
Failed == {[Succeeded EXCEPT !.succeeds = FALSE]}

\* r2 keeps the pipeline going: neither stage succeeds without a settlement.
AnyCharge == [r1 |-> Paid \cup Unpaid \cup Failed, r2 |-> {[Succeeded EXCEPT !.paid = "over"]}]

\* One charge of interest beside one that is settled.
NotSettled == [r1 |-> {Succeeded}, r2 |-> {[Succeeded EXCEPT !.paid = "exact"]}]
==============================================================================
