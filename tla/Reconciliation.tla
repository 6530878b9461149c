--------------------------- MODULE Reconciliation ---------------------------
(***************************************************************************)
(* The dbt models: staged charges and settlement lines, and                *)
(* mart_settlement_reconciliation over them.                               *)
(*                                                                         *)
(* Days pass, the events of each charge arrive in the raw layer in any     *)
(* order, and a pipeline run (the collapse Staging models in detail, then  *)
(* dbt build) recomputes the mart from what has arrived.  Times are days;  *)
(* the events of a charge are those src/settlement/generate.py emits.      *)
(***************************************************************************)
EXTENDS Integers, FiniteSets, FiniteSetsExt

CONSTANTS Lag,          \* Lag[r]: settlement_lag_days of the merchant of charge r
          Charges,      \* Charges[r]: what may happen to charge r
          Null,         \* SQL null
          Redelivery,   \* may an event arrive again on another day?
          FirstDay,     \* the day the events are published, end in generate_events
          LastDay,      \* bound on time
          Scale         \* exchange rates are multiples of 1/Scale naira

Ref == DOMAIN Lag

\* exact, partial, short and over are the branches of generate.py:284-292.
Adjustment == {"exact", "partial", "short", "over"}

\* A charge is created on one day and confirmed on the same day or, past midnight,
\* the next; reversed is the day of its reversal.  Kobo is what _amount_kobo
\* draws from; rate and settledRate are Null in NGN.
Kobo   == {k \in Nat : 10000 <= k /\ k <= 800000000}
Charge == [succeeds : BOOLEAN, created : Nat, on : Nat, reversed : Nat \cup {Null},
           paid : Adjustment \cup {Null}, delay : Nat,
           kobo : Kobo, channel : {"card", "bank_transfer", "ussd", "qr"},
           rate : Nat \cup {Null}, settledRate : Nat \cup {Null}]

NGN_PER_USD == 1615
Near(rate) == 985 * NGN_PER_USD * Scale <= 1000 * rate /\ 1000 * rate <= 1015 * NGN_PER_USD * Scale

ASSUME ConstantsAssumption ==
    /\ Lag \in [Ref -> {1, 2}]
    /\ Scale \in Nat \ {0}
    /\ Redelivery \in BOOLEAN
    /\ FirstDay \in Nat /\ LastDay \in Nat /\ FirstDay <= LastDay
    /\ Null \notin Nat /\ Null \notin [ref : Ref, date : Nat, net : Nat]
    /\ \A r \in Ref : \A c \in Charges[r] :
          /\ c \in Charge
          /\ c.on \in c.created..(c.created + 1) /\ c.on <= FirstDay
          /\ c.reversed # Null => c.succeeds /\ c.reversed \in c.on..(c.on + 4)
          /\ c.paid # Null => c.succeeds
          /\ c.rate = Null <=> c.settledRate = Null
          /\ c.rate # Null => c.channel = "card" /\ Near(c.rate) /\ Near(c.settledRate)

\* _fee_kobo; in USD it is given cents.
Fee(amount, channel) ==
    IF channel = "bank_transfer" THEN Min({100000, Max({5000, (amount * 5) \div 1000})})
    ELSE Min({200000, (amount * 15) \div 1000 + (IF amount > 250000 THEN 10000 ELSE 0)})

\* Amount and fee of a charge, in kobo at the given rate.
Money(c, rate) ==
    LET amount == IF rate = Null THEN c.kobo ELSE Max({100, c.kobo \div NGN_PER_USD})
        fee    == Fee(amount, c.channel)
    IN  IF rate = Null THEN [amount |-> amount, fee |-> fee]
        ELSE [amount |-> (amount * rate) \div Scale, fee |-> (fee * rate) \div Scale]
Net(c, rate) == Money(c, rate).amount - Money(c, rate).fee

\* The net amount of the settlement line.
SettledNet(base, paid) ==
    CASE paid = "exact"   -> base
      [] paid = "partial" -> base \div 2
      [] paid = "short"   -> Max({0, base - Max({1, base \div 100})})
      [] paid = "over"    -> base + Max({1, base \div 100})

STATUS_RANK == [pending |-> 0, failed |-> 1, success |-> 2, reversed |-> 3]
Status      == DOMAIN STATUS_RANK

VARIABLES
    today,
    charge,     \* charge[r] \in Charges[r]
    copies,     \* raw transactions: <<ref, status, the day it arrived>>
    settled,    \* raw settlements: the charges whose line has arrived
    tx, lines,  \* stg_transactions and stg_settlements
    basis       \* history: copies and settled as they were at the last run

vars == <<today, charge, copies, settled, tx, lines, basis>>

------------------------------------------------------------------------------
\* The staged rows, from the kept copy of each event.

Day == FirstDay..LastDay

Kept == {kept \in [{<<c[1], c[2]>> : c \in copies} -> Day] :
            \A e \in DOMAIN kept : <<e[1], e[2], kept[e]>> \in copies}

StatusesOf(r, kept) == {e[2] : e \in {d \in DOMAIN kept : d[1] = r}}

UpdatedOn(r, status) ==
    CASE status = "pending"  -> charge[r].created
      [] status = "reversed" -> charge[r].reversed
      [] OTHER               -> charge[r].on

StagedTransaction(r, kept) ==
    LET statuses  == StatusesOf(r, kept)
        status    == CHOOSE s \in statuses : \A u \in statuses : STATUS_RANK[u] <= STATUS_RANK[s]
        succeeded == IF "success" \in statuses THEN charge[r].on ELSE Null
    IN  [ref |-> r, status |-> status, succeeded |-> succeeded,
         expected |-> Lag[r] + IF succeeded = Null THEN UpdatedOn(r, status) ELSE succeeded,
         watermark |-> FirstDay + 2 - charge[r].delay,
         ingested |-> kept[<<r, status>>]]

\* Mutant: the lag taken off the day of the charge.
LagBefore(r) ==
    [ref |-> r, date |-> charge[r].on - Lag[r],
     net |-> SettledNet(Net(charge[r], charge[r].settledRate), charge[r].paid)]

StagedSettlement(r) ==
    [ref |-> r, date |-> charge[r].on + Lag[r],
     net |-> SettledNet(Net(charge[r], charge[r].settledRate), charge[r].paid)]

------------------------------------------------------------------------------
\* mart_settlement_reconciliation.

\* Mutant: the as-of date of the rows of the mart.
AsOfEligible == Max({t.ingested : t \in {u \in tx : u.status = "success"}} \cup {0})

AsOf == Max({t.ingested : t \in tx})

\* Mutant: only what is settlement-eligible.
SuccessfulOnly == {t \in tx : t.status = "success"}

Eligible ==
    {t \in tx : \/ t.status = "success"
                \/ t.status = "reversed" /\ \E s \in lines : s.ref = t.ref}

\* The left join: a charge with its settlement line, or with none.
Joined ==
    {j \in [tx : Eligible, line : lines \cup {Null}] :
        IF j.line = Null THEN \A s \in lines : s.ref # j.tx.ref ELSE j.line.ref = j.tx.ref}

ExpectedNet(j)      == Net(charge[j.tx.ref], charge[j.tx.ref].rate)
Variance(j)         == j.line.net - ExpectedNet(j)
IsAmountMatched(j)  == j.line # Null /\ j.line.net = ExpectedNet(j)
DaysSinceSuccess(j) == AsOf - j.tx.succeeded
IsFresh(j)          == j.tx.watermark >= j.tx.expected

\* Mutant: the order of two branches swapped.
ShortFirst(j) ==
    CASE j.tx.status = "reversed" /\ j.line # Null -> "reversed_after_settlement"
      [] j.line = Null /\ ~IsFresh(j)              -> "unverified_source"
      [] j.line = Null /\ IsFresh(j)               -> "missing_settlement"
      [] OTHER ->
           CASE j.line.net = ExpectedNet(j) -> "matched"
             [] j.line.net < ExpectedNet(j) -> "short_paid"
             [] j.line.net > ExpectedNet(j) -> "overpaid"

ReconciliationStatus(j) ==
    CASE j.tx.status = "reversed" /\ j.line # Null -> "reversed_after_settlement"
      [] j.line = Null /\ ~IsFresh(j)              -> "unverified_source"
      [] j.line = Null /\ IsFresh(j)               -> "missing_settlement"
      [] OTHER ->
           CASE j.line.net = ExpectedNet(j)          -> "matched"
             [] 10 * j.line.net < 9 * ExpectedNet(j) -> "partial_settlement"
             [] 10 * j.line.net >= 9 * ExpectedNet(j) /\ j.line.net < ExpectedNet(j) -> "short_paid"
             [] j.line.net > ExpectedNet(j)          -> "overpaid"

\* Mutant: the age of the charge is looked at before the source.
AgeFirst(j) ==
    IF j.line # Null THEN "settled"
    ELSE CASE DaysSinceSuccess(j) <= 1 -> "pending_t1"
           [] DaysSinceSuccess(j) = 2  -> "pending_t2"
           [] OTHER -> IF AsOf <= j.tx.expected THEN "pending_within_sla" ELSE "breached_sla"

ReconciliationBucket(j) ==
    IF j.line # Null THEN "settled"
    ELSE IF ~IsFresh(j) THEN "pending_within_sla"
    ELSE CASE DaysSinceSuccess(j) <= 1 -> "pending_t1"
           [] DaysSinceSuccess(j) = 2  -> "pending_t2"
           [] OTHER -> IF AsOf <= j.tx.expected THEN "pending_within_sla" ELSE "breached_sla"

\* Mutant: a settlement line clears the balance, whatever its amount.
ClearedByLine(j) == IF j.line = Null THEN ExpectedNet(j) ELSE 0

OutstandingNet(j) ==
    CASE j.line = Null -> ExpectedNet(j)
      [] j.line # Null /\ j.tx.status = "reversed" -> 0
      [] OTHER -> Max({0, ExpectedNet(j) - j.line.net})

------------------------------------------------------------------------------
Init ==
    /\ today = FirstDay
    /\ charge \in [Ref -> UNION {Charges[r] : r \in Ref}]
    /\ \A r \in Ref : charge[r] \in Charges[r]
    /\ copies = {} /\ settled = {}
    /\ tx = {} /\ lines = {}
    /\ basis = <<copies, settled>>

NextDay ==
    /\ today < LastDay
    /\ today' = today + 1
    /\ UNCHANGED <<charge, copies, settled, tx, lines, basis>>

\* The events generate_events emits for a charge.
Emitted(r) ==
    {"pending", IF charge[r].succeeds THEN "success" ELSE "failed"}
        \cup (IF charge[r].reversed = Null THEN {} ELSE {"reversed"})

Arrive(r, status) ==
    /\ status \in Emitted(r)
    /\ Redelivery \/ \A c \in copies : c[1] # r \/ c[2] # status
    /\ copies' = copies \cup {<<r, status, today>>}
    /\ UNCHANGED <<today, charge, settled, tx, lines, basis>>

ArriveSettlement(r) ==
    /\ charge[r].paid # Null
    /\ settled' = settled \cup {r}
    /\ UNCHANGED <<today, charge, copies, tx, lines, basis>>

\* The transform stage and dbt build, on what has arrived: neither succeeds on
\* an empty data set, and dbt build fails on a settlement of an unknown charge.
Run ==
    /\ copies # {} /\ settled # {}
    /\ settled \subseteq {c[1] : c \in copies}
    /\ \E kept \in Kept : tx' = {StagedTransaction(r, kept) : r \in {e[1] : e \in DOMAIN kept}}
    /\ lines' = {StagedSettlement(r) : r \in settled}
    /\ basis' = <<copies, settled>>
    /\ UNCHANGED <<today, charge, copies, settled>>

Next ==
    \/ NextDay \/ Run
    \/ \E r \in Ref : ArriveSettlement(r) \/ \E s \in Status : Arrive(r, s)

Spec == Init /\ [][Next]_vars

------------------------------------------------------------------------------
\* Properties.

Buckets == [pending_within_sla |-> 0, pending_t1 |-> 1, pending_t2 |-> 2, breached_sla |-> 3,
            settled |-> 4]

StatusOf(paid) == CASE paid = "exact"   -> "matched"
                    [] paid = "partial" -> "partial_settlement"
                    [] paid = "short"   -> "short_paid"
                    [] paid = "over"    -> "overpaid"

\* The type of every variable.
TypeOK ==
    /\ today \in Day
    /\ \A r \in Ref : charge[r] \in Charges[r]
    /\ copies \subseteq Ref \X Status \X Day
    /\ settled \subseteq Ref
    /\ tx \subseteq [ref : Ref, status : Status, succeeded : Nat \cup {Null},
                     expected : Nat, watermark : Int, ingested : Day]
    /\ lines \subseteq [ref : Ref, date : Nat, net : Nat]
    /\ basis \in (SUBSET (Ref \X Status \X Day)) \X SUBSET Ref

\* The label of a settled charge says which branch of generate.py:284-292 made its
\* payment: neither the boundary of the query (below 90% of what was owed, line
\* 107), nor the integer divisions of the generator, nor a rate that moved between
\* charge and settlement turns the 99% of a short payment into a partial one, or
\* the half of a partial payment into a short one; at an unchanged rate nothing
\* else is confused either.  project_explainer.md:66 says of partial_settlement
\* "Less than 10% of what was owed": it is less than 90%, and this property says
\* that every charge of which half was paid has that label.
LabelMeansAdjustment ==
    \A j \in Joined : LET c == charge[j.tx.ref] IN
        j.line # Null /\ j.tx.status = "success" =>
            /\ ReconciliationStatus(j) = "partial_settlement" <=> c.paid = "partial"
            /\ c.settledRate = c.rate => ReconciliationStatus(j) = StatusOf(c.paid)

\* The hard checks of run_checks (quality.py:31-86) that are about values ...
fct_transactions_unique_ref == \A t, u \in tx : t.ref = u.ref => t = u
matched_rows_zero_outstanding == \A j \in Joined : IsAmountMatched(j) => OutstandingNet(j) = 0
FactRows == {t \in tx : t.status = "success" \/ (t.status = "reversed" /\ \E s \in lines : s.ref = t.ref)}
reconciliation_ties_to_fact == Cardinality(Joined) = Cardinality(FactRows)
matched_reconciliation_consistency ==
    \A j \in Joined : ReconciliationStatus(j) = "matched" =>
        Variance(j) = 0 /\ OutstandingNet(j) = 0 /\ IsAmountMatched(j)

\* ... and the dbt tests of that name.
assert_no_negative_money ==
    \A t \in tx : LET m == Money(charge[t.ref], charge[t.ref].rate)
                  IN  m.fee >= 0 /\ m.amount >= m.fee
assert_settlement_not_before_transaction ==
    \A s \in lines, t \in tx : s.ref = t.ref /\ t.succeeded # Null => t.succeeded <= s.date

\* None of them can stop the pipeline over what generate.py emits, whatever part
\* of it has arrived, in whatever order: a failure always means that something
\* else is broken.
ChecksPass ==
    /\ fct_transactions_unique_ref /\ matched_rows_zero_outstanding
    /\ reconciliation_ties_to_fact /\ matched_reconciliation_consistency
    /\ assert_no_negative_money /\ assert_settlement_not_before_transaction

\* There is an outstanding balance exactly where the label says money is missing:
\* "zero for matched, overpaid, and reversal-after-settlement cases" (README.md:111).
ExposureIsLabelled ==
    \A j \in Joined : (OutstandingNet(j) > 0) <=> ReconciliationStatus(j) \in
        {"missing_settlement", "unverified_source", "partial_settlement", "short_paid"}

\* A charge the mart holds against the provider is one: its line had not arrived
\* at the last run, the feed reaches the day it was due, and a breach is past that
\* day.  "A delayed provider feed is not counted as a breach"
\* (project_explainer.md:168-172), by either classification, however old the
\* charge gets; the day is that of the charge itself, not of a staged column.
BreachIsReal ==
    \A j \in Joined :
        LET r        == j.tx.ref
            due      == charge[r].on + Lag[r]
            breached == ReconciliationBucket(j) = "breached_sla"
        IN  /\ breached \/ ReconciliationStatus(j) = "missing_settlement" =>
                  r \notin basis[2] /\ due <= FirstDay + 2 - charge[r].delay
            /\ breached => due < today

\* What a staged charge says of the copies the last run read: it is the event of
\* highest rank, with the day a copy of it arrived.
Collapsed(t) ==
    LET statuses == {c[2] : c \in {d \in basis[1] : d[1] = t.ref}} IN
    /\ <<t.ref, t.status, t.ingested>> \in basis[1]
    /\ \A s \in statuses : STATUS_RANK[s] <= STATUS_RANK[t.status]
    /\ t.succeeded = IF "success" \in statuses THEN charge[t.ref].on ELSE Null
    /\ t.expected = Lag[t.ref] + IF t.succeeded = Null THEN UpdatedOn(t.ref, t.status) ELSE t.succeeded
    /\ t.watermark = FirstDay + 2 - charge[t.ref].delay

\* The inductive invariant: what has arrived is what the generator emits, none of
\* it before its day and none of what the last run read after what it did not;
\* and each staged table has one row for each reference the last run read.
RInv ==
    /\ TypeOK
    /\ \A c \in copies : c[2] \in Emitted(c[1]) /\ c[3] <= today
    /\ Redelivery \/ \A c, d \in copies : c[1] = d[1] /\ c[2] = d[2] => c = d
    /\ \A r \in settled : charge[r].paid # Null
    /\ basis[1] \subseteq copies /\ basis[2] \subseteq settled
    /\ \A c \in basis[1], d \in copies \ basis[1] : c[3] <= d[3]
    /\ IsFiniteSet(copies) /\ IsFiniteSet(tx)
    /\ {t.ref : t \in tx} = {c[1] : c \in basis[1]} /\ fct_transactions_unique_ref
    /\ \A t \in tx : Collapsed(t)
    /\ lines = {StagedSettlement(r) : r \in basis[2]}

\* A charge only ages: no run puts it back into an earlier bucket, or takes a
\* breach back otherwise than by a settlement, although the as-of date and the age
\* are computed anew in each run, from the events that then win the collapse.
AgesForward ==
    [][\A j \in Joined, k \in Joined' : j.tx.ref = k.tx.ref =>
          Buckets[ReconciliationBucket(j)] <= Buckets[ReconciliationBucket(k)']]_vars

\* "A pipeline that produces different marts on a rerun is not a pipeline"
\* (schemas.py:51-53): a run over the same raw events gives the same mart.
Mart == {[ref |-> j.tx.ref, status |-> ReconciliationStatus(j), bucket |-> ReconciliationBucket(j),
          outstanding |-> OutstandingNet(j)] : j \in Joined}
Reproducible == [][tx # {} /\ basis' = basis => Mart' = Mart]_vars
==============================================================================
