--------------------------- MODULE CollapseProofs ---------------------------
(***************************************************************************)
(* Lemmas about what the transforms of Staging compute: the collapse of    *)
(* the events of a charge to its latest state, and the types of the rows.  *)
(***************************************************************************)
EXTENDS Staging, WellFoundedInduction, TLAPS

\* The generator has emitted each charge on one day only; on another day it
\* repeats the events with later times, under the same identifiers.
GeneratedOnce ==
    \A c, d \in Copy["transactions"] : c[1].ref = d[1].ref => c[2].day = d[2].day

------------------------------------------------------------------------------
\* Numbers.

LEMMA Ranks ==
    /\ Status = {"pending", "failed", "success", "reversed"}
    /\ STATUS_RANK["pending"] = 0 /\ STATUS_RANK["failed"] = 1
    /\ STATUS_RANK["success"] = 2 /\ STATUS_RANK["reversed"] = 3
  BY DEF Status, STATUS_RANK

\* Of some numbers there is a least.
LEMMA LeastNumber ==
    ASSUME NEW S \in SUBSET Nat, S # {}
    PROVE  Min(S) \in S
  <1>1. PICK n \in S : \A k \in S : <<k, n>> \notin OpToRel(<, Nat)
    BY NatLessThanWellFounded, WFMin, Zenon
  <1>2. \A k \in S : ~(k < n)
    BY <1>1, Zenon DEF OpToRel
  <1>3. \A k \in S : n <= k
    BY <1>2
  <1> QED
    BY <1>3 DEF Min

LEMMA OnlyNumber == ASSUME NEW n \in Nat PROVE Max({n}) = n
  <1>1. \E x \in {n} : \A y \in {n} : x >= y
    OBVIOUS
  <1> QED
    BY <1>1 DEF Max

\* Of four pairs of a number and a rank there is a greatest.
LEMMA BestStatus ==
    ASSUME NEW k \in [Status -> Nat]
    PROVE  \E s \in Status : \A u \in Status :
              k[u] < k[s] \/ (k[u] = k[s] /\ STATUS_RANK[u] <= STATUS_RANK[s])
  <1> DEFINE p == k["pending"]
             f == k["failed"]
             g == k["success"]
             v == k["reversed"]
  <1>1. p \in Nat /\ f \in Nat /\ g \in Nat /\ v \in Nat
    BY Ranks
  <1>2. \/ v >= p /\ v >= f /\ v >= g
        \/ g >= p /\ g >= f /\ g > v
        \/ f >= p /\ f > g /\ f > v
        \/ p > f /\ p > g /\ p > v
    BY <1>1
  <1>3. CASE v >= p /\ v >= f /\ v >= g
    BY <1>1, <1>3, Ranks
  <1>4. CASE g >= p /\ g >= f /\ g > v
    BY <1>1, <1>4, Ranks
  <1>5. CASE f >= p /\ f > g /\ f > v
    BY <1>1, <1>5, Ranks
  <1>6. CASE p > f /\ p > g /\ p > v
    BY <1>1, <1>6, Ranks
  <1> QED
    BY <1>2, <1>3, <1>4, <1>5, <1>6

------------------------------------------------------------------------------
\* The copies that are kept.

LEMMA EventFacts ==
    \A e \in Event : /\ e.id \in Nat /\ e.ref \in Ref /\ e.status \in Status
                     /\ e.created \in Nat /\ e.at \in Nat
  BY EventsAssumption

\* A charge has one event of each status.
LEMMA OneOfEach == \A d, e \in Event : d.ref = e.ref /\ d.status = e.status => d = e
  <1> SUFFICES ASSUME NEW d \in Event, NEW e \in Event, d.ref = e.ref, d.status = e.status
               PROVE  d = e
    OBVIOUS
  <1>1. STATUS_RANK[d.status] <= STATUS_RANK[e.status]
    BY EventFacts, Ranks
  <1> QED
    BY <1>1, EventsAssumption

\* A choice of copies chooses one for every event.
LEMMA DedupedDomain ==
    ASSUME NEW copies, NEW kept \in Deduped(copies)
    PROVE  DOMAIN kept = {c[1] : c \in copies}
  BY DEF Deduped

LEMMA KeptFacts ==
    ASSUME NEW d \in Dataset, NEW copies \in SUBSET Copy[d], NEW kept \in Deduped(copies)
    PROVE  /\ DOMAIN kept = {c[1] : c \in copies}
           /\ \A e \in DOMAIN kept : /\ <<e, kept[e]>> \in copies
                                     /\ kept[e].day \in Nat /\ kept[e].batch \in Nat
           /\ d = "transactions" => DOMAIN kept \subseteq Event
           /\ d = "settlements" => DOMAIN kept \subseteq Line
  <1>1. \A e \in DOMAIN kept : <<e, kept[e]>> \in copies
    BY DEF Deduped
  <1>2. \A c \in Copy[d] : c[2] \in Stamp
    BY ConstantsAssumption
  <1>3. \A e \in DOMAIN kept : kept[e] \in Stamp
    <2> TAKE e \in DOMAIN kept
    <2>1. <<e, kept[e]>> \in Copy[d] /\ <<e, kept[e]>>[2] = kept[e]
      BY <1>1
    <2> QED
      BY <1>2, <2>1
  <1>4. \A e \in DOMAIN kept : kept[e].day \in Nat /\ kept[e].batch \in Nat
    BY <1>3 DEF Stamp
  <1>5. DOMAIN kept = {c[1] : c \in copies}
    BY DedupedDomain
  <1>6. DOMAIN kept \subseteq {c[1] : c \in Copy[d]}
    BY <1>5
  <1> QED
    BY <1>1, <1>4, <1>5, <1>6 DEF Event, Line

LEMMA TimeFacts ==
    ASSUME NEW copies \in SUBSET Copy["transactions"], NEW kept \in Deduped(copies),
           NEW e \in DOMAIN kept
    PROVE  e \in Event /\ UpdatedAt(e, kept) \in Nat
  <1>1. e \in Event /\ kept[e].day \in Nat
    BY KeptFacts DEF Dataset
  <1>2. e.at \in Nat /\ DayLength \in Nat
    BY <1>1, EventFacts, ConstantsAssumption
  <1> DEFINE day == kept[e].day
             at == e.at
  <1>3. UpdatedAt(e, kept) = at + day * DayLength
    BY DEF UpdatedAt
  <1> HIDE DEF day, at
  <1> QED
    BY <1>1, <1>2, <1>3 DEF day, at

\* The window of a charge has a first row.
LEMMA LatestFacts ==
    ASSUME NEW copies \in SUBSET Copy["transactions"], NEW kept \in Deduped(copies),
           NEW r \in {e.ref : e \in DOMAIN kept}
    PROVE  /\ Latest(r, kept) \in DOMAIN kept /\ Latest(r, kept).ref = r
           /\ \A d \in DOMAIN kept : d.ref = r => ~Later(d, Latest(r, kept), kept)
  <1> DEFINE own == {e \in DOMAIN kept : e.ref = r}
             with(s) == {e \in own : e.status = s}
             time(s) == IF with(s) = {} THEN 0 ELSE 1 + UpdatedAt(CHOOSE e \in with(s) : TRUE, kept)
             k == [s \in Status |-> time(s)]
  <1>1. \A e \in own : e \in Event /\ UpdatedAt(e, kept) \in Nat /\ e.status \in Status
    BY TimeFacts, EventFacts
  <1>2. \A d, e \in own : d.status = e.status => d = e
    BY <1>1, OneOfEach
  <1>3. \A e \in own : time(e.status) = 1 + UpdatedAt(e, kept)
    <2> TAKE e \in own
    <2>1. with(e.status) = {e}
      BY <1>2
    <2> QED
      BY <2>1
  <1>4. \A s \in Status : time(s) \in Nat /\ (time(s) > 0 => with(s) # {})
    <2> TAKE s \in Status
    <2>1. CASE with(s) = {}
      BY <2>1
    <2>2. CASE with(s) # {}
      <3>1. (CHOOSE e \in with(s) : TRUE) \in own
        BY <2>2
      <3> QED
        BY <1>1, <2>2, <3>1
    <2> QED
      BY <2>1, <2>2
  <1> HIDE DEF time
  <1>5. k \in [Status -> Nat]
    BY <1>4
  <1>6. PICK s \in Status : \A u \in Status :
            k[u] < k[s] \/ (k[u] = k[s] /\ STATUS_RANK[u] <= STATUS_RANK[s])
    BY <1>5, BestStatus
  <1>7. PICK d \in own : TRUE
    OBVIOUS
  <1>8. k[s] > 0
    <2>1. k[d.status] = 1 + UpdatedAt(d, kept) /\ UpdatedAt(d, kept) \in Nat /\ d.status \in Status
      BY <1>1, <1>3
    <2> HIDE DEF k
    <2> QED
      BY <1>5, <1>6, <2>1
  <1>9. PICK e \in own : e.status = s
    BY <1>4, <1>8
  <1>10. \A x \in own : ~Later(x, e, kept)
    <2> TAKE x \in own
    <2>1. /\ k[x.status] = 1 + UpdatedAt(x, kept) /\ k[s] = 1 + UpdatedAt(e, kept)
          /\ x.status \in Status /\ UpdatedAt(x, kept) \in Nat /\ UpdatedAt(e, kept) \in Nat
      BY <1>1, <1>3, <1>9
    <2>2. STATUS_RANK[x.status] \in Nat /\ STATUS_RANK[e.status] \in Nat /\ e.id \in Nat
      BY <1>1, <1>9, <2>1, Ranks, EventFacts
    <2>3. \/ UpdatedAt(x, kept) < UpdatedAt(e, kept)
          \/ UpdatedAt(x, kept) = UpdatedAt(e, kept) /\ STATUS_RANK[x.status] <= STATUS_RANK[e.status]
      <3> HIDE DEF k
      <3> QED
        BY <1>6, <1>9, <2>1
    <2>4. x.status = e.status => x.id = e.id
      BY <1>2, <1>9
    <2> HIDE DEF k, own
    <2> QED
      BY <2>1, <2>2, <2>3, <2>4 DEF Later
  <1>11. e \in DOMAIN kept /\ e.ref = r /\ \A x \in DOMAIN kept : x.ref = r => ~Later(x, e, kept)
    BY <1>9, <1>10
  <1> QED
    BY <1>11 DEF Latest

\* There is at most one success of a charge.
LEMMA SuccessFacts ==
    ASSUME NEW copies \in SUBSET Copy["transactions"], NEW kept \in Deduped(copies), NEW r
    PROVE  /\ SuccessfulAt(r, kept) \in Nat \cup {Null}
           /\ \A e \in DOMAIN kept : e.ref = r /\ e.status = "success" =>
                SuccessfulAt(r, kept) = UpdatedAt(e, kept)
           /\ SuccessfulAt(r, kept) # Null =>
                \E e \in DOMAIN kept : e.ref = r /\ e.status = "success"
  <1> DEFINE successes == {e \in DOMAIN kept : e.ref = r /\ e.status = "success"}
  <1>1. \A e \in successes : e \in Event /\ UpdatedAt(e, kept) \in Nat
    BY TimeFacts
  <1>2. \A e \in successes : successes = {e}
    BY <1>1, OneOfEach
  <1>3. ASSUME NEW e \in successes PROVE SuccessfulAt(r, kept) = UpdatedAt(e, kept)
    <2>1. successes = {e}
      BY <1>2
    <2>2. {UpdatedAt(x, kept) : x \in successes} = {UpdatedAt(e, kept)}
      BY <2>1
    <2>3. SuccessfulAt(r, kept) = Max({UpdatedAt(x, kept) : x \in successes})
      BY DEF SuccessfulAt
    <2> HIDE DEF successes
    <2> QED
      BY <1>1, <2>2, <2>3, OnlyNumber
  <1>4. successes = {} => SuccessfulAt(r, kept) = Null
    BY DEF SuccessfulAt
  <1> QED
    BY <1>1, <1>3, <1>4

------------------------------------------------------------------------------
\* The rows.

LEMMA DateFacts == \A t \in Nat : Date(t) \in Nat
  BY ConstantsAssumption DEF Date

\* A row is made for the reference it is asked for.
LEMMA TransactionKey == ASSUME NEW r, NEW kept PROVE TransactionRow(r, kept).key = r
  BY DEF TransactionRow

\* And for the settlement line it is asked for.
LEMMA SettlementKey == ASSUME NEW l, NEW kept PROVE SettlementRow(l, kept).key = l
  BY DEF SettlementRow

LEMMA TransactionRowType ==
    ASSUME job \in Nat, NEW copies \in SUBSET Copy["transactions"], NEW kept \in Deduped(copies),
           NEW r \in {e.ref : e \in DOMAIN kept}
    PROVE  TransactionRow(r, kept) \in TransactionRows /\ TransactionRow(r, kept).job = job
  <1> DEFINE e == Latest(r, kept)
             at == UpdatedAt(e, kept)
             success == SuccessfulAt(r, kept)
             day == Date(IF success = Null THEN at ELSE success)
             expected == day + Lag[r]
             part == Date(e.created) + kept[e].day
             row == [key |-> r, status |-> e.status, updated |-> at, successful |-> success,
                     expected |-> expected, ingested |-> kept[e].batch, part |-> part, job |-> job]
  <1>1. e \in DOMAIN kept /\ e.ref = r
    BY LatestFacts
  <1>2. e \in Event /\ at \in Nat
    BY <1>1, TimeFacts
  <1>3. e.status \in Status /\ e.created \in Nat /\ r \in Ref /\ Lag[r] \in Nat
    BY <1>1, <1>2, EventFacts, ConstantsAssumption
  <1>4. kept[e].day \in Nat /\ kept[e].batch \in Nat
    BY <1>1, KeptFacts DEF Dataset
  <1>5. success \in Nat \cup {Null}
    BY SuccessFacts
  <1>6. day \in Nat /\ Date(e.created) \in Nat
    BY <1>2, <1>3, <1>5, DateFacts
  <1>7. TransactionRow(r, kept) = row
    BY DEF TransactionRow
  <1>8. expected \in Nat /\ part \in Nat
    <2> HIDE DEF day, e
    <2> QED
      BY <1>3, <1>4, <1>6
  <1>9. row \in TransactionRows /\ row.job = job
    <2> HIDE DEF e, at, success, expected, part
    <2> QED
      BY <1>2, <1>3, <1>4, <1>5, <1>8 DEF TransactionRows
  <1> QED
    BY <1>7, <1>9

LEMMA SettlementRowType ==
    ASSUME job \in Nat, NEW copies \in SUBSET Copy["settlements"], NEW kept \in Deduped(copies),
           NEW l \in DOMAIN kept
    PROVE  SettlementRow(l, kept) \in SettlementRows /\ SettlementRow(l, kept).job = job
  <1>1. l \in Line /\ kept[l].day \in Nat /\ kept[l].batch \in Nat
    BY KeptFacts DEF Dataset
  <1>2. l.date \in Nat
    BY <1>1, ConstantsAssumption
  <1> DEFINE date == l.date + kept[l].day
             row == [key |-> l, date |-> date, ingested |-> kept[l].batch, part |-> date, job |-> job]
  <1>3. date \in Nat
    BY <1>1, <1>2
  <1>4. SettlementRow(l, kept) = row
    BY DEF SettlementRow
  <1>5. row \in SettlementRows /\ row.job = job
    <2> HIDE DEF date
    <2> QED
      BY <1>1, <1>3 DEF SettlementRows
  <1> QED
    BY <1>4, <1>5

\* What a transform makes of some copies: some rows, of their type.
LEMMA RowsType ==
    ASSUME job \in Nat, ds \in Dataset, NEW copies \in SUBSET Copy[ds], copies # {},
           NEW kept \in Deduped(copies)
    PROVE  Rows(kept) \subseteq RowsOf(ds) /\ Rows(kept) # {} /\ \A row \in Rows(kept) : row.part \in Nat
  <1>1. DOMAIN kept # {}
    <2>1. DOMAIN kept = {c[1] : c \in copies}
      BY DedupedDomain
    <2> QED
      BY <2>1
  <1>2. CASE ds = "transactions"
    <2>1. Rows(kept) = {TransactionRow(r, kept) : r \in {e.ref : e \in DOMAIN kept}}
      BY <1>2 DEF Rows
    <2>2. \A row \in Rows(kept) : row \in TransactionRows
      BY <1>2, <2>1, TransactionRowType
    <2>3. \A row \in TransactionRows : row.part \in Nat
      BY DEF TransactionRows
    <2> QED
      BY <1>1, <1>2, <2>1, <2>2, <2>3 DEF RowsOf
  <1>3. CASE ds = "settlements"
    <2>1. Rows(kept) = {SettlementRow(l, kept) : l \in DOMAIN kept}
      BY <1>3 DEF Rows
    <2>2. \A row \in Rows(kept) : row \in SettlementRows
      BY <1>3, <2>1, SettlementRowType
    <2>3. \A row \in SettlementRows : row.part \in Nat
      BY DEF SettlementRows
    <2> QED
      BY <1>1, <1>3, <2>1, <2>2, <2>3 DEF RowsOf
  <1> QED
    BY <1>2, <1>3 DEF Dataset

------------------------------------------------------------------------------
\* The collapse.

\* What a row says of its charge, without the copy and the job it comes from.
ChargeRow(r, kept) ==
    LET at      == UpdatedAt(Latest(r, kept), kept)
        success == SuccessfulAt(r, kept)
    IN  [key |-> r, status |-> Latest(r, kept).status, updated |-> at, successful |-> success,
         expected |-> Date(IF success = Null THEN at ELSE success) + Lag[r]]

LEMMA ChargeOfRow == \A r, kept : Charge(TransactionRow(r, kept)) = ChargeRow(r, kept)
  BY DEF Charge, TransactionRow, ChargeRow

\* A generator that emits a charge once gives each event one time.
LEMMA TimesAgree ==
    ASSUME GeneratedOnce, NEW a \in SUBSET Copy["transactions"], NEW b \in SUBSET Copy["transactions"],
           NEW keptA \in Deduped(a), NEW keptB \in Deduped(b),
           NEW d \in DOMAIN keptA, NEW e \in DOMAIN keptB, d.ref = e.ref
    PROVE  keptA[d].day = keptB[e].day /\ (d = e => UpdatedAt(d, keptA) = UpdatedAt(e, keptB))
  <1>1. <<d, keptA[d]>> \in Copy["transactions"] /\ <<e, keptB[e]>> \in Copy["transactions"]
    BY KeptFacts DEF Dataset
  <1>2. keptA[d].day = keptB[e].day
    BY <1>1 DEF GeneratedOnce
  <1> QED
    BY <1>2 DEF UpdatedAt

\* Then the latest event is the furthest.
LEMMA LatestIsFurthest ==
    ASSUME GeneratedOnce, NEW copies \in SUBSET Copy["transactions"], NEW kept \in Deduped(copies),
           NEW r \in {e.ref : e \in DOMAIN kept}, NEW d \in DOMAIN kept, d.ref = r
    PROVE  STATUS_RANK[d.status] <= STATUS_RANK[Latest(r, kept).status]
  <1> DEFINE e == Latest(r, kept)
  <1>1. e \in DOMAIN kept /\ e.ref = r /\ ~Later(d, e, kept)
    BY LatestFacts
  <1> HIDE DEF e
  <1>2. d \in Event /\ e \in Event /\ UpdatedAt(d, kept) \in Nat /\ UpdatedAt(e, kept) \in Nat
    BY <1>1, TimeFacts
  <1>3. kept[d].day = kept[e].day /\ kept[d].day \in Nat
    <2>1. kept[d].day \in Nat
      BY KeptFacts DEF Dataset
    <2>2. kept[d].day = kept[e].day
      BY <1>1, TimesAgree
    <2> QED
      BY <2>1, <2>2
  <1>4. /\ STATUS_RANK[d.status] \in Nat /\ STATUS_RANK[e.status] \in Nat
        /\ d.at \in Nat /\ e.at \in Nat /\ DayLength \in Nat
    BY <1>2, EventFacts, Ranks, ConstantsAssumption
  <1>5. ASSUME STATUS_RANK[e.status] < STATUS_RANK[d.status] PROVE FALSE
    <2>1. e.at <= d.at
      BY <1>1, <1>2, <1>4, <1>5, EventsAssumption
    <2> DEFINE day == kept[d].day
               x == d.at
               y == e.at
    <2>2. UpdatedAt(d, kept) = x + day * DayLength /\ UpdatedAt(e, kept) = y + day * DayLength
      BY <1>3 DEF UpdatedAt
    <2> HIDE DEF day, x, y
    <2>3. UpdatedAt(e, kept) <= UpdatedAt(d, kept)
      BY <1>2, <1>3, <1>4, <2>1, <2>2 DEF day, x, y
    <2>4. UpdatedAt(d, kept) > UpdatedAt(e, kept) \/ UpdatedAt(d, kept) = UpdatedAt(e, kept)
      BY <1>2, <2>3
    <2> QED
      BY <1>1, <1>5, <2>4 DEF Later
  <1> QED
    BY <1>4, <1>5 DEF e

\* And the rows of a charge depend on its events only.
LEMMA CollapseIsFunction ==
    ASSUME GeneratedOnce, NEW a \in SUBSET Copy["transactions"], NEW b \in SUBSET Copy["transactions"],
           NEW keptA \in Deduped(a), NEW keptB \in Deduped(b), DOMAIN keptA = DOMAIN keptB,
           NEW r \in {e.ref : e \in DOMAIN keptA}
    PROVE  ChargeRow(r, keptA) = ChargeRow(r, keptB)
  <1> DEFINE e == Latest(r, keptA)
             f == Latest(r, keptB)
  <1>1. e \in DOMAIN keptA /\ e.ref = r /\ f \in DOMAIN keptB /\ f.ref = r
    BY LatestFacts
  <1>2. e = f
    <2>1. STATUS_RANK[e.status] <= STATUS_RANK[f.status] /\ STATUS_RANK[f.status] <= STATUS_RANK[e.status]
      BY <1>1, LatestIsFurthest
    <2>2. e \in Event /\ f \in Event
      BY <1>1, TimeFacts
    <2> HIDE DEF e, f
    <2>3. e.status = f.status
      BY <2>1, <2>2, EventFacts, Ranks
    <2> QED
      BY <1>1, <2>2, <2>3, OneOfEach
  <1>3. UpdatedAt(e, keptA) = UpdatedAt(f, keptB)
    BY <1>1, <1>2, TimesAgree
  <1>4. SuccessfulAt(r, keptA) = SuccessfulAt(r, keptB)
    <2>1. CASE \E s \in DOMAIN keptA : s.ref = r /\ s.status = "success"
      <3>1. PICK s \in DOMAIN keptA : s.ref = r /\ s.status = "success"
        BY <2>1
      <3> QED
        BY <3>1, SuccessFacts, TimesAgree
    <2>2. CASE ~\E s \in DOMAIN keptA : s.ref = r /\ s.status = "success"
      BY <2>2, SuccessFacts
    <2> QED
      BY <2>1, <2>2
  <1> QED
    BY <1>2, <1>3, <1>4 DEF ChargeRow

\* Once a charge has succeeded, later events do not move its dates.
LEMMA SuccessIsFixed ==
    ASSUME GeneratedOnce, NEW a \in SUBSET Copy["transactions"], NEW b \in SUBSET Copy["transactions"],
           NEW keptA \in Deduped(a), NEW keptB \in Deduped(b), DOMAIN keptA \subseteq DOMAIN keptB,
           NEW r, SuccessfulAt(r, keptA) # Null
    PROVE  ChargeRow(r, keptA).expected = ChargeRow(r, keptB).expected
  <1>1. PICK s \in DOMAIN keptA : s.ref = r /\ s.status = "success"
    BY SuccessFacts
  <1>2. SuccessfulAt(r, keptA) = UpdatedAt(s, keptA) /\ SuccessfulAt(r, keptB) = UpdatedAt(s, keptB)
    BY <1>1, SuccessFacts
  <1>3. UpdatedAt(s, keptA) = UpdatedAt(s, keptB)
    BY <1>1, TimesAgree
  <1> QED
    BY <1>2, <1>3 DEF ChargeRow
=============================================================================
