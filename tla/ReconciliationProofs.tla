------------------------ MODULE ReconciliationProofs ------------------------
(***************************************************************************)
(* Theorems about the reconciliation mart (Reconciliation), for every set  *)
(* of charges within what generate.py draws (ConstantsAssumption: the      *)
(* amounts, rates and lags it draws from, and charges confirmed on the day *)
(* of publication or any earlier one), and any order of arrivals and runs. *)
(***************************************************************************)
EXTENDS Reconciliation, FiniteSetTheorems, WellFoundedInduction, TLAPS

\* Arithmetic of the operators.
LEMMA Division ==
    ASSUME NEW n \in Nat, NEW d \in Nat \ {0}
    PROVE  /\ n \div d \in Nat
           /\ d * (n \div d) <= n /\ n < d * (n \div d) + d
  OBVIOUS

LEMMA Scaling ==
    ASSUME NEW k \in Nat \ {0}, NEW a \in Int, NEW b \in Int
    PROVE  k * a < k * b <=> a < b
  OBVIOUS

LEMMA MaxOfTwo ==
    ASSUME NEW a \in Int, NEW b \in Int
    PROVE  Max({a, b}) = IF a >= b THEN a ELSE b
  <1>1. \E m \in {a, b} : \A x \in {a, b} : m >= x
    OBVIOUS
  <1>2. Max({a, b}) \in {a, b} /\ \A x \in {a, b} : Max({a, b}) >= x
    BY <1>1 DEF Max
  <1> QED
    BY <1>2

LEMMA MinOfTwo ==
    ASSUME NEW a \in Int, NEW b \in Int
    PROVE  Min({a, b}) = IF a <= b THEN a ELSE b
  <1>1. \E m \in {a, b} : \A x \in {a, b} : m <= x
    OBVIOUS
  <1>2. Min({a, b}) \in {a, b} /\ \A x \in {a, b} : Min({a, b}) <= x
    BY <1>1 DEF Min
  <1> QED
    BY <1>2

\* A fee leaves most of the smallest amounts there are.
LEMMA FeeRange ==
    ASSUME NEW a \in Nat, NEW ch, a >= 10000 \/ (ch # "bank_transfer" /\ a >= 100)
    PROVE  Fee(a, ch) \in Nat /\ a - Fee(a, ch) >= 99 /\ (a >= 10000 => a - Fee(a, ch) >= 100)
  <1>1. (a * 5) \div 1000 \in Nat /\ (a * 15) \div 1000 \in Nat
    OBVIOUS
  <1>2. 1000 * ((a * 5) \div 1000) <= a * 5 /\ 1000 * ((a * 15) \div 1000) <= a * 15
    OBVIOUS
  <1> DEFINE p == (a * 5) \div 1000
             q == (a * 15) \div 1000 + (IF a > 250000 THEN 10000 ELSE 0)
  <1>3. p \in Nat /\ q \in Nat /\ 200 * p <= a /\ 1000 * q <= 15 * a + (IF a > 250000 THEN 10000000 ELSE 0)
    BY <1>1, <1>2
  <1> HIDE DEF p, q
  <1>4. Max({5000, p}) = (IF 5000 >= p THEN 5000 ELSE p) /\ Max({5000, p}) \in Nat
    BY <1>3, MaxOfTwo
  <1>5. Min({100000, Max({5000, p})}) = IF 100000 <= Max({5000, p}) THEN 100000 ELSE Max({5000, p})
    BY <1>4, MinOfTwo
  <1>6. Min({200000, q}) = IF 200000 <= q THEN 200000 ELSE q
    BY <1>3, MinOfTwo
  <1>7. Fee(a, ch) = IF ch = "bank_transfer" THEN Min({100000, Max({5000, p})}) ELSE Min({200000, q})
    BY DEF Fee, p, q
  <1>8. CASE ch = "bank_transfer"
    BY <1>3, <1>4, <1>5, <1>7, <1>8
  <1>9. CASE ch # "bank_transfer"
    BY <1>3, <1>6, <1>7, <1>9
  <1> QED
    BY <1>8, <1>9

\* A rate turns an amount and its fee into a net amount that is within one of the
\* exact one.
LEMMA Converted ==
    ASSUME NEW a \in Nat, NEW f \in Nat, a - f >= 99, NEW rate \in Nat, NEW s \in Nat \ {0}
    PROVE  /\ (a * rate) \div s \in Nat /\ (f * rate) \div s \in Nat
           /\ LET net == (a * rate) \div s - (f * rate) \div s
              IN  /\ net \in Int
                  /\ s * net < (a - f) * rate + s
                  /\ (a - f) * rate - s < s * net
  <1> DEFINE x == a * rate
             y == f * rate
             u == x \div s
             v == y \div s
  <1>1. x \in Nat /\ y \in Nat /\ (a - f) * rate = x - y
    OBVIOUS
  <1> HIDE DEF x, y
  <1>2. /\ u \in Nat /\ s * u <= x /\ x < s * u + s
        /\ v \in Nat /\ s * v <= y /\ y < s * v + s
    BY <1>1, Division
  <1> HIDE DEF u, v
  <1>3. s * (u - v) = s * u - s * v /\ s * u \in Int /\ s * v \in Int
    BY <1>2
  <1>4. s * (u - v) < x - y + s /\ x - y - s < s * (u - v)
    BY <1>1, <1>2, <1>3
  <1> QED
    BY <1>1, <1>2, <1>4 DEF u, v, x, y

\* Two rates within 1.5% of the anchor do not turn 99% of a net amount into less
\* than 90% of it, nor a half of it into more.
LEMMA Drift ==
    ASSUME NEW d \in Nat, d >= 99,
           NEW rate \in Nat, NEW later \in Nat, Near(rate), Near(later),
           NEW e \in Int, NEW b \in Int,
           Scale * e < d * rate + Scale, d * rate - Scale < Scale * e,
           Scale * b < d * later + Scale, d * later - Scale < Scale * b
    PROVE  e >= 100 /\ b >= 100 /\ 990 * b >= 900 * e /\ 5 * b < 9 * e
  <1> DEFINE s == Scale
             x == d * rate
             y == d * later
             se == s * e
             sb == s * b
  <1>0. s \in Nat \ {0}
    BY ConstantsAssumption
  <1>1. /\ 1590775 * s <= 1000 * rate /\ 1000 * rate <= 1639225 * s
        /\ 1590775 * s <= 1000 * later /\ 1000 * later <= 1639225 * s
    BY <1>0 DEF Near, NGN_PER_USD
  <1>2. x \in Nat /\ y \in Nat /\ se \in Int /\ sb \in Int
    BY <1>0
  <1>3. x >= 99 * rate /\ y >= 99 * later
    OBVIOUS
  <1>4. 197 * rate <= 203 * later /\ 197 * later <= 203 * rate
    BY <1>0, <1>1
  <1>5. 197 * x <= 203 * y /\ 197 * y <= 203 * x
    <2>1. d * (197 * rate) <= d * (203 * later) /\ d * (197 * later) <= d * (203 * rate)
      BY <1>4
    <2>2. /\ d * (197 * rate) = 197 * (d * rate) /\ d * (203 * later) = 203 * (d * later)
          /\ d * (197 * later) = 197 * (d * later) /\ d * (203 * rate) = 203 * (d * rate)
      OBVIOUS
    <2> QED
      BY <2>1, <2>2
  <1> HIDE DEF x, y
  <1>6. /\ se < x + s /\ x - s < se /\ sb < y + s /\ y - s < sb
    BY <1>0 DEF x, y
  <1>7. x >= 157000 * s /\ y >= 157000 * s
    BY <1>0, <1>1, <1>2, <1>3
  <1> HIDE DEF se, sb, s
  <1>8. /\ 100 * s <= se /\ 100 * s <= sb /\ 990 * sb >= 900 * se /\ 5 * sb < 9 * se
    BY <1>0, <1>2, <1>5, <1>6, <1>7
  <1>9. s * 99 < s * e /\ s * 99 < s * b
    BY <1>0, <1>2, <1>8 DEF se, sb
  <1>10. s * (900 * e) < s * (990 * b + 1) /\ s * (5 * b) < s * (9 * e)
    <2>1. s * (900 * e) = 900 * se /\ s * (990 * b + 1) = 990 * sb + s
          /\ s * (5 * b) = 5 * sb /\ s * (9 * e) = 9 * se
      BY <1>0 DEF se, sb
    <2> QED
      BY <1>0, <1>2, <1>8, <2>1
  <1>11. 99 < e /\ 99 < b
    BY <1>0, <1>9, Scaling
  <1>12. 900 * e < 990 * b + 1 /\ 5 * b < 9 * e
    <2>1. 900 * e \in Int /\ 990 * b + 1 \in Int /\ 5 * b \in Int /\ 9 * e \in Int
      OBVIOUS
    <2> QED
      BY <1>0, <1>10, <2>1, Scaling
  <1> QED
    BY <1>11, <1>12

LEMMA KoboRange == \A k \in Kobo : k \in Nat /\ k >= 10000
  BY DEF Kobo

\* The money of a charge that generate.py emits, at the rate of the charge and at
\* that of its settlement.
LEMMA NetFacts ==
    ASSUME NEW r \in Ref, NEW c \in Charges[r]
    PROVE  /\ Money(c, c.rate).fee >= 0 /\ Money(c, c.rate).amount >= Money(c, c.rate).fee
           /\ Net(c, c.rate) \in Int /\ Net(c, c.settledRate) \in Int
           /\ Net(c, c.rate) >= 100 /\ Net(c, c.settledRate) >= 100
           /\ 990 * Net(c, c.settledRate) >= 900 * Net(c, c.rate)
           /\ 5 * Net(c, c.settledRate) < 9 * Net(c, c.rate)
           /\ c.settledRate = c.rate => Net(c, c.settledRate) = Net(c, c.rate)
  <1>1. /\ c \in Charge /\ (c.rate = Null <=> c.settledRate = Null)
        /\ (c.rate # Null => c.channel = "card" /\ Near(c.rate) /\ Near(c.settledRate))
        /\ Scale \in Nat \ {0}
    BY ConstantsAssumption
  <1>2. c.kobo \in Nat /\ c.kobo >= 10000
    <2>1. c.kobo \in Kobo
      BY <1>1 DEF Charge
    <2> QED
      BY <2>1, KoboRange
  <1>3. CASE c.rate = Null
    <2>1. Fee(c.kobo, c.channel) \in Nat /\ c.kobo - Fee(c.kobo, c.channel) >= 100
      BY <1>2, FeeRange
    <2>2. Money(c, c.rate) = [amount |-> c.kobo, fee |-> Fee(c.kobo, c.channel)]
      BY <1>3 DEF Money
    <2>3. Net(c, c.rate) = c.kobo - Fee(c.kobo, c.channel)
      BY <2>2 DEF Net
    <2>4. Net(c, c.settledRate) = Net(c, c.rate)
      BY <1>1, <1>3
    <2> HIDE DEF Net
    <2>5. Net(c, c.rate) \in Int /\ Net(c, c.rate) >= 100
      BY <1>2, <2>1, <2>3
    <2> QED
      BY <1>2, <2>1, <2>2, <2>4, <2>5
  <1>4. CASE c.rate # Null
    <2> DEFINE a == Max({100, c.kobo \div NGN_PER_USD})
               f == Fee(a, c.channel)
    <2>1. c.kobo \div NGN_PER_USD \in Nat
      BY <1>2 DEF NGN_PER_USD
    <2>2. a \in Nat /\ a >= 100
      BY <2>1, MaxOfTwo
    <2> HIDE DEF a
    <2>3. f \in Nat /\ a - f >= 99
      BY <1>1, <1>4, <2>2, FeeRange
    <2> HIDE DEF f
    <2>4. c.rate \in Nat /\ c.settledRate \in Nat /\ c.settledRate # Null /\ Near(c.rate) /\ Near(c.settledRate)
      BY <1>1, <1>4 DEF Charge
    <2>5. \A rate \in Nat : rate # Null =>
            Money(c, rate) = [amount |-> (a * rate) \div Scale, fee |-> (f * rate) \div Scale]
      BY DEF Money, a, f
    <2>6. /\ Net(c, c.rate) = (a * c.rate) \div Scale - (f * c.rate) \div Scale
          /\ Net(c, c.settledRate) = (a * c.settledRate) \div Scale - (f * c.settledRate) \div Scale
      BY <1>4, <2>4, <2>5 DEF Net
    <2> DEFINE d == a - f
               e == Net(c, c.rate)
               b == Net(c, c.settledRate)
    <2>7. d \in Nat /\ d >= 99
      BY <2>2, <2>3
    <2> DEFINE turned(rate) == (a * rate) \div Scale - (f * rate) \div Scale
    <2>14. \A rate \in Nat :
             /\ (a * rate) \div Scale \in Nat /\ (f * rate) \div Scale \in Nat
             /\ turned(rate) \in Int
             /\ Scale * turned(rate) < (a - f) * rate + Scale
             /\ (a - f) * rate - Scale < Scale * turned(rate)
      BY <1>1, <2>2, <2>3, Converted
    <2> HIDE DEF turned
    <2>8. /\ (a * c.rate) \div Scale \in Nat /\ (f * c.rate) \div Scale \in Nat
          /\ e \in Int /\ Scale * e < d * c.rate + Scale /\ d * c.rate - Scale < Scale * e
      BY <2>4, <2>6, <2>14 DEF turned
    <2>9. b \in Int /\ Scale * b < d * c.settledRate + Scale /\ d * c.settledRate - Scale < Scale * b
      BY <2>4, <2>6, <2>14 DEF turned
    <2> DEFINE rate == c.rate
               later == c.settledRate
    <2>13. /\ rate \in Nat /\ later \in Nat /\ Near(rate) /\ Near(later)
           /\ Scale * e < d * rate + Scale /\ d * rate - Scale < Scale * e
           /\ Scale * b < d * later + Scale /\ d * later - Scale < Scale * b
      BY <2>4, <2>8, <2>9
    <2> HIDE DEF d, e, b, rate, later
    <2>10. e >= 100 /\ b >= 100 /\ 990 * b >= 900 * e /\ 5 * b < 9 * e
      BY <2>7, <2>8, <2>9, <2>13, Drift
    <2>11. Money(c, c.rate).fee >= 0 /\ Money(c, c.rate).amount >= Money(c, c.rate).fee
      <3>1. Money(c, c.rate) = [amount |-> (a * c.rate) \div Scale, fee |-> (f * c.rate) \div Scale]
        BY <1>4, <2>4, <2>5
      <3>2. e = (a * c.rate) \div Scale - (f * c.rate) \div Scale
        BY <2>6 DEF e
      <3> QED
        BY <2>8, <2>10, <3>1, <3>2
    <2>12. c.settledRate = c.rate => b = e
      BY DEF b, e
    <2> QED
      BY <2>8, <2>9, <2>10, <2>11, <2>12 DEF b, e
  <1> QED
    BY <1>3, <1>4

\* What each adjustment of a payment makes of its amount.
LEMMA AdjustedFacts ==
    ASSUME NEW b \in Int, b >= 100, NEW paid \in Adjustment
    PROVE  /\ SettledNet(b, paid) \in Nat
           /\ paid = "exact"   => SettledNet(b, paid) = b
           /\ paid = "partial" => 2 * SettledNet(b, paid) <= b
           /\ paid = "short"   => SettledNet(b, paid) < b /\ 100 * SettledNet(b, paid) >= 99 * b
           /\ paid = "over"    => SettledNet(b, paid) > b
  <1> DEFINE h == b \div 2
             q == b \div 100
             m == Max({1, q})
  <1>1. h \in Nat /\ 2 * h <= b /\ q \in Nat /\ 100 * q <= b /\ b < 100 * q + 100
    OBVIOUS
  <1> HIDE DEF h, q
  <1>2. m = IF 1 >= q THEN 1 ELSE q
    BY <1>1, MaxOfTwo
  <1>3. m \in Nat /\ m >= 1 /\ m <= b /\ 100 * m <= b
    BY <1>1, <1>2
  <1> HIDE DEF m
  <1>4. Max({0, b - m}) = b - m
    <2>1. b - m \in Int /\ b - m >= 0
      BY <1>3
    <2>2. Max({0, b - m}) = IF 0 >= b - m THEN 0 ELSE b - m
      BY <2>1, MaxOfTwo
    <2> QED
      BY <2>1, <2>2
  <1>5. CASE paid = "exact"
    BY <1>5 DEF SettledNet
  <1>6. CASE paid = "partial"
    BY <1>1, <1>6 DEF SettledNet, h
  <1>7. CASE paid = "short"
    <2>1. SettledNet(b, paid) = b - m
      BY <1>4, <1>7 DEF SettledNet, m, q
    <2> QED
      BY <1>3, <1>7, <2>1
  <1>8. CASE paid = "over"
    <2>1. SettledNet(b, paid) = b + m
      BY <1>8 DEF SettledNet, m, q
    <2> QED
      BY <1>3, <1>8, <2>1
  <1> QED
    BY <1>5, <1>6, <1>7, <1>8 DEF Adjustment

------------------------------------------------------------------------------
\* The staged rows.

LEMMA Ranks ==
    /\ Status = {"pending", "failed", "success", "reversed"}
    /\ STATUS_RANK["pending"] = 0 /\ STATUS_RANK["failed"] = 1
    /\ STATUS_RANK["success"] = 2 /\ STATUS_RANK["reversed"] = 3
  BY DEF Status, STATUS_RANK

LEMMA HighestRank ==
    ASSUME NEW statuses \in SUBSET Status, statuses # {}
    PROVE  \E s \in statuses : \A u \in statuses : STATUS_RANK[u] <= STATUS_RANK[s]
  <1>1. CASE "reversed" \in statuses
    BY <1>1, Ranks
  <1>2. CASE "reversed" \notin statuses /\ "success" \in statuses
    BY <1>2, Ranks
  <1>3. CASE "reversed" \notin statuses /\ "success" \notin statuses /\ "failed" \in statuses
    BY <1>3, Ranks
  <1>4. CASE statuses \subseteq {"pending"}
    <2>1. "pending" \in statuses /\ \A u \in statuses : u = "pending"
      BY <1>4
    <2> QED
      BY <2>1, Ranks
  <1> QED
    BY <1>1, <1>2, <1>3, <1>4, Ranks

\* What is fixed about a charge.
LEMMA ChargeFacts ==
    ASSUME TypeOK, NEW r \in Ref
    PROVE  /\ Lag[r] \in {1, 2} /\ charge[r] \in Charges[r] /\ charge[r].on \in Nat
           /\ charge[r].created \in Nat
           /\ charge[r].delay \in Nat /\ charge[r].paid \in Adjustment \cup {Null}
           /\ charge[r].reversed \in Nat \cup {Null}
           /\ FirstDay \in Nat /\ LastDay \in Nat /\ Null \notin Nat
           /\ Emitted(r) \subseteq Status
           /\ "reversed" \in Emitted(r) => charge[r].reversed \in Nat
  <1>1. charge[r] \in Charges[r] /\ charge[r] \in Charge /\ Lag[r] \in {1, 2}
    BY ConstantsAssumption DEF TypeOK
  <1> QED
    BY <1>1, Ranks, ConstantsAssumption DEF Charge, Emitted

\* The row that a run stages for a charge, from the copies it keeps.
LEMMA StagedFacts ==
    ASSUME TypeOK, NEW kept \in Kept, NEW r \in {e[1] : e \in DOMAIN kept},
           \A c \in copies : c[2] \in Emitted(c[1])
    PROVE  LET t == StagedTransaction(r, kept)
               statuses == {c[2] : c \in {d \in copies : d[1] = r}}
           IN  /\ r \in Ref /\ t.ref = r /\ t.status \in statuses
               /\ t \in [ref : Ref, status : Status, succeeded : Nat \cup {Null},
                         expected : Nat, watermark : Int, ingested : Day]
               /\ <<r, t.status, t.ingested>> \in copies
               /\ \A s \in statuses : STATUS_RANK[s] <= STATUS_RANK[t.status]
               /\ t.succeeded = IF "success" \in statuses THEN charge[r].on ELSE Null
               /\ t.expected = Lag[r] + IF t.succeeded = Null THEN UpdatedOn(r, t.status) ELSE t.succeeded
               /\ t.watermark = FirstDay + 2 - charge[r].delay
  <1> DEFINE t == StagedTransaction(r, kept)
             statuses == {c[2] : c \in {d \in copies : d[1] = r}}
             events == {<<c[1], c[2]>> : c \in copies}
  <1>1. kept \in [events -> Day] /\ \A e \in events : <<e[1], e[2], kept[e]>> \in copies
    BY DEF Kept
  <1>2. \A c \in copies : c = <<c[1], c[2], c[3]>> /\ c[1] \in Ref /\ c[2] \in Status /\ c[3] \in Day
    BY DEF TypeOK
  <1>3. StatusesOf(r, kept) = statuses
    <2>1. DOMAIN kept = events
      BY <1>1
    <2>2. ASSUME NEW s \in StatusesOf(r, kept) PROVE s \in statuses
      BY <2>1, <2>2 DEF StatusesOf
    <2>3. ASSUME NEW s \in statuses PROVE s \in StatusesOf(r, kept)
      <3>1. PICK c \in copies : c[1] = r /\ c[2] = s
        BY <2>3
      <3>2. <<r, s>> \in events /\ <<r, s>>[1] = r /\ <<r, s>>[2] = s
        BY <3>1
      <3>3. <<r, s>> \in {d \in DOMAIN kept : d[1] = r}
        BY <2>1, <3>2
      <3> QED
        BY <3>2, <3>3 DEF StatusesOf
    <2> QED
      BY <2>2, <2>3
  <1>4. r \in Ref /\ statuses \subseteq Status /\ statuses # {}
    <2>1. PICK c \in copies : c[1] = r
      BY <1>1
    <2> QED
      BY <1>2, <2>1
  <1>5. /\ t.ref = r
        /\ t.status = CHOOSE s \in statuses : \A u \in statuses : STATUS_RANK[u] <= STATUS_RANK[s]
        /\ t.succeeded = IF "success" \in statuses THEN charge[r].on ELSE Null
        /\ t.expected = Lag[r] + IF t.succeeded = Null THEN UpdatedOn(r, t.status) ELSE t.succeeded
        /\ t.watermark = FirstDay + 2 - charge[r].delay
        /\ t.ingested = kept[<<r, t.status>>]
        /\ t = [ref |-> t.ref, status |-> t.status, succeeded |-> t.succeeded, expected |-> t.expected,
                watermark |-> t.watermark, ingested |-> t.ingested]
    BY <1>3 DEF StagedTransaction
  <1> HIDE DEF t
  <1>6. t.status \in statuses /\ \A s \in statuses : STATUS_RANK[s] <= STATUS_RANK[t.status]
    BY <1>4, <1>5, HighestRank
  <1>7. <<r, t.status, t.ingested>> \in copies
    <2>1. PICK c \in copies : c[1] = r /\ c[2] = t.status
      BY <1>6
    <2>2. <<r, t.status>> \in events
      BY <2>1
    <2> QED
      BY <1>1, <1>5, <2>2
  <1>8. t.succeeded \in Nat \cup {Null} /\ t.expected \in Nat /\ t.watermark \in Int
    <2>1. charge[r].on \in Nat /\ charge[r].delay \in Nat /\ FirstDay \in Nat /\ Lag[r] \in Nat
      BY <1>4, ChargeFacts
    <2>2. UpdatedOn(r, t.status) \in Nat
      <3>1. t.status \in Emitted(r)
        BY <1>7
      <3>2. charge[r].created \in Nat /\ ("reversed" \in Emitted(r) => charge[r].reversed \in Nat)
        BY <1>4, ChargeFacts
      <3>3. CASE t.status = "pending"
        BY <3>2, <3>3 DEF UpdatedOn
      <3>4. CASE t.status = "reversed"
        BY <3>1, <3>2, <3>4 DEF UpdatedOn
      <3>5. CASE t.status \notin {"pending", "reversed"}
        BY <2>1, <3>5 DEF UpdatedOn
      <3> QED
        BY <3>3, <3>4, <3>5
    <2> QED
      BY <1>5, <2>1, <2>2
  <1>9. t.ingested \in Day /\ t.status \in Status
    BY <1>2, <1>7
  <1> QED
    BY <1>4, <1>5, <1>6, <1>7, <1>8, <1>9 DEF t

\* The line of a charge that is settled.
LEMMA LineFacts ==
    ASSUME TypeOK, NEW r \in Ref, charge[r].paid # Null
    PROVE  LET s == StagedSettlement(r)
           IN  /\ s \in [ref : Ref, date : Nat, net : Nat]
               /\ s.ref = r /\ s.date = charge[r].on + Lag[r]
               /\ s.net = SettledNet(Net(charge[r], charge[r].settledRate), charge[r].paid)
  <1>1. /\ charge[r].on + Lag[r] \in Nat
        /\ SettledNet(Net(charge[r], charge[r].settledRate), charge[r].paid) \in Nat
    BY ChargeFacts, NetFacts, AdjustedFacts
  <1> QED
    BY <1>1 DEF StagedSettlement

\* Of some days there is a latest.
LEMMA LatestDay ==
    ASSUME NEW days \in SUBSET Day, days # {}
    PROVE  Max(days) \in days /\ \A d \in days : d <= Max(days)
  <1> DEFINE before == {LastDay - d : d \in days}
  <1>1. LastDay \in Nat /\ \A d \in days : d \in Nat /\ LastDay - d \in Nat
    <2>1. FirstDay \in Nat /\ LastDay \in Nat
      BY ConstantsAssumption
    <2>2. \A d \in Day : d \in Nat /\ LastDay - d \in Nat
      BY <2>1 DEF Day
    <2> QED
      BY <2>1, <2>2
  <1>2. before \subseteq Nat /\ before # {}
    BY <1>1
  <1>3. PICK n \in before : \A k \in before : <<k, n>> \notin OpToRel(<, Nat)
    BY <1>2, NatLessThanWellFounded, WFMin, Zenon
  <1>4. \A k \in before : ~(k < n)
    BY <1>2, <1>3, Zenon DEF OpToRel
  <1>5. PICK d \in days : n = LastDay - d
    BY <1>3
  <1>6. \A k \in days : d >= k
    <2> TAKE k \in days
    <2>1. ~(LastDay - k < LastDay - d)
      BY <1>4, <1>5
    <2> QED
      BY <1>1, <2>1
  <1>7. Max(days) \in days /\ \A k \in days : Max(days) >= k
    BY <1>6 DEF Max
  <1> QED
    BY <1>1, <1>7

LEMMA InvInit == Init => RInv
  <1> SUFFICES ASSUME Init PROVE RInv
    OBVIOUS
  <1> USE DEF Init
  <1>1. basis[1] = {} /\ basis[2] = {}
    OBVIOUS
  <1>2. TypeOK
    <2>1. today \in Day
      BY ConstantsAssumption DEF Day
    <2>2. basis \in (SUBSET (Ref \X Status \X Day)) \X SUBSET Ref
      OBVIOUS
    <2> QED
      BY <2>1, <2>2 DEF TypeOK
  <1>3. IsFiniteSet(copies) /\ IsFiniteSet(tx)
    BY FS_EmptySet
  <1>4. fct_transactions_unique_ref
    BY DEF fct_transactions_unique_ref
  <1> QED
    BY <1>1, <1>2, <1>3, <1>4 DEF RInv

\* A step that leaves the staged tables alone.
LEMMA ArrivalInv ==
    ASSUME RInv, TypeOK',
           UNCHANGED <<charge, tx, lines, basis>>, copies \subseteq copies', settled \subseteq settled',
           \A c \in copies' : c[2] \in Emitted(c[1]) /\ c[3] <= today',
           \A c \in copies' \ copies : \A d \in copies : d[3] <= c[3],
           Redelivery \/ \A c, d \in copies' : c[1] = d[1] /\ c[2] = d[2] => c = d,
           \A r \in settled' : charge[r].paid # Null,
           IsFiniteSet(copies')
    PROVE  RInv'
  <1>1. \A c \in copies' : c[2] \in Emitted(c[1])' /\ c[3] <= today'
    BY DEF Emitted
  <1>2. basis[1] \subseteq copies' /\ basis[2] \subseteq settled'
    BY DEF RInv
  <1>3. \A c \in basis[1], d \in copies' \ basis[1] : c[3] <= d[3]
    BY DEF RInv
  <1>4. \A t \in tx : Collapsed(t)' = Collapsed(t)
    BY DEF Collapsed, UpdatedOn
  <1>5. \A r \in basis[2] : StagedSettlement(r)' = StagedSettlement(r)
    BY DEF StagedSettlement
  <1>6. lines' = {StagedSettlement(r)' : r \in basis'[2]}
    BY <1>5 DEF RInv
  <1>7. fct_transactions_unique_ref'
    BY DEF RInv, fct_transactions_unique_ref
  <1> QED
    BY <1>1, <1>2, <1>3, <1>4, <1>6, <1>7 DEF RInv

\* A run stages one row for each reference it reads.
LEMMA RunInv == RInv /\ Run => RInv'
  <1> SUFFICES ASSUME RInv, Run PROVE RInv'
    OBVIOUS
  <1>1. TypeOK /\ \A c \in copies : c[2] \in Emitted(c[1])
    BY DEF RInv
  <1>2. PICK kept \in Kept : tx' = {StagedTransaction(r, kept) : r \in {e[1] : e \in DOMAIN kept}}
    BY DEF Run
  <1> DEFINE refs == {e[1] : e \in DOMAIN kept}
             row(r) == StagedTransaction(r, kept)
  <1>3. UNCHANGED <<today, charge, copies, settled>> /\ basis'[1] = copies /\ basis'[2] = settled
    BY DEF Run
  <1>4. \A r \in refs :
          LET t == row(r)
              statuses == {c[2] : c \in {d \in copies : d[1] = r}}
          IN  /\ r \in Ref /\ t.ref = r /\ t.status \in statuses
              /\ t \in [ref : Ref, status : Status, succeeded : Nat \cup {Null},
                        expected : Nat, watermark : Int, ingested : Day]
              /\ <<r, t.status, t.ingested>> \in copies
              /\ \A s \in statuses : STATUS_RANK[s] <= STATUS_RANK[t.status]
              /\ t.succeeded = IF "success" \in statuses THEN charge[r].on ELSE Null
              /\ t.expected = Lag[r] + IF t.succeeded = Null THEN UpdatedOn(r, t.status) ELSE t.succeeded
              /\ t.watermark = FirstDay + 2 - charge[r].delay
    BY <1>1, StagedFacts
  <1>5. refs = {c[1] : c \in copies}
    <2>1. DOMAIN kept = {<<c[1], c[2]>> : c \in copies}
      BY DEF Kept
    <2>2. ASSUME NEW r \in refs PROVE r \in {c[1] : c \in copies}
      BY <2>1
    <2>3. ASSUME NEW c \in copies PROVE c[1] \in refs
      <3>1. <<c[1], c[2]>> \in DOMAIN kept /\ <<c[1], c[2]>>[1] = c[1]
        BY <2>1
      <3> QED
        BY <3>1
    <2> QED
      BY <2>2, <2>3
  <1> HIDE DEF refs, row
  <1>6. tx' = {row(r) : r \in refs}
    BY <1>2 DEF refs, row
  <1>7. TypeOK'
    <2>1. lines' \subseteq [ref : Ref, date : Nat, net : Nat]
      <3>1. \A r \in settled : r \in Ref /\ charge[r].paid # Null
        BY <1>1 DEF RInv, TypeOK
      <3>2. \A r \in settled : StagedSettlement(r) \in [ref : Ref, date : Nat, net : Nat]
        BY <1>1, <3>1, LineFacts
      <3> QED
        BY <3>2 DEF Run
    <2>2. basis' \in (SUBSET (Ref \X Status \X Day)) \X SUBSET Ref
      BY <1>1 DEF TypeOK, Run
    <2>3. tx' \subseteq [ref : Ref, status : Status, succeeded : Nat \cup {Null},
                         expected : Nat, watermark : Int, ingested : Day]
      <3>1. \A r \in refs :
              row(r) \in [ref : Ref, status : Status, succeeded : Nat \cup {Null},
                         expected : Nat, watermark : Int, ingested : Day]
        BY <1>4
      <3> QED
        BY <1>6, <3>1
    <2> QED
      BY <1>1, <1>3, <2>1, <2>2, <2>3 DEF TypeOK
  <1>8. fct_transactions_unique_ref' /\ {t.ref : t \in tx'} = refs
    <2>1. \A r \in refs : row(r).ref = r
      BY <1>4
    <2> QED
      BY <1>6, <2>1 DEF fct_transactions_unique_ref
  <1>9. \A t \in tx' : Collapsed(t)'
    <2> TAKE t \in tx'
    <2>1. PICK r \in refs : t = row(r)
      BY <1>6
    <2> DEFINE statuses == {c[2] : c \in {d \in copies : d[1] = r}}
    <2>2. /\ t.ref = r /\ <<r, t.status, t.ingested>> \in copies
          /\ \A s \in statuses : STATUS_RANK[s] <= STATUS_RANK[t.status]
          /\ t.succeeded = IF "success" \in statuses THEN charge[r].on ELSE Null
          /\ t.expected = Lag[r] + IF t.succeeded = Null THEN UpdatedOn(r, t.status) ELSE t.succeeded
          /\ t.watermark = FirstDay + 2 - charge[r].delay
      BY <1>4, <2>1
    <2>3. UpdatedOn(r, t.status)' = UpdatedOn(r, t.status)
      BY <1>3 DEF UpdatedOn
    <2> HIDE DEF UpdatedOn
    <2> QED
      BY <1>3, <2>2, <2>3 DEF Collapsed
  <1>10. IsFiniteSet(tx')
    <2> DEFINE f == [c \in copies |-> row(c[1])]
    <2>1. \A c \in copies : c[1] \in refs
      BY <1>5
    <2>2. f \in [copies -> tx'] /\ \A t \in tx' : \E c \in copies : f[c] = t
      BY <1>5, <1>6, <2>1
    <2>3. f \in Surjection(copies, tx')
      BY <2>2 DEF Surjection
    <2> QED
      BY <2>3, FS_Surjection DEF RInv
  <1>11. lines' = {StagedSettlement(r)' : r \in basis'[2]}
    BY <1>3 DEF Run, StagedSettlement
  <1>12. /\ \A c \in copies' : c[2] \in Emitted(c[1])' /\ c[3] <= today'
         /\ Redelivery \/ \A c, d \in copies' : c[1] = d[1] /\ c[2] = d[2] => c = d
         /\ \A r \in settled' : charge'[r].paid # Null
         /\ IsFiniteSet(copies')
    BY <1>3 DEF RInv, Emitted
  <1> QED
    BY <1>3, <1>5, <1>7, <1>8, <1>9, <1>10, <1>11, <1>12 DEF RInv

LEMMA InvStep == RInv /\ [Next]_vars => RInv'
  <1> SUFFICES ASSUME RInv, [Next]_vars PROVE RInv'
    OBVIOUS
  <1>1. TypeOK
    BY DEF RInv
  <1>2. \A c \in copies : c[3] \in Nat /\ today \in Nat /\ c[3] <= today /\ c[1] \in Ref
    BY <1>1, ConstantsAssumption DEF RInv, TypeOK, Day
  <1>3. CASE NextDay
    <2>1. TypeOK'
      BY <1>1, <1>3, ConstantsAssumption DEF NextDay, TypeOK, Day
    <2>2. \A c \in copies' : c[2] \in Emitted(c[1]) /\ c[3] <= today'
      BY <1>2, <1>3 DEF NextDay, RInv
    <2> QED
      BY <1>3, <2>1, <2>2, ArrivalInv DEF NextDay, RInv
  <1>4. ASSUME NEW r \in Ref, NEW s \in Status, Arrive(r, s) PROVE RInv'
    <2> DEFINE new == <<r, s, today>>
    <2>1. /\ s \in Emitted(r) /\ copies' = copies \cup {new} /\ settled' = settled /\ today' = today
          /\ Redelivery \/ \A c \in copies : c[1] # r \/ c[2] # s
          /\ UNCHANGED <<charge, tx, lines, basis>>
      BY <1>4 DEF Arrive
    <2>2. new \in Ref \X Status \X Day /\ new[1] = r /\ new[2] = s /\ new[3] = today /\ today \in Nat
      BY <1>1, ConstantsAssumption DEF TypeOK, Day
    <2> HIDE DEF new
    <2>3. TypeOK'
      BY <1>1, <2>1, <2>2 DEF TypeOK
    <2>4. \A c \in copies' : c[2] \in Emitted(c[1]) /\ c[3] <= today'
      BY <2>1, <2>2 DEF RInv
    <2>5. \A c \in copies' \ copies : \A d \in copies : d[3] <= c[3]
      BY <1>2, <2>1, <2>2
    <2>6. Redelivery \/ \A c, d \in copies' : c[1] = d[1] /\ c[2] = d[2] => c = d
      BY <2>1, <2>2 DEF RInv
    <2>7. IsFiniteSet(copies')
      BY <2>1, FS_AddElement DEF RInv
    <2> QED
      BY <2>1, <2>3, <2>4, <2>5, <2>6, <2>7, ArrivalInv DEF RInv
  <1>5. ASSUME NEW r \in Ref, ArriveSettlement(r) PROVE RInv'
    <2>1. TypeOK'
      BY <1>1, <1>5 DEF ArriveSettlement, TypeOK
    <2> QED
      BY <1>5, <2>1, ArrivalInv DEF ArriveSettlement, RInv
  <1>6. CASE UNCHANGED vars
    <2>1. TypeOK'
      BY <1>1, <1>6 DEF TypeOK, vars
    <2> QED
      BY <1>6, <2>1, ArrivalInv DEF vars, RInv
  <1> QED
    BY <1>3, <1>4, <1>5, <1>6, RunInv DEF Next

------------------------------------------------------------------------------
\* The rows of the mart.

LEMMA JoinedFacts ==
    ASSUME RInv, NEW j \in Joined
    PROVE  /\ j.tx \in tx /\ j.tx.ref \in Ref /\ j.tx.status \in {"success", "reversed"}
           /\ j.line = Null => j.tx.ref \notin basis[2] /\ j.tx.status = "success"
           /\ j.line # Null =>
                /\ j.line \in lines /\ j.tx.ref \in basis[2]
                /\ charge[j.tx.ref].paid \in Adjustment
                /\ j.line.net = SettledNet(Net(charge[j.tx.ref], charge[j.tx.ref].settledRate),
                                           charge[j.tx.ref].paid)
           /\ ExpectedNet(j) \in Int /\ ExpectedNet(j) >= 100
  <1>1. TypeOK /\ lines = {StagedSettlement(r) : r \in basis[2]}
    BY DEF RInv
  <1>2. \A s \in lines : s # Null
    BY <1>1, ConstantsAssumption DEF TypeOK
  <1>3. \A r \in basis[2] : r \in Ref /\ charge[r].paid # Null
    BY <1>1 DEF RInv, TypeOK
  <1>4. \A r \in basis[2] : StagedSettlement(r) \in lines /\ StagedSettlement(r).ref = r
    BY <1>1, <1>3, LineFacts
  <1>5. j.tx \in Eligible /\ j.tx \in tx /\ j.tx.ref \in Ref
    BY <1>1 DEF Joined, Eligible, TypeOK
  <1>6. j.tx.status \in {"success", "reversed"}
        /\ (j.tx.status = "reversed" => \E s \in lines : s.ref = j.tx.ref)
    BY <1>5 DEF Eligible
  <1>7. CASE j.line = Null
    <2>1. \A s \in lines : s.ref # j.tx.ref
      BY <1>7 DEF Joined
    <2>2. j.tx.ref \notin basis[2]
      BY <1>4, <2>1
    <2> QED
      BY <1>1, <1>5, <1>6, <1>7, <2>1, <2>2, NetFacts, ChargeFacts DEF ExpectedNet
  <1>8. CASE j.line # Null
    <2>1. j.line \in lines /\ j.line.ref = j.tx.ref
      BY <1>8 DEF Joined
    <2>2. PICK r \in basis[2] : j.line = StagedSettlement(r)
      BY <1>1, <2>1
    <2>3. r = j.tx.ref
      BY <1>4, <2>1, <2>2
    <2>4. /\ charge[r].paid \in Adjustment
          /\ j.line.net = SettledNet(Net(charge[r], charge[r].settledRate), charge[r].paid)
      BY <1>1, <1>3, <2>2, LineFacts, ChargeFacts
    <2> QED
      BY <1>1, <1>5, <1>6, <1>8, <2>1, <2>3, <2>4, NetFacts, ChargeFacts DEF ExpectedNet
  <1> QED
    BY <1>7, <1>8

\* What a label says of the two amounts, and of the source.
LEMMA LabelFacts ==
    ASSUME RInv, NEW j \in Joined
    PROVE  LET label == ReconciliationStatus(j)
               net   == j.line.net
           IN  /\ j.line = Null => label = IF IsFresh(j) THEN "missing_settlement" ELSE "unverified_source"
               /\ j.line # Null /\ j.tx.status = "reversed" => label = "reversed_after_settlement"
               /\ j.line # Null /\ j.tx.status = "success" =>
                    /\ net \in Nat
                    /\ net = ExpectedNet(j) => label = "matched"
                    /\ 10 * net < 9 * ExpectedNet(j) => label = "partial_settlement"
                    /\ 10 * net >= 9 * ExpectedNet(j) /\ net < ExpectedNet(j) => label = "short_paid"
                    /\ net > ExpectedNet(j) => label = "overpaid"
  <1> DEFINE e == ExpectedNet(j)
             net == j.line.net
  <1>1. e \in Int /\ e >= 100 /\ j.tx.status \in {"success", "reversed"}
    BY JoinedFacts
  <1>2. CASE j.line = Null
    <2>1. j.tx.status = "success"
      BY <1>2, JoinedFacts
    <2> QED
      BY <1>2, <2>1 DEF ReconciliationStatus
  <1>3. CASE j.line # Null /\ j.tx.status = "reversed"
    BY <1>3 DEF ReconciliationStatus
  <1>4. CASE j.line # Null /\ j.tx.status = "success"
    <2>1. net \in Nat
      BY <1>4, JoinedFacts DEF RInv, TypeOK
    <2>2. ReconciliationStatus(j) =
            CASE net = e          -> "matched"
              [] 10 * net < 9 * e -> "partial_settlement"
              [] 10 * net >= 9 * e /\ net < e -> "short_paid"
              [] net > e          -> "overpaid"
      BY <1>4 DEF ReconciliationStatus
    <2> HIDE DEF e, net
    <2>3. /\ net = e => ~(10 * net < 9 * e) /\ ~(net < e) /\ ~(net > e)
          /\ 10 * net < 9 * e => ~(net = e) /\ ~(10 * net >= 9 * e) /\ ~(net > e)
          /\ 10 * net >= 9 * e /\ net < e => ~(net = e) /\ ~(10 * net < 9 * e) /\ ~(net > e)
          /\ net > e => ~(net = e) /\ ~(10 * net < 9 * e) /\ ~(net < e)
      BY <1>1, <2>1
    <2> QED
      BY <1>4, <2>1, <2>2, <2>3 DEF e, net
  <1> QED
    BY <1>1, <1>2, <1>3, <1>4

LEMMA LabelsRight == RInv => LabelMeansAdjustment
  <1> SUFFICES ASSUME RInv, NEW j \in Joined, j.line # Null, j.tx.status = "success"
               PROVE  LET c == charge[j.tx.ref]
                      IN  /\ ReconciliationStatus(j) = "partial_settlement" <=> c.paid = "partial"
                          /\ c.settledRate = c.rate => ReconciliationStatus(j) = StatusOf(c.paid)
    BY DEF LabelMeansAdjustment
  <1> DEFINE c == charge[j.tx.ref]
             e == ExpectedNet(j)
             b == Net(c, c.settledRate)
             net == j.line.net
  <1>1. TypeOK /\ j.tx.ref \in Ref /\ c \in Charges[j.tx.ref] /\ c.paid \in Adjustment
    BY JoinedFacts, ChargeFacts DEF RInv
  <1>2. /\ e \in Int /\ b \in Int /\ e >= 100 /\ b >= 100 /\ 990 * b >= 900 * e /\ 5 * b < 9 * e
        /\ c.settledRate = c.rate => b = e
    BY <1>1, NetFacts DEF ExpectedNet
  <1>3. net = SettledNet(b, c.paid)
    BY JoinedFacts
  <1>4. /\ net \in Nat
        /\ net = e => ReconciliationStatus(j) = "matched"
        /\ 10 * net < 9 * e => ReconciliationStatus(j) = "partial_settlement"
        /\ 10 * net >= 9 * e /\ net < e => ReconciliationStatus(j) = "short_paid"
        /\ net > e => ReconciliationStatus(j) = "overpaid"
    BY LabelFacts
  <1> HIDE DEF c, e, b, net
  <1>5. 10 * net >= 9 * e => ReconciliationStatus(j) # "partial_settlement"
    BY <1>2, <1>4
  <1>6. CASE c.paid = "partial"
    <2>1. 2 * net <= b
      BY <1>1, <1>2, <1>3, <1>6, AdjustedFacts
    <2>2. 10 * net < 9 * e
      BY <1>2, <1>4, <2>1
    <2> QED
      BY <1>4, <1>6, <2>2 DEF StatusOf, c
  <1>7. CASE c.paid = "exact"
    <2>1. net = b
      BY <1>1, <1>2, <1>3, <1>7, AdjustedFacts
    <2>2. 10 * net >= 9 * e
      BY <1>2, <2>1
    <2> QED
      BY <1>2, <1>4, <1>5, <1>7, <2>1, <2>2 DEF StatusOf, c
  <1>8. CASE c.paid = "short"
    <2>1. net < b /\ 100 * net >= 99 * b
      BY <1>1, <1>2, <1>3, <1>8, AdjustedFacts
    <2>2. 10 * net >= 9 * e
      BY <1>2, <1>4, <2>1
    <2> QED
      BY <1>2, <1>4, <1>5, <1>8, <2>1, <2>2 DEF StatusOf, c
  <1>9. CASE c.paid = "over"
    <2>1. net > b
      BY <1>1, <1>2, <1>3, <1>9, AdjustedFacts
    <2>2. 10 * net >= 9 * e
      BY <1>2, <1>4, <2>1
    <2> QED
      BY <1>2, <1>4, <1>5, <1>9, <2>1, <2>2 DEF StatusOf, c
  <1> QED
    BY <1>1, <1>6, <1>7, <1>8, <1>9 DEF Adjustment, c

\* The outstanding amount is what the line leaves of the expected one.
LEMMA OutstandingFacts ==
    ASSUME RInv, NEW j \in Joined
    PROVE  /\ j.line = Null => OutstandingNet(j) = ExpectedNet(j)
           /\ j.line # Null /\ j.tx.status = "reversed" => OutstandingNet(j) = 0
           /\ j.line # Null /\ j.tx.status = "success" =>
                OutstandingNet(j) = IF ExpectedNet(j) > j.line.net THEN ExpectedNet(j) - j.line.net ELSE 0
  <1>1. CASE j.line # Null /\ j.tx.status = "success"
    <2>1. j.line.net \in Nat /\ ExpectedNet(j) \in Int
      BY <1>1, JoinedFacts, LabelFacts
    <2>2. Max({0, ExpectedNet(j) - j.line.net}) =
            IF 0 >= ExpectedNet(j) - j.line.net THEN 0 ELSE ExpectedNet(j) - j.line.net
      BY <2>1, MaxOfTwo
    <2>3. OutstandingNet(j) = Max({0, ExpectedNet(j) - j.line.net})
      BY <1>1 DEF OutstandingNet
    <2> QED
      BY <1>1, <2>1, <2>2, <2>3
  <1>2. CASE j.line = Null \/ j.tx.status = "reversed"
    BY <1>2, JoinedFacts DEF OutstandingNet
  <1> QED
    BY <1>1, <1>2, JoinedFacts

LEMMA ExposureRight == RInv => ExposureIsLabelled
  <1> SUFFICES ASSUME RInv, NEW j \in Joined
               PROVE  (OutstandingNet(j) > 0) <=> ReconciliationStatus(j) \in
                         {"missing_settlement", "unverified_source", "partial_settlement", "short_paid"}
    BY DEF ExposureIsLabelled
  <1>1. ExpectedNet(j) \in Int /\ ExpectedNet(j) >= 100 /\ j.tx.status \in {"success", "reversed"}
    BY JoinedFacts
  <1>2. CASE j.line = Null
    BY <1>1, <1>2, LabelFacts, OutstandingFacts
  <1>3. CASE j.line # Null /\ j.tx.status = "reversed"
    BY <1>3, LabelFacts, OutstandingFacts
  <1>4. CASE j.line # Null /\ j.tx.status = "success"
    BY <1>1, <1>4, LabelFacts, OutstandingFacts
  <1> QED
    BY <1>1, <1>2, <1>3, <1>4

------------------------------------------------------------------------------
\* Time.

\* The days of a staged row.
StagedDays ==
    \A t \in tx :
        /\ t.ref \in Ref /\ t.ingested \in Day /\ t.ingested <= today
        /\ t.succeeded # Null => t.succeeded = charge[t.ref].on
        /\ t.status = "success" =>
              t.succeeded = charge[t.ref].on /\ t.expected = charge[t.ref].on + Lag[t.ref]
        /\ t.watermark = FirstDay + 2 - charge[t.ref].delay

LEMMA StagedDaysRight == RInv => StagedDays
  <1> SUFFICES ASSUME RInv, NEW t \in tx
               PROVE  /\ t.ref \in Ref /\ t.ingested \in Day /\ t.ingested <= today
                      /\ t.succeeded # Null => t.succeeded = charge[t.ref].on
                      /\ t.status = "success" =>
                           t.succeeded = charge[t.ref].on /\ t.expected = charge[t.ref].on + Lag[t.ref]
                      /\ t.watermark = FirstDay + 2 - charge[t.ref].delay
    BY DEF StagedDays
  <1> DEFINE statuses == {c[2] : c \in {d \in basis[1] : d[1] = t.ref}}
  <1>1. TypeOK /\ Collapsed(t) /\ t.ref \in Ref /\ t.ingested \in Day
    BY DEF RInv, TypeOK
  <1>2. /\ <<t.ref, t.status, t.ingested>> \in basis[1]
        /\ t.succeeded = IF "success" \in statuses THEN charge[t.ref].on ELSE Null
        /\ t.expected = Lag[t.ref] + IF t.succeeded = Null THEN UpdatedOn(t.ref, t.status) ELSE t.succeeded
        /\ t.watermark = FirstDay + 2 - charge[t.ref].delay
    BY <1>1 DEF Collapsed
  <1>3. \A c \in basis[1] : c[3] <= today
    BY DEF RInv
  <1>4. <<t.ref, t.status, t.ingested>>[3] = t.ingested /\ t.ingested <= today
    BY <1>2, <1>3
  <1>5. charge[t.ref].on \in Nat /\ Lag[t.ref] \in Nat /\ Null \notin Nat
    BY <1>1, ChargeFacts
  <1>6. ASSUME t.status = "success"
        PROVE  t.succeeded = charge[t.ref].on /\ t.expected = charge[t.ref].on + Lag[t.ref]
    <2>1. "success" \in statuses
      BY <1>2, <1>6
    <2> HIDE DEF statuses
    <2>2. t.succeeded = charge[t.ref].on /\ t.succeeded # Null
      BY <1>2, <1>5, <2>1
    <2>3. t.expected = Lag[t.ref] + t.succeeded
      BY <1>2, <2>2
    <2> QED
      BY <1>5, <2>2, <2>3
  <1> QED
    BY <1>1, <1>2, <1>4, <1>6

\* The as-of date is the latest day of the staged rows.
AsOfIsLatest ==
    tx # {} => /\ AsOf \in Day /\ AsOf <= today
               /\ \A t \in tx : t.ingested <= AsOf
               /\ \E t \in tx : t.ingested = AsOf

LEMMA AsOfRight == RInv => AsOfIsLatest
  <1> SUFFICES ASSUME RInv, tx # {}
               PROVE  /\ AsOf \in Day /\ AsOf <= today
                      /\ \A t \in tx : t.ingested <= AsOf
                      /\ \E t \in tx : t.ingested = AsOf
    BY DEF AsOfIsLatest
  <1> DEFINE days == {t.ingested : t \in tx}
  <1>1. \A t \in tx : t.ingested \in Day /\ t.ingested <= today
    BY StagedDaysRight DEF StagedDays
  <1>2. days \in SUBSET Day /\ days # {} /\ AsOf = Max(days)
    BY <1>1 DEF AsOf
  <1> HIDE DEF AsOf
  <1>3. AsOf \in days /\ \A d \in days : d <= AsOf
    BY <1>2, LatestDay
  <1> QED
    BY <1>1, <1>3

\* What the bucket of a charge that has no line is computed from.
Unpaid ==
    \A j \in Joined : j.line = Null =>
        LET r    == j.tx.ref
            days == AsOf - charge[r].on
        IN  ReconciliationBucket(j) =
                IF FirstDay + 2 - charge[r].delay < charge[r].on + Lag[r] THEN "pending_within_sla"
                ELSE IF days <= 1 THEN "pending_t1"
                ELSE IF days = 2 THEN "pending_t2"
                ELSE "breached_sla"

LEMMA UnpaidRight == RInv => Unpaid
  <1> SUFFICES ASSUME RInv, NEW j \in Joined, j.line = Null
               PROVE  LET r    == j.tx.ref
                          days == AsOf - charge[r].on
                      IN  ReconciliationBucket(j) =
                              IF FirstDay + 2 - charge[r].delay < charge[r].on + Lag[r] THEN "pending_within_sla"
                              ELSE IF days <= 1 THEN "pending_t1"
                              ELSE IF days = 2 THEN "pending_t2"
                              ELSE "breached_sla"
    BY DEF Unpaid
  <1> DEFINE r == j.tx.ref
             on == charge[r].on
             lag == Lag[r]
             delay == charge[r].delay
             asOf == AsOf
  <1>1. j.tx \in tx /\ j.tx.status = "success" /\ TypeOK /\ r \in Ref
    BY JoinedFacts DEF RInv
  <1>2. /\ j.tx.succeeded = on /\ j.tx.expected = on + lag
        /\ j.tx.watermark = FirstDay + 2 - delay
    BY <1>1, StagedDaysRight DEF StagedDays
  <1>3. on \in Nat /\ lag \in {1, 2} /\ delay \in Nat /\ FirstDay \in Nat
    BY <1>1, ChargeFacts
  <1>4. asOf \in Nat
    BY <1>1, AsOfRight, ConstantsAssumption DEF AsOfIsLatest, Day
  <1>5. IsFresh(j) <=> ~(FirstDay + 2 - delay < on + lag)
    <2>1. IsFresh(j) <=> FirstDay + 2 - delay >= on + lag
      BY <1>2 DEF IsFresh
    <2> HIDE DEF on, lag, delay
    <2> QED
      BY <1>3, <2>1
  <1>6. ReconciliationBucket(j) =
          IF ~IsFresh(j) THEN "pending_within_sla"
          ELSE CASE asOf - on <= 1 -> "pending_t1"
                 [] asOf - on = 2  -> "pending_t2"
                 [] OTHER -> IF asOf <= on + lag THEN "pending_within_sla" ELSE "breached_sla"
    BY <1>2 DEF ReconciliationBucket, DaysSinceSuccess
  <1> HIDE DEF on, lag, delay, asOf
  <1>7. (CASE asOf - on <= 1 -> "pending_t1"
           [] asOf - on = 2  -> "pending_t2"
           [] OTHER -> IF asOf <= on + lag THEN "pending_within_sla" ELSE "breached_sla")
        = IF asOf - on <= 1 THEN "pending_t1"
          ELSE IF asOf - on = 2 THEN "pending_t2"
          ELSE "breached_sla"
    <2>1. CASE asOf - on <= 1
      BY <1>3, <1>4, <2>1
    <2>2. CASE asOf - on = 2
      BY <1>3, <1>4, <2>2
    <2>3. CASE ~(asOf - on <= 1) /\ asOf - on # 2
      <3>1. ~(asOf <= on + lag)
        BY <1>3, <1>4, <2>3
      <3> QED
        BY <2>3, <3>1
    <2> QED
      BY <2>1, <2>2, <2>3
  <1> QED
    BY <1>5, <1>6, <1>7 DEF on, lag, delay, asOf

LEMMA BreachRight == RInv => BreachIsReal
  <1> SUFFICES ASSUME RInv, NEW j \in Joined
               PROVE  LET r        == j.tx.ref
                          due      == charge[r].on + Lag[r]
                          breached == ReconciliationBucket(j) = "breached_sla"
                      IN  /\ breached \/ ReconciliationStatus(j) = "missing_settlement" =>
                                r \notin basis[2] /\ due <= FirstDay + 2 - charge[r].delay
                          /\ breached => due < today
    BY DEF BreachIsReal
  <1> DEFINE r == j.tx.ref
             on == charge[r].on
             lag == Lag[r]
             delay == charge[r].delay
             asOf == AsOf
  <1>1. /\ j.tx \in tx /\ r \in Ref /\ TypeOK /\ j.tx.status \in {"success", "reversed"}
        /\ j.line = Null => r \notin basis[2] /\ j.tx.status = "success"
    BY JoinedFacts DEF RInv
  <1>2. /\ on \in Nat /\ lag \in {1, 2} /\ delay \in Nat /\ FirstDay \in Nat
        /\ today \in Nat /\ asOf \in Nat /\ asOf <= today
    BY <1>1, ChargeFacts, AsOfRight, ConstantsAssumption DEF AsOfIsLatest, TypeOK, Day
  <1>3. CASE j.line # Null
    <2>1. ReconciliationBucket(j) = "settled"
      BY <1>3 DEF ReconciliationBucket
    <2>2. ReconciliationStatus(j) # "missing_settlement"
      BY <1>1, <1>3, LabelFacts, JoinedFacts
    <2> QED
      BY <2>1, <2>2
  <1>4. CASE j.line = Null
    <2>1. j.tx.expected = on + lag /\ j.tx.watermark = FirstDay + 2 - delay
      BY <1>1, <1>4, StagedDaysRight DEF StagedDays
    <2>2. ReconciliationBucket(j) =
                IF FirstDay + 2 - delay < on + lag THEN "pending_within_sla"
                ELSE IF asOf - on <= 1 THEN "pending_t1"
                ELSE IF asOf - on = 2 THEN "pending_t2"
                ELSE "breached_sla"
      BY <1>4, UnpaidRight DEF Unpaid
    <2>3. ReconciliationStatus(j) = IF FirstDay + 2 - delay >= on + lag THEN "missing_settlement"
                                    ELSE "unverified_source"
      BY <1>4, <2>1, LabelFacts DEF IsFresh
    <2>4. r \notin basis[2]
      BY <1>1, <1>4
    <2> HIDE DEF r, on, lag, delay, asOf
    <2>5. ReconciliationStatus(j) = "missing_settlement" => on + lag <= FirstDay + 2 - delay
      BY <1>2, <2>3
    <2>6. ReconciliationBucket(j) = "breached_sla" =>
            on + lag <= FirstDay + 2 - delay /\ on + lag < today
      BY <1>2, <2>2
    <2> QED
      BY <2>4, <2>5, <2>6 DEF r, on, lag, delay
  <1> QED
    BY <1>3, <1>4

------------------------------------------------------------------------------
\* The hard checks.

\* Each row of the fact has one row in the mart.
LEMMA MartTiesToFact == RInv => reconciliation_ties_to_fact
  <1> SUFFICES ASSUME RInv PROVE Cardinality(Joined) = Cardinality(FactRows)
    BY DEF reconciliation_ties_to_fact
  <1>1. TypeOK /\ lines = {StagedSettlement(r) : r \in basis[2]} /\ fct_transactions_unique_ref
    BY DEF RInv
  <1>2. \A s, u \in lines : s.ref = u.ref => s = u
    <2>1. \A r \in basis[2] : r \in Ref /\ charge[r].paid # Null
      BY <1>1 DEF RInv, TypeOK
    <2>2. \A r \in basis[2] : StagedSettlement(r).ref = r
      BY <1>1, <2>1, LineFacts
    <2> QED
      BY <1>1, <2>2
  <1>3. FactRows = Eligible
    BY DEF FactRows, Eligible
  <1> DEFINE f == [j \in Joined |-> j.tx]
             Pairs == [tx : Eligible, line : lines \cup {Null}]
  <1>4. \A j \in Joined : j \in Pairs /\ j.tx \in Eligible
    BY DEF Joined
  <1>5. \A j, k \in Joined : j.tx = k.tx => j = k
    <2> SUFFICES ASSUME NEW j \in Joined, NEW k \in Joined, j.tx = k.tx PROVE j = k
      OBVIOUS
    <2>1. /\ IF j.line = Null THEN \A s \in lines : s.ref # j.tx.ref ELSE j.line.ref = j.tx.ref
          /\ IF k.line = Null THEN \A s \in lines : s.ref # k.tx.ref ELSE k.line.ref = k.tx.ref
          /\ j.line \in lines \cup {Null} /\ k.line \in lines \cup {Null}
      BY DEF Joined
    <2>2. j.line = k.line
      BY <1>2, <2>1
    <2> QED
      BY <1>4, <2>2
  <1>6. \A t \in Eligible : \E j \in Joined : j.tx = t
    <2> TAKE t \in Eligible
    <2>1. CASE \E s \in lines : s.ref = t.ref
      <3>1. PICK s \in lines : s.ref = t.ref
        BY <2>1
      <3>2. s # Null
        BY <1>1, ConstantsAssumption DEF TypeOK
      <3> DEFINE j == [tx |-> t, line |-> s]
      <3>3. j \in Pairs /\ j.tx = t /\ j.line = s
        OBVIOUS
      <3>4. j \in Joined
        BY <3>1, <3>2, <3>3 DEF Joined
      <3> QED
        BY <3>3, <3>4
    <2>2. CASE \A s \in lines : s.ref # t.ref
      <3> DEFINE j == [tx |-> t, line |-> Null]
      <3>1. j \in Pairs /\ j.tx = t /\ j.line = Null
        OBVIOUS
      <3>2. j \in Joined
        BY <2>2, <3>1 DEF Joined
      <3> QED
        BY <3>1, <3>2
    <2> QED
      BY <2>1, <2>2
  <1> HIDE DEF Pairs
  <1>7. f \in Bijection(Joined, Eligible)
    <2>1. f \in [Joined -> Eligible] /\ \A j \in Joined : f[j] = j.tx
      BY <1>4
    <2> HIDE DEF f
    <2>4. \A j, k \in Joined : f[j] = f[k] => j = k
      BY <1>5, <2>1
    <2>2. f \in Injection(Joined, Eligible)
      BY <2>1, <2>4, Zenon DEF Injection, IsInjective
    <2>3. f \in Surjection(Joined, Eligible)
      BY <1>6, <2>1 DEF Surjection
    <2> QED
      BY <2>2, <2>3 DEF Bijection
  <1>8. IsFiniteSet(Eligible)
    BY FS_Subset DEF RInv, Eligible
  <1>9. f \in Injection(Joined, Eligible) /\ f \in Surjection(Joined, Eligible)
    BY <1>7 DEF Bijection
  <1> HIDE DEF f
  <1>10. IsFiniteSet(Joined) /\ Cardinality(Joined) = Cardinality(Eligible)
    BY <1>8, <1>9, FS_Injection
  <1> QED
    BY <1>3, <1>10

LEMMA ChecksRight == RInv => ChecksPass
  <1> SUFFICES ASSUME RInv PROVE ChecksPass
    OBVIOUS
  <1>1. fct_transactions_unique_ref
    BY DEF RInv
  <1>2. matched_rows_zero_outstanding
    <2> SUFFICES ASSUME NEW j \in Joined, IsAmountMatched(j) PROVE OutstandingNet(j) = 0
      BY DEF matched_rows_zero_outstanding
    <2>1. j.line # Null /\ j.line.net = ExpectedNet(j)
      BY DEF IsAmountMatched
    <2> QED
      BY <2>1, OutstandingFacts, JoinedFacts
  <1>3. matched_reconciliation_consistency
    <2> SUFFICES ASSUME NEW j \in Joined, ReconciliationStatus(j) = "matched"
                 PROVE  Variance(j) = 0 /\ OutstandingNet(j) = 0 /\ IsAmountMatched(j)
      BY DEF matched_reconciliation_consistency
    <2> DEFINE e == ExpectedNet(j)
               net == j.line.net
    <2>1. e \in Int /\ j.tx.status \in {"success", "reversed"}
      BY JoinedFacts
    <2>2. j.line # Null /\ j.tx.status = "success"
      BY <2>1, LabelFacts
    <2>3. /\ net \in Nat
          /\ 10 * net < 9 * e => ReconciliationStatus(j) = "partial_settlement"
          /\ 10 * net >= 9 * e /\ net < e => ReconciliationStatus(j) = "short_paid"
          /\ net > e => ReconciliationStatus(j) = "overpaid"
      BY <2>2, LabelFacts
    <2> HIDE DEF e, net
    <2>4. net = e
      BY <2>1, <2>3
    <2>5. IsAmountMatched(j)
      BY <2>2, <2>4 DEF IsAmountMatched, e, net
    <2>6. OutstandingNet(j) = 0
      BY <1>2, <2>5 DEF matched_rows_zero_outstanding
    <2>7. Variance(j) = 0
      BY <2>1, <2>4 DEF Variance, e, net
    <2> QED
      BY <2>5, <2>6, <2>7
  <1>4. assert_no_negative_money
    <2> SUFFICES ASSUME NEW t \in tx
                 PROVE  LET m == Money(charge[t.ref], charge[t.ref].rate)
                        IN  m.fee >= 0 /\ m.amount >= m.fee
      BY DEF assert_no_negative_money
    <2>1. t.ref \in Ref /\ charge[t.ref] \in Charges[t.ref]
      BY ChargeFacts DEF RInv, TypeOK
    <2> QED
      BY <2>1, NetFacts
  <1>5. assert_settlement_not_before_transaction
    <2> SUFFICES ASSUME NEW s \in lines, NEW t \in tx, s.ref = t.ref, t.succeeded # Null
                 PROVE  t.succeeded <= s.date
      BY DEF assert_settlement_not_before_transaction
    <2>1. TypeOK /\ t.succeeded = charge[t.ref].on
      BY StagedDaysRight DEF StagedDays, RInv
    <2>2. PICK r \in basis[2] : s = StagedSettlement(r)
      BY DEF RInv
    <2>3. r \in Ref /\ charge[r].paid # Null
      BY DEF RInv, TypeOK
    <2>4. r = t.ref /\ s.date = charge[r].on + Lag[r]
      BY <2>1, <2>2, <2>3, LineFacts
    <2>5. charge[r].on \in Nat /\ Lag[r] \in {1, 2}
      BY <2>1, <2>3, ChargeFacts
    <2> QED
      BY <2>1, <2>4, <2>5
  <1> QED
    BY <1>1, <1>2, <1>3, <1>4, <1>5, MartTiesToFact DEF ChecksPass

------------------------------------------------------------------------------
\* Ageing.

\* Without a redelivery the as-of date never goes back: a newer copy is of a
\* later day, and the copy of an event is the same one.
LEMMA AsOfAdvances ==
    ASSUME RInv, RInv', ~Redelivery, Run, tx # {}
    PROVE  tx' # {} /\ AsOf \in Nat /\ AsOf' \in Nat /\ AsOf <= AsOf'
  <1>1. AsOfIsLatest /\ AsOfIsLatest'
    <2>1. AsOfIsLatest
      BY AsOfRight
    <2>2. AsOfIsLatest'
      BY AsOfRight, PTL
    <2> QED
      BY <2>1, <2>2
  <1>2. PICK t \in tx : t.ingested = AsOf
    BY <1>1 DEF AsOfIsLatest
  <1>3. /\ basis[1] \subseteq copies /\ basis'[1] = copies /\ copies' = copies
        /\ \A c, d \in copies : c[1] = d[1] /\ c[2] = d[2] => c = d
        /\ \A c \in basis[1], d \in copies \ basis[1] : c[3] <= d[3]
    BY DEF RInv, Run
  <1>4. /\ Collapsed(t) /\ <<t.ref, t.status, t.ingested>> \in basis[1]
        /\ \A c \in basis[1] : c[1] = t.ref => STATUS_RANK[c[2]] <= STATUS_RANK[t.status]
    BY DEF RInv, Collapsed
  <1>5. t.ref \in {u.ref : u \in tx'}
    <2>1. {u.ref : u \in tx'} = {c[1] : c \in basis'[1]}
      BY DEF RInv
    <2>2. <<t.ref, t.status, t.ingested>> \in copies /\ <<t.ref, t.status, t.ingested>>[1] = t.ref
      BY <1>3, <1>4
    <2> QED
      BY <1>3, <2>1, <2>2
  <1>6. PICK u \in tx' : u.ref = t.ref
    BY <1>5
  <1> DEFINE old == <<t.ref, t.status, t.ingested>>
             new == <<u.ref, u.status, u.ingested>>
  <1>7. /\ new \in copies
        /\ \A c \in copies : c[1] = u.ref => STATUS_RANK[c[2]] <= STATUS_RANK[u.status]
    <2>1. Collapsed(u)'
      BY DEF RInv
    <2> QED
      BY <1>3, <2>1 DEF Collapsed
  <1>8. /\ old \in basis[1] /\ old \in copies /\ new \in copies
        /\ old[1] = t.ref /\ old[2] = t.status /\ old[3] = t.ingested
        /\ new[1] = t.ref /\ new[2] = u.status /\ new[3] = u.ingested
    BY <1>3, <1>4, <1>6, <1>7
  <1> HIDE DEF old, new
  <1>9. t.ingested <= u.ingested
    <2>1. CASE new \in basis[1]
      <3>1. STATUS_RANK[u.status] <= STATUS_RANK[t.status] /\ STATUS_RANK[t.status] <= STATUS_RANK[u.status]
        BY <1>4, <1>6, <1>7, <1>8, <2>1
      <3>2. u.status \in Status /\ t.status \in Status
        BY <1>8 DEF RInv, TypeOK
      <3>3. u.status = t.status
        BY <3>1, <3>2, Ranks
      <3>4. new = old
        BY <1>3, <1>8, <3>3
      <3>5. t.ingested = u.ingested /\ t.ingested \in Nat
        BY <1>1, <1>2, <1>8, <3>4, ConstantsAssumption DEF AsOfIsLatest, Day
      <3> QED
        BY <3>5
    <2>2. CASE new \notin basis[1]
      BY <1>3, <1>8, <2>2
    <2> QED
      BY <2>1, <2>2
  <1>10. tx' # {} /\ AsOf \in Day /\ AsOf' \in Day /\ u.ingested <= AsOf' /\ u.ingested \in Day
    <2>1. u.ingested \in Day
      BY <1>8 DEF RInv, TypeOK
    <2> QED
      BY <1>1, <1>2, <1>6, <2>1 DEF AsOfIsLatest
  <1>11. AsOf \in Nat /\ AsOf' \in Nat /\ u.ingested \in Nat
    BY <1>10, ConstantsAssumption DEF Day
  <1> QED
    BY <1>2, <1>9, <1>10, <1>11

\* A step that is no run leaves every row of the mart where it is.
LEMMA RowsRest ==
    ASSUME UNCHANGED <<charge, tx, lines, basis>>
    PROVE  Joined' = Joined /\ \A j \in Joined : ReconciliationBucket(j)' = ReconciliationBucket(j)
  <1>1. Eligible' = Eligible /\ AsOf' = AsOf
    BY DEF Eligible, AsOf
  <1>2. Joined' = Joined
    BY <1>1 DEF Joined
  <1> QED
    BY <1>1, <1>2 DEF ReconciliationBucket, DaysSinceSuccess, IsFresh

\* A charge has at most one row.
LEMMA RowsUnique ==
    ASSUME RInv, NEW j \in Joined, NEW k \in Joined, j.tx.ref = k.tx.ref
    PROVE  j.line # Null <=> k.line # Null
  BY JoinedFacts

\* Where the rows of the mart get their line from.
LinesRead == \A j \in Joined : /\ j.tx \in tx /\ j.tx.ref \in Ref
                               /\ j.line # Null <=> j.tx.ref \in basis[2]

LEMMA LinesReadRight == RInv => LinesRead
  BY JoinedFacts DEF LinesRead

BucketsKnown == \A j \in Joined : /\ ReconciliationBucket(j) \in DOMAIN Buckets
                                  /\ j.line # Null => ReconciliationBucket(j) = "settled"

LEMMA BucketsRight == RInv => BucketsKnown
  <1> SUFFICES ASSUME RInv, NEW j \in Joined
               PROVE  /\ ReconciliationBucket(j) \in DOMAIN Buckets
                      /\ j.line # Null => ReconciliationBucket(j) = "settled"
    BY DEF BucketsKnown
  <1>1. CASE j.line # Null
    BY <1>1 DEF ReconciliationBucket, Buckets
  <1>2. CASE j.line = Null
    BY <1>2, UnpaidRight DEF Unpaid, Buckets
  <1> QED
    BY <1>1, <1>2

LEMMA RunAges ==
    ASSUME RInv, RInv', ~Redelivery, Run,
           NEW j \in Joined, NEW k \in Joined', j.tx.ref = k.tx.ref
    PROVE  Buckets[ReconciliationBucket(j)] <= Buckets[ReconciliationBucket(k)']
  <1>1. LinesRead /\ BucketsKnown /\ Unpaid
    BY LinesReadRight, BucketsRight, UnpaidRight
  <1>2. LinesRead' /\ BucketsKnown' /\ Unpaid'
    BY LinesReadRight, BucketsRight, UnpaidRight, PTL
  <1>3. basis[2] \subseteq basis'[2] /\ charge' = charge
    BY DEF Run, RInv
  <1>4. /\ Buckets["pending_within_sla"] = 0 /\ Buckets["pending_t1"] = 1 /\ Buckets["pending_t2"] = 2
        /\ Buckets["breached_sla"] = 3 /\ Buckets["settled"] = 4
        /\ DOMAIN Buckets = {"pending_within_sla", "pending_t1", "pending_t2", "breached_sla", "settled"}
    BY DEF Buckets
  <1>5. /\ ReconciliationBucket(j) \in DOMAIN Buckets
        /\ k.line # Null => ReconciliationBucket(k)' = "settled"
        /\ j.line # Null => k.line # Null
    BY <1>1, <1>2, <1>3 DEF LinesRead, BucketsKnown
  <1>6. CASE k.line # Null
    BY <1>4, <1>5, <1>6
  <1>7. CASE k.line = Null
    <2> DEFINE r == j.tx.ref
               on == charge[r].on
               lag == Lag[r]
               delay == charge[r].delay
               asOf == AsOf
               late == AsOf'
    <2>1. ReconciliationBucket(j) =
                IF FirstDay + 2 - delay < on + lag THEN "pending_within_sla"
                ELSE IF asOf - on <= 1 THEN "pending_t1"
                ELSE IF asOf - on = 2 THEN "pending_t2"
                ELSE "breached_sla"
      BY <1>1, <1>5, <1>7 DEF Unpaid
    <2>2. ReconciliationBucket(k)' =
                IF FirstDay + 2 - delay < on + lag THEN "pending_within_sla"
                ELSE IF late - on <= 1 THEN "pending_t1"
                ELSE IF late - on = 2 THEN "pending_t2"
                ELSE "breached_sla"
      BY <1>2, <1>3, <1>7 DEF Unpaid
    <2>3. tx # {} /\ TypeOK /\ r \in Ref
      BY <1>1 DEF LinesRead, RInv
    <2>4. asOf \in Nat /\ late \in Nat /\ asOf <= late
      BY <2>3, AsOfAdvances
    <2>5. on \in Nat /\ lag \in Nat /\ delay \in Nat /\ FirstDay \in Nat
      BY <2>3, ChargeFacts
    <2> HIDE DEF r, on, lag, delay, asOf, late
    <2> QED
      BY <1>4, <2>1, <2>2, <2>4, <2>5
  <1> QED
    BY <1>6, <1>7

LEMMA StepAges ==
    ASSUME RInv, RInv', ~Redelivery, [Next]_vars,
           NEW j \in Joined, NEW k \in Joined', j.tx.ref = k.tx.ref
    PROVE  Buckets[ReconciliationBucket(j)] <= Buckets[ReconciliationBucket(k)']
  <1>1. CASE Run
    BY <1>1, RunAges
  <1>2. CASE ~Run
    <2>1. UNCHANGED <<charge, tx, lines, basis>>
      BY <1>2 DEF Next, NextDay, Arrive, ArriveSettlement, vars
    <2>2. k \in Joined /\ ReconciliationBucket(k)' = ReconciliationBucket(k)
      BY <2>1, RowsRest
    <2>3. j.tx = k.tx
      BY <2>2, JoinedFacts DEF RInv, fct_transactions_unique_ref
    <2>4. j.line # Null <=> k.line # Null
      BY <2>2, RowsUnique
    <2>5. ReconciliationBucket(j) = ReconciliationBucket(k)
      BY <2>3, <2>4 DEF ReconciliationBucket, DaysSinceSuccess, IsFresh
    <2>6. Buckets[ReconciliationBucket(j)] \in Nat
      BY BucketsRight DEF BucketsKnown, Buckets
    <2> QED
      BY <2>2, <2>5, <2>6
  <1> QED
    BY <1>1, <1>2

\* Without a redelivery a run over what the last one read stages the same rows.
LEMMA RerunsAgree ==
    ASSUME RInv, RInv', ~Redelivery, Run, basis' = basis
    PROVE  tx' = tx
  <1> DEFINE Row == [ref : Ref, status : Status, succeeded : Nat \cup {Null},
                     expected : Nat, watermark : Int, ingested : Day]
  <1>1. /\ {t.ref : t \in tx} = {c[1] : c \in basis[1]} /\ {u.ref : u \in tx'} = {c[1] : c \in basis[1]}
        /\ \A t \in tx : Collapsed(t) /\ t \in Row
        /\ \A c, d \in basis[1] : c[1] = d[1] /\ c[2] = d[2] => c = d
        /\ basis[1] \subseteq Ref \X Status \X Day
    BY DEF RInv, TypeOK
  <1>2. \A u \in tx' : Collapsed(u)' /\ u \in Row
    BY DEF RInv, TypeOK
  <1>3. charge' = charge
    BY DEF Run
  <1>4. \A t \in tx, u \in tx' : t.ref = u.ref => t = u
    <2> SUFFICES ASSUME NEW t \in tx, NEW u \in tx', t.ref = u.ref PROVE t = u
      OBVIOUS
    <2> DEFINE r == t.ref
               statuses == {c[2] : c \in {d \in basis[1] : d[1] = r}}
               old == <<r, t.status, t.ingested>>
               new == <<r, u.status, u.ingested>>
    <2>1. /\ old \in basis[1]
          /\ \A s \in statuses : STATUS_RANK[s] <= STATUS_RANK[t.status]
          /\ t.succeeded = IF "success" \in statuses THEN charge[r].on ELSE Null
          /\ t.expected = Lag[r] + IF t.succeeded = Null THEN UpdatedOn(r, t.status) ELSE t.succeeded
          /\ t.watermark = FirstDay + 2 - charge[r].delay
      BY <1>1 DEF Collapsed
    <2>2. \A s : UpdatedOn(r, s)' = UpdatedOn(r, s)
      BY <1>3 DEF UpdatedOn
    <2>3. /\ new \in basis[1]
          /\ \A s \in statuses : STATUS_RANK[s] <= STATUS_RANK[u.status]
          /\ u.succeeded = IF "success" \in statuses THEN charge[r].on ELSE Null
          /\ u.expected = Lag[r] + IF u.succeeded = Null THEN UpdatedOn(r, u.status) ELSE u.succeeded
          /\ u.watermark = FirstDay + 2 - charge[r].delay
      <3>1. Collapsed(u)'
        BY <1>2
      <3> HIDE DEF UpdatedOn
      <3> QED
        BY <1>3, <2>2, <3>1 DEF Collapsed
    <2>4. /\ old[1] = r /\ old[2] = t.status /\ old[3] = t.ingested
          /\ new[1] = r /\ new[2] = u.status /\ new[3] = u.ingested
      OBVIOUS
    <2> HIDE DEF old, new
    <2>5. t.status \in statuses /\ u.status \in statuses
      BY <2>1, <2>3, <2>4
    <2>6. t.status \in Status /\ u.status \in Status
      BY <1>1, <1>2
    <2>7. t.status = u.status
      BY <2>1, <2>3, <2>5, <2>6, Ranks
    <2>8. t.ingested = u.ingested
      BY <1>1, <2>1, <2>3, <2>4, <2>7
    <2>9. t.succeeded = u.succeeded /\ t.watermark = u.watermark
      BY <2>1, <2>3
    <2>10. t.expected = u.expected
      BY <2>1, <2>3, <2>7, <2>9
    <2> QED
      BY <1>1, <1>2, <2>7, <2>8, <2>9, <2>10
  <1> HIDE DEF Row
  <1>5. (\A t \in tx : \E u \in tx' : t.ref = u.ref) /\ (\A u \in tx' : \E t \in tx : t.ref = u.ref)
    <2>1. \A t \in tx : t.ref \in {u.ref : u \in tx'}
      BY <1>1
    <2>2. \A u \in tx' : u.ref \in {t.ref : t \in tx}
      BY <1>1
    <2> QED
      BY <2>1, <2>2
  <1> QED
    BY <1>4, <1>5

LEMMA StepReproduces ==
    ASSUME RInv, RInv', ~Redelivery, [Next]_vars, basis' = basis
    PROVE  Mart' = Mart
  <1>1. tx' = tx /\ lines' = lines /\ charge' = charge
    <2>1. CASE Run
      <3>1. tx' = tx /\ charge' = charge
        BY <2>1, RerunsAgree DEF Run
      <3>2. lines' = {StagedSettlement(r) : r \in basis[2]}
        BY <2>1 DEF Run
      <3> QED
        BY <3>1, <3>2 DEF RInv
    <2>2. CASE ~Run
      BY <2>2 DEF Next, NextDay, Arrive, ArriveSettlement, vars
    <2> QED
      BY <2>1, <2>2
  <1>2. Joined' = Joined
    BY <1>1 DEF Joined, Eligible
  <1>3. \A j : /\ ReconciliationStatus(j)' = ReconciliationStatus(j)
               /\ ReconciliationBucket(j)' = ReconciliationBucket(j)
               /\ OutstandingNet(j)' = OutstandingNet(j)
    <2>1. \A j : ExpectedNet(j)' = ExpectedNet(j)
      BY <1>1 DEF ExpectedNet
    <2>2. AsOf' = AsOf
      BY <1>1 DEF AsOf
    <2> TAKE j
    <2>3. ReconciliationStatus(j)' = ReconciliationStatus(j)
      BY <2>1 DEF ReconciliationStatus, IsFresh
    <2>4. ReconciliationBucket(j)' = ReconciliationBucket(j)
      BY <2>2 DEF ReconciliationBucket, DaysSinceSuccess, IsFresh
    <2>5. OutstandingNet(j)' = OutstandingNet(j)
      BY <2>1 DEF OutstandingNet
    <2> QED
      BY <2>3, <2>4, <2>5
  <1> QED
    BY <1>2, <1>3 DEF Mart

------------------------------------------------------------------------------
\* Theorems.

\* What is staged is what the generator emitted and the last run read: one row
\* for each reference, of the event of highest rank, however long before the
\* publication the charge was made and with events arriving on any days after it.
THEOREM Invariance == Spec => []RInv
  BY InvInit, InvStep, PTL DEF Spec

\* Every variable has its type.
THEOREM TypeCorrectness == Spec => []TypeOK
  <1>1. RInv => TypeOK
    BY DEF RInv
  <1> QED
    BY <1>1, Invariance, PTL

\* Whatever the amounts, rates within 1.5% of the anchor and merchants' lags, the
\* label of a settled charge says what was done to its payment.
THEOREM LabelsAreRight == Spec => []LabelMeansAdjustment
  BY LabelsRight, Invariance, PTL

\* No hard check of run_checks and no dbt test of those modelled can fail over
\* what generate.py emits, over a window of any length, whatever part of it has
\* arrived.
THEOREM ChecksNeverStopIt == Spec => []ChecksPass
  BY ChecksRight, Invariance, PTL

\* A balance is outstanding exactly where the label says that money is missing.
THEOREM ExposureIsRight == Spec => []ExposureIsLabelled
  BY ExposureRight, Invariance, PTL

\* A charge held against the provider is unpaid and due, by either classification.
THEOREM BreachesAreReal == Spec => []BreachIsReal
  BY BreachRight, Invariance, PTL

\* Where no event arrives on a second day, no run puts a charge into an earlier
\* bucket.
THEOREM ChargesAge == ~Redelivery => (Spec => AgesForward)
  <1> DEFINE Ages == \A j \in Joined, k \in Joined' : j.tx.ref = k.tx.ref =>
                        Buckets[ReconciliationBucket(j)] <= Buckets[ReconciliationBucket(k)']
  <1> SUFFICES ASSUME ~Redelivery PROVE Spec => [][Ages]_vars
    BY DEF AgesForward
  <1>1. ASSUME RInv, RInv', [Next]_vars PROVE Ages
    BY <1>1, StepAges
  <1>2. RInv /\ RInv' /\ [Next]_vars => [Ages]_vars
    BY <1>1
  <1> HIDE DEF Ages
  <1> QED
    BY <1>2, Invariance, PTL DEF Spec

\* Where no event arrives on a second day, a rerun over the same raw events gives
\* the same mart: a redelivery is all that stands against schemas.py:51-53.
THEOREM RerunsReproduce == ~Redelivery => (Spec => Reproducible)
  <1> DEFINE Same == tx # {} /\ basis' = basis => Mart' = Mart
  <1> SUFFICES ASSUME ~Redelivery PROVE Spec => [][Same]_vars
    BY DEF Reproducible
  <1>1. ASSUME RInv, RInv', [Next]_vars PROVE Same
    BY <1>1, StepReproduces
  <1>2. RInv /\ RInv' /\ [Next]_vars => [Same]_vars
    BY <1>1
  <1> HIDE DEF Same
  <1> QED
    BY <1>2, Invariance, PTL DEF Spec
=============================================================================
