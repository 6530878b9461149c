------------------------------- MODULE Staging -------------------------------
(***************************************************************************)
(* src/settlement/transform_spark.py: raw to staged.                       *)
(*                                                                         *)
(* A job lists and copies down the raw objects of a data set, drops        *)
(* redelivered events, collapses transactions to one row per reference,    *)
(* deletes what is staged and uploads the new files one by one; first      *)
(* transactions, then settlements.  Raw grows while it runs, and a failed  *)
(* job is retried.  The events are those src/settlement/generate.py emits. *)
(***************************************************************************)
EXTENDS Integers, Sequences, FiniteSets, FiniteSetsExt, Functions

CONSTANTS Copy,         \* Copy[ds]: what drains may write, pairs <<event, stamp>>
          Lag,          \* Lag[r]: settlement_lag_days of the merchant of r
          DayLength,    \* ticks in a day
          Null,         \* SQL null
          DeleteFails,  \* may delete_dir_contents raise?
          MaxJobs,      \* bound: jobs started
          MaxFaults     \* bound: jobs that die

\* schemas.py
STATUS_RANK == [pending |-> 0, failed |-> 1, success |-> 2, reversed |-> 3]
Status      == DOMAIN STATUS_RANK

Dataset == {"transactions", "settlements"}

Ref == DOMAIN Lag

\* Transaction events [id, ref, status, at, created] and settlement lines
\* [id, ref, date], as the first run of the generator emits them.
Event == {c[1] : c \in Copy["transactions"]}
Line  == {c[1] : c \in Copy["settlements"]}

\* On which day the generator emitted the event again, with its one seed; and
\* which drain read it: each drain has its own ingested_at.
Stamp == [day : Nat, batch : Nat]

\* What generate_events emits for one charge: terminal events after the pending
\* one or in the same tick, the reversal after the success, never both outcomes.
ASSUME EventsAssumption ==
    /\ \A e \in Event : /\ e.id \in Nat /\ e.ref \in Ref /\ e.status \in Status
                        /\ e.created \in Nat /\ e.at \in Nat
    /\ \A d, e \in Event : d.id = e.id => d = e
    /\ \A d, e \in Event : d.ref = e.ref /\ STATUS_RANK[d.status] <= STATUS_RANK[e.status] =>
           d.at <= e.at /\ (d.status = e.status => d = e)

ASSUME ConstantsAssumption ==
    /\ Lag \in [Ref -> Nat]
    /\ \A l \in Line : l.ref \in Ref /\ l.date \in Nat
    /\ \A d \in Dataset : \A c \in Copy[d] : c[2] \in Stamp
    /\ DayLength \in Nat \ {0}
    /\ Null \notin Nat \cup Status
    /\ DeleteFails \in BOOLEAN
    /\ MaxJobs \in Nat /\ MaxFaults \in Nat

VARIABLES
    raw,        \* raw[ds]: pairs <<event, stamp>>, the copies in the raw layer
    staged,     \* staged[ds]: files [job, part, rows]
    pc, ds,     \* what the job does next, and with which data set
    job,        \* number of the job
    input,      \* input[ds]: the copies the job has downloaded
    out,        \* the rows it has computed
    seen, view, \* history: the input of the last job that succeeded; what it left staged
    faults

local == <<pc, ds, job, input, out>>
vars  == <<raw, staged, local, seen, view, faults>>

\* Mutant: the session time zone is one tick west of UTC.
WestOfUtc(t) == (t - 1) \div DayLength

Date(t) == t \div DayLength

------------------------------------------------------------------------------
\* transform_transactions and transform_settlements.

\* dropDuplicates keeps some copy of each event: kept[e] is its stamp.
Deduped(copies) ==
    {kept \in [{c[1] : c \in copies} -> {c[2] : c \in copies}] : \A e \in DOMAIN kept : <<e, kept[e]>> \in copies}

\* The generator run of another day repeats the events, with later times.
UpdatedAt(e, kept) == e.at + kept[e].day * DayLength

\* Mutant: equal times are resolved by event_id alone.
LaterById(d, e, kept) ==
    \/ UpdatedAt(d, kept) > UpdatedAt(e, kept)
    \/ UpdatedAt(d, kept) = UpdatedAt(e, kept) /\ d.id > e.id

\* Mutant: the last one to arrive wins.
LaterByArrival(d, e, kept) ==
    \/ kept[d].batch > kept[e].batch
    \/ kept[d].batch = kept[e].batch /\ d.id > e.id

\* The window order: updated_at desc, status_rank desc, event_id desc.
Later(d, e, kept) ==
    \/ UpdatedAt(d, kept) > UpdatedAt(e, kept)
    \/ /\ UpdatedAt(d, kept) = UpdatedAt(e, kept)
       /\ \/ STATUS_RANK[d.status] > STATUS_RANK[e.status]
          \/ d.status = e.status /\ d.id > e.id

Latest(r, kept) ==
    CHOOSE e \in DOMAIN kept : e.ref = r /\ \A d \in DOMAIN kept : d.ref = r => ~Later(d, e, kept)

\* Mutant: the success time of the latest state only.
SuccessOfLatest(r, kept) ==
    IF Latest(r, kept).status = "success" THEN UpdatedAt(Latest(r, kept), kept) ELSE Null

SuccessfulAt(r, kept) ==
    LET successes == {e \in DOMAIN kept : e.ref = r /\ e.status = "success"}
    IN  IF successes = {} THEN Null ELSE Max({UpdatedAt(e, kept) : e \in successes})

TransactionRow(r, kept) ==
    LET e  == Latest(r, kept)
        at == UpdatedAt(e, kept)
        success == SuccessfulAt(r, kept)
    IN  [key |-> r, status |-> e.status, updated |-> at, successful |-> success,
         expected |-> Date(IF success = Null THEN at ELSE success) + Lag[r],
         ingested |-> kept[e].batch,
         part |-> Date(e.created) + kept[e].day, job |-> job]

SettlementRow(l, kept) ==
    [key |-> l, date |-> l.date + kept[l].day, ingested |-> kept[l].batch,
     part |-> l.date + kept[l].day, job |-> job]

Rows(kept) ==
    IF ds = "transactions" THEN {TransactionRow(r, kept) : r \in {e.ref : e \in DOMAIN kept}}
    ELSE {SettlementRow(l, kept) : l \in DOMAIN kept}

------------------------------------------------------------------------------
Init ==
    /\ raw = [d \in Dataset |-> {}]
    /\ staged = [d \in Dataset |-> {}]
    /\ pc = "idle"
    /\ ds = "transactions"
    /\ job = 0
    /\ input = [d \in Dataset |-> {}]
    /\ out = {}
    /\ seen = [d \in Dataset |-> {}]
    /\ view = [d \in Dataset |-> {}]
    /\ faults = 0

\* A drain adds a copy of an event to raw, in whatever order and however often.
Arrive(d, c) ==
    /\ c \notin raw[d]
    /\ raw' = [raw EXCEPT ![d] = @ \cup {c}]
    /\ UNCHANGED <<staged, local, seen, view, faults>>

Start ==
    /\ pc = "idle"
    /\ job < MaxJobs
    /\ job' = job + 1
    /\ pc' = "download"
    /\ ds' = "transactions"
    /\ input' = [d \in Dataset |-> {}]
    /\ out' = {}
    /\ UNCHANGED <<raw, staged, seen, view, faults>>

\* Mutant: the objects of the latest drain only.
LatestBatch == {c \in raw[ds] : \A d \in raw[ds] : d[2].batch <= c[2].batch}

\* _download copies every object the listing names; raw objects do not change.
Listed == raw[ds]

Download ==
    /\ pc = "download"
    /\ input' = [input EXCEPT ![ds] = Listed]
    /\ pc' = IF Listed = {} THEN "idle" ELSE "transform"
    /\ UNCHANGED <<raw, staged, ds, job, out, seen, view, faults>>

Transform ==
    /\ pc = "transform"
    /\ \E kept \in Deduped(input[ds]) : out' = Rows(kept)
    /\ pc' = "delete"
    /\ UNCHANGED <<raw, staged, ds, job, input, seen, view, faults>>

\* Mutant: the new files are added to the old ones.
KeepOld == {staged[ds]}

\* What the delete at the head of _upload leaves behind: its exceptions are suppressed.
Remaining == IF DeleteFails THEN SUBSET staged[ds] ELSE {{}}

Delete ==
    /\ pc = "delete"
    /\ \E files \in Remaining : staged' = [staged EXCEPT ![ds] = files]
    /\ pc' = "upload"
    /\ UNCHANGED <<raw, ds, job, input, out, seen, view, faults>>

ToUpload == {row.part : row \in out} \ {f.part : f \in {g \in staged[ds] : g.job = job}}

\* One file per date, in the order of their names.  After the last one comes the
\* other data set, or the job has succeeded.
Upload ==
    /\ pc = "upload"
    /\ LET part == Min(ToUpload)
           file == [job |-> job, part |-> part, rows |-> {row \in out : row.part = part}]
       IN  /\ staged' = [staged EXCEPT ![ds] = @ \cup {file}]
           /\ out' = IF ToUpload = {part} THEN {} ELSE out
           /\ CASE ToUpload # {part} -> UNCHANGED <<pc, ds, seen, view>>
                [] ToUpload = {part} /\ ds = "transactions" ->
                     pc' = "download" /\ ds' = "settlements" /\ UNCHANGED <<seen, view>>
                [] ToUpload = {part} /\ ds = "settlements" ->
                     /\ pc' = "idle"
                     /\ seen' = input
                     /\ view' = [d \in Dataset |-> UNION {f.rows : f \in staged'[d]}]
                     /\ UNCHANGED ds
    /\ UNCHANGED <<raw, job, input, faults>>

\* The job raises or dies; a retry starts from the beginning.
Fail ==
    /\ pc # "idle"
    /\ faults < MaxFaults
    /\ faults' = faults + 1
    /\ pc' = "idle"
    /\ UNCHANGED <<raw, staged, ds, job, input, out, seen, view>>

Next ==
    \/ \E d \in Dataset : \E c \in Copy[d] : Arrive(d, c)
    \/ Start \/ Download \/ Transform \/ Delete \/ Upload \/ Fail

Spec == Init /\ [][Next]_vars

------------------------------------------------------------------------------
\* Properties.

\* The type of every variable.
TransactionRows ==
    [key : Ref, status : Status, updated : Nat, successful : Nat \cup {Null}, expected : Nat,
     ingested : Nat, part : Nat, job : Nat]
SettlementRows == [key : Line, date : Nat, ingested : Nat, part : Nat, job : Nat]
RowsOf(d) == IF d = "transactions" THEN TransactionRows ELSE SettlementRows
TypeOK ==
    /\ pc \in {"idle", "download", "transform", "delete", "upload"}
    /\ ds \in Dataset
    /\ job \in Nat /\ faults \in Nat
    /\ out \subseteq RowsOf(ds)
    /\ \A d \in Dataset :
          /\ raw[d] \subseteq Copy[d]
          /\ input[d] \subseteq raw[d]
          /\ seen[d] \subseteq raw[d]
          /\ view[d] \subseteq RowsOf(d)
          /\ \A f \in staged[d] : f.job \in Nat /\ f.part \in Nat /\ f.rows \subseteq RowsOf(d)

\* What every step preserves, deletes that fail included: a job that is about to
\* transform or to upload has something to do it with, what it has not come to yet
\* holds no file of its own, and it has read all that the last one read.
NotReached(d) == /\ pc # "idle"
                 /\ \/ d = ds /\ pc # "upload"
                    \/ d = "settlements" /\ ds = "transactions"
Downloaded    == pc # "idle" /\ (pc = "download" => ds = "settlements")
JobInv ==
    /\ TypeOK
    /\ DOMAIN raw = Dataset /\ DOMAIN staged = Dataset /\ DOMAIN input = Dataset
    /\ DOMAIN seen = Dataset /\ DOMAIN view = Dataset
    /\ pc = "transform" => input[ds] # {}
    /\ pc = "delete" => out # {}
    /\ pc = "upload" => ToUpload # {}
    /\ \A d \in Dataset : \A f \in staged[d] : f.job <= job /\ (NotReached(d) => f.job < job)
    /\ Downloaded => seen["transactions"] \subseteq input["transactions"]

\* A job that succeeds leaves staged exactly one row per charge and per settlement
\* line of its input: nothing from the jobs before it, from attempts that died
\* half way through an upload, or from redeliveries ("One row per
\* transaction_ref, deduplicated upstream by Spark", models/staging/schema.yml:5).
Events(d) == {c[1] : c \in seen[d]}
ViewIsInput ==
    /\ {row.key : row \in view["transactions"]} = {e.ref : e \in Events("transactions")}
    /\ {row.key : row \in view["settlements"]} = Events("settlements")
    /\ \A d \in Dataset : \A row1, row2 \in view[d] : row1.key = row2.key => row1 = row2

\* Why ViewIsInput holds when deletes succeed: what every step preserves.
Keys(d, copies) ==
    IF d = "transactions" THEN {c[1].ref : c \in copies} ELSE {c[1] : c \in copies}
OneRowEach(d, rows, copies) ==
    /\ {row.key : row \in rows} = Keys(d, copies)
    /\ \A row1, row2 \in rows : row1.key = row2.key => row1 = row2
StagedRows(d) == UNION {f.rows : f \in staged[d]}
OneRowInv ==
    /\ DOMAIN staged = Dataset /\ DOMAIN input = Dataset
    /\ pc \in {"idle", "download", "transform", "delete", "upload"}
    /\ ds \in Dataset
    /\ pc \in {"delete", "upload"} => OneRowEach(ds, out, input[ds])
    /\ pc = "upload" => \A f \in staged[ds] :
          f.job = job /\ f.rows = {row \in out : row.part = f.part}
    /\ pc # "idle" /\ ds = "settlements" =>
          OneRowEach("transactions", StagedRows("transactions"), input["transactions"])
    /\ \A d \in Dataset : OneRowEach(d, view[d], seen[d])

\* And what the staged charges say: they are one collapse of what was read.
Charge(row) == [key |-> row.key, status |-> row.status, updated |-> row.updated,
                successful |-> row.successful, expected |-> row.expected]
IsCollapse(rows, copies) ==
    \E kept \in Deduped(copies) :
        {Charge(row) : row \in rows} = {Charge(TransactionRow(r, kept)) : r \in {e.ref : e \in DOMAIN kept}}
StageInv ==
    /\ OneRowInv
    /\ pc \in {"delete", "upload"} /\ ds = "transactions" => IsCollapse(out, input["transactions"])
    /\ pc # "idle" /\ ds = "settlements" =>
          IsCollapse(StagedRows("transactions"), input["transactions"])
    /\ IsCollapse(view["transactions"], seen["transactions"])

\* "Once a transaction reaches one of these [terminal states], a later PENDING event
\* for the same reference is out-of-order noise and must not win" (schemas.py:47-48).
TerminalWins ==
    \A row \in view["transactions"] : row.status = "pending" =>
        \A e \in Events("transactions") : e.ref = row.key => e.status = "pending"

\* A charge that has succeeded keeps its expected settlement date in every later
\* publication: neither its reversal nor a redelivery moves the date (the lag is
\* "anchored to the original success timestamp", fct_settlements.sql:23-25).
ExpectedDateStable ==
    [][\A old \in view["transactions"], new \in view'["transactions"] :
          old.key = new.key /\ old.successful # Null => new.expected = old.expected]_vars

\* "A rerun on the same input" publishes the same charges (transform_spark.py:25-26),
\* whichever copies of the events dropDuplicates keeps (but not the same ingested_at:
\* see Reproducible of Reconciliation for what follows from that).
SameInput == view # [d \in Dataset |-> {}] /\ seen' = seen
Charges == {Charge(row) : row \in view["transactions"]}
RerunStable == [][SameInput => Charges' = Charges]_vars

\* The job implements the publication of the furthest status of each charge.
Published == INSTANCE Lifecycle WITH
    Rank   <- STATUS_RANK,
    None   <- Null,
    known  <- Events("transactions"),
    status <- [r \in {e.ref : e \in Event} |->
                 LET rows == {row \in view["transactions"] : row.key = r}
                 IN  IF rows = {} THEN Null ELSE (CHOOSE row \in rows : TRUE).status]

FurthestStatus == Published!Spec
==============================================================================
