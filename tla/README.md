# Payment settlement lakehouse: verification

TLA+ models of the settlement pipeline, TLC runs over small instances of them,
and TLAPS proofs of what matters most for every instance.  Paths are relative
to the repository root; file names without a directory are in
`src/settlement/`.

Run a model with `tlc -workers 2 -config MCIngest_safety.cfg MCIngest` and a
proof with `tlapm IngestProofs.tla`.  `PROJECT.json` lists every run with its
properties, for each property a mutation of the code that breaks it, and for
each definition the lines it models.

## 1. The system

Synthetic payment events go through five stages, which one Airflow DAG runs in
order, each task with retries:

    generate.py -> Kafka -> ingest.py -> raw bucket -> transform_spark.py
       -> staged bucket -> dbt models -> marts bucket -> serve.py -> ClickHouse
       -> quality.py

There is no shared memory.  The stages communicate through the Kafka log and
its committed offsets, through objects in three buckets, and through tables;
each of these outlives the process that wrote it, and most of the difficulty is
in what an earlier attempt, a crash, or another run left there.

| component | state | operations | interacts with |
|---|---|---|---|
| generate (`generate.py`) | none between runs; the queue of a producer, counts of deliveries and failures during a call | `generate_events`, `publish` | appends to two Kafka topics, keyed by reference |
| ingest (`ingest.py`) | two buffers, object number, loop position; the group's committed offsets in Kafka | `drain_topic`: poll, flush (data object, quarantine object), commit, close | reads Kafka, adds objects to raw |
| transform (`transform_spark.py`) | local copies and computed rows of one job | `_download`, two transforms, `_upload` (delete, then one object per date) | reads raw, replaces staged |
| dbt models (`dbt/settlement/models`) | none | views over staged, four marts and facts, tests | reads staged, overwrites the parquet of each mart |
| serve (`serve.py`) | a live and a `__incoming` table per mart | `load_mart`, `run`, `main --only` | reads the marts, swaps tables |
| quality (`quality.py`) | none | `run_checks` | reads what is served |
| DAG (`dags/settlement_pipeline.py`) | the state of its tasks | seven tasks in order, retries | calls all of the above |
| config, scripts, compose, Makefile, validation SQL | settings, containers | operator tooling | not modelled |

### What is hard, and what makes each component correct

* **generate.** `publish` hands events to a producer that sends them behind its
  back, in a bounded queue; what became of each is known to a callback that
  runs only inside `poll` and `flush`, which may time out.  Amounts, fees and
  exchange rates are integers and truncations in two currencies.  Correct: a
  call that returns has published everything, or its flush has timed out; the
  loop over a full queue ends; fees never exceed amounts.
* **ingest.** A batch drain with manual commits, so a crash between the object
  write and the commit is normal.  A worker presumed dead may go on beside its
  retry in the same consumer group; a rebalance inside `poll` moves a partition
  whose messages are still in a buffer.  Two writes per flush, each of which
  may fail, take effect without a reply, or leave a truncated object.  Correct:
  nothing below a committed offset is without its copy; raw only grows;
  committed offsets do not go back; every attempt ends.
* **transform.** Events come out of order, twice, and with equal times; raw
  grows while it is read; a job may die between any two objects of its upload;
  which copy of a redelivered event survives is arbitrary.  Correct: one row
  per charge and nothing else; the row is the furthest state of the charge; a
  rerun gives the same charges.
* **dbt.** Two `CASE` expressions classify a charge by status, amounts, three
  dates and a watermark; the as-of date is computed from the rows themselves.
  Correct: labels say what was done to the payment, the row count ties to the
  facts, a late source is no breach, charges only age.
* **serve.** Six statements per mart against a server that may fail each of
  them, before or after its effect; tables left by the last attempt; a second
  loader.  Correct: readers see complete generations only, never older ones.
* **DAG.** Retries of tasks that have done their work already; marts are
  overwritten before they are tested and served before they are checked.

## 2. Modules

| module | models | abstract specification | proofs |
|---|---|---|---|
| `Publish` | `publish`, its producer and the broker; the two calls `main` and the task make | none | `PublishProofs` |
| `Ingest` | `drain_topic`, the consumer group, the raw bucket | `LogTransfer` | `IngestProofs` |
| `Serve` | `load_mart` under `run` and `main` | `ServedMarts` | `ServeProofs` |
| `Staging` | `run` of `transform_spark.py`, with drains beside it | `Lifecycle` | `CollapseProofs` (the computed rows), `StagingProofs` |
| `Reconciliation` | the staging views and `mart_settlement_reconciliation` | none | `ReconciliationProofs` |
| `Pipeline` | the DAG: its tasks, their retries, runs one after another | none | `PipelineProofs` |
| `MCPublish`, `MCIngest`, `MCServe`, `MCStaging`, `MCReconciliation`, `MCPipeline` | instances for TLC | | |

**Publish.** `at` is where the process is: the first `poll`, the produce loop,
`flush`, or an end.  `msg[e]` follows one event through the producer: `queued`
until librdkafka reports on it, `acked` or `expired` until a callback sees the
report, then `delivered` or `failed`, the two things `_cb` can record.  A
message holds its place in the queue until the callback has run, and before the
producer ID has come the queue has no places (`Room`), as the comment at
`generate.py:332-336` says of librdkafka.  `log` is what the broker has
appended, independently of what it acknowledges; it may append a message late,
even after the process is gone.  `cut` records the calls whose flush timed out.

**Ingest.** An attempt is one call of `drain_topic`.  `pc` is its place:
`poll` the top of the loop, `flush` and `qflush` the two halves of `flush`
(lines 133-145 and 146-156), `commit` any of the three commits, with `final`
for "after the loop".  `buf`, `qbuf`, `partNo` and `consumed` are the local
variables.  A message is its position `<<partition, offset>>` with one of three
kinds: one the code takes, one `_coerce` refuses, one only the Arrow schema
refuses: a value of the wrong type before anything is written, an absent
required field when the object's stream is open, which may leave an object
without rows (`FlushMisfit`).  `raw` and `quarantine` are sets of objects, and `Put` replaces an
object with the same key, as `open_output_stream` does.  The group coordinator
is modelled from the way the code uses it (`member`, `owner`, `pos`,
`committed`, `evicted`): commits of a fenced member are refused, a new
generation resumes at the committed offsets, and a fenced member may still
be handed messages it has already fetched.  `reread` and `faults` are history.

**Serve.** A loader is one call of `run` or `main`; `pc` is its next SQL
statement.  `Accepted` is what the server requires of the statement and
`Effect` what it does, so that one action covers success, refusal and the
three ways to fail (after the effect, before it, and half of an INSERT).  A
table is the sequence of what was inserted into it.  The parquet of a mart has a
generation, 0 before dbt has first written it: then the server refuses CREATE.

**Staging.** `Download`, `Transform`, `Delete` and `Upload` (one object at a
time) of a job, for transactions and then for settlements; `Fail` between any
two of them.  A copy of an event in raw is the event with the day of the
generator run that emitted it and the drain that read it.  `Deduped` is every
choice `dropDuplicates` may make.  `seen` and `view` are history: input and
output of the last job that succeeded.

**Reconciliation.** Times are days.  The life of each charge is chosen
initially among `Charges[r]`, its events arrive in any order on any day, and
`Run` recomputes the staged rows and the mart.  The operators from `AsOf` to
`OutstandingNet` are the query, one per common table expression or column.
A charge is created on one day and confirmed on that or, past midnight, the next,
on the day of publication or any time before it.  It has the amount
`_amount_kobo` draws, a channel and, in dollars, a rate
for the charge and one for its settlement; `Fee`, `Money` and `SettledNet` are
the integer arithmetic of `_fee_kobo`, of the transform stage and of the
generator's adjustments, each truncation where the code has it.  A rate is an
integer multiple of `1/Scale` naira, so that the products are exact.

**Pipeline.** The composition.  Each task is a sequence of operations (`Work`),
`todo` is what its attempt has left of it, and a retry starts the sequence
again.  `Effect` is what an operation does, `HalfDone` what it may leave when
the process dies in it, `Raises` when it fails on what it finds: 0 rows read,
an empty raw data set, a refused test, a missing mart, a failed check.  The
layers hold batches (what one seed generates) instead of events, by data set,
so that the state says which batches each layer has of transactions and of
settlements.  `low` is where a topic begins: `Expire` is the retention of
`create-topics.sh`, which deletes messages whether read or not while no run is
active, and a group that has lost its place resumes at what is left.  The other
modules justify each operation: `Publish` that a publication without a flush
time-out is complete, `Ingest` that a drain
copies what lies below the offset it commits, `Staging` that a job which
succeeds stages its input, `Serve` that a mart is swapped whole.

## 3. Runs

| run | instance | shows |
|---|---|---|
| `publish_loop` | 2 calls of 4 and 3 events, a queue of 2, a poll every 3, weak fairness; 0.13M states | `ReturnIsComplete`, `PublishEnds`, and `PInv`, the invariant of the proofs |
| `ingest_safety` | 2 partitions (2 and 1 messages), 2 attempts, batches of 2, 1 fault; 3.3M states | `NoLoss`, `AtLeastOnce`, `CommittedNeverDecreases`, and `IInv`, the invariant of the proofs |
| `ingest_drain` | 1 partition of 3 messages, 2 attempts, batches of 2, 1 fault, weak fairness; 0.5M states | `AppendOnly`, `NoDuplicateWithoutReread`, `LoopCommitHasOffset`; `DrainEnds` and `ReadIsKept` eventually |
| `ingest_misfit` | violation | `MalformedIsKept`: a message the Arrow schema refuses is never kept |
| `serve_retries` | 3 loads of 2 marts in turn, 2 failed statements, a parquet that may not be there yet, 2 generations; 4.6M states | `ServedComplete`, `ServedOnlyAdvances`, `SuccessMeansCurrent`, `WholeMarts`, and `SInv` `LoadInv`, the invariants of the proofs |
| `serve_shadow` | violation | `ServedNotEmpty`: overlapping loads can swap in an empty table |
| `staging_jobs` | 3 jobs, 1 crash, 2 charges with 5 events, a redelivered success and line; 2.4M states | `ViewIsInput`, `TerminalWins`, `ExpectedDateStable`, `RerunStable`, `FurthestStatus`, and `JobInv` and `StageInv`, the invariants of the proofs |
| `staging_seed` | violation | `TerminalWins`: the generator run on two days with its default seed |
| `staging_stale` | violation | `ViewIsInput`: the suppressed exception of the delete |
| `reconciliation_charges` | 2 charges, 56 lives of one of them, 3 days; 0.6M states | `LabelMeansAdjustment`, `ChecksPass`, `ExposureIsLabelled`, `BreachIsReal`, `AgesForward`, and `RInv`, the invariant of the proofs |
| `reconciliation_rerun` | violation | `Reproducible`: another copy, another as-of date |
| `pipeline_runs` | 2 DAG runs with any parameters, 2 faults, 1 generator run by hand, retention between runs, a batch a mart test refuses; 5.2M states | `ServedIsTested`, `FactsLead`, `SuccessServesAll`, `OneFaultHeals`, `ServedOnlyGrows`, `CommitsFollowRaw`, and `PipeInv`, the invariant of the proofs |

The five violations are disagreements between the code and what its comments or
documents say of it; `PROJECT.json` quotes both under `findings`.  A sixth
finding needs no violation: `docs/project_explainer.md:66` explains
`partial_settlement` as "Less than 10% of what was owed", and what
`reconciliation_charges` shows is that a payment of one half has that label.
The query (line 107 of the mart) gives it to less than 90%, that is, to more
than 10% missing.  `LabelMeansAdjustment` follows the query and the generator,
whose partial payment is one half (`generate.py:285-286`).

### Bounds, and why they are enough

* A queue of 2 under calls of 4 and 3 events is full before each call is half
  done, with reports seen by the poll every 3 events, by the poll after a
  `BufferError`, and by `flush`; two calls, because the second may start only
  when the first has returned.
* Two attempts are one that is presumed dead and its retry.  A batch of 2 with
  three messages has a flush inside the loop, an exact multiple of the batch,
  and a remainder flushed after the loop.  Two partitions with different
  lengths let a rebalance take one and leave the other.
* One fault at every possible place; the retry after it is fault-free.  Two in
  `serve_retries`, so that a retry of a load may fail on what a failed load
  left behind.
* Three loads and two generations: a load may start before a rewrite and end
  after it, and meets the shadow table of the load before.  A mart may have no
  parquet at first, so that a load is refused half way through the marts.
* Two charges with different dates make the upload two objects, so a job can
  die between them; one charge has three events, two of them at one time.
* The amounts are those at the edges of the arithmetic: the least charge with
  the highest fee, one kobo above the step of the card fee, capped fees, net
  sums that are not multiples of 100, of 10 or of 2, and the least charge in
  dollars at both ends of the range of rates, in both directions.
* Charges of the day of publication, of the night before it (created on one day,
  confirmed on the next) and of four days before it: over the three days of the
  run the first two age from bucket to bucket, and the third is past every
  bucket before any of its events arrives.
* Two faults are needed to fail both attempts of one task, hence to leave marts
  of two generations served together after the first of two DAG runs has
  succeeded; the second run is also the one that recovers from the first, with
  either consumer group.

The invariant of each proof is checked in the run of its module, so that a
proof that fails and an invariant that is false can be told apart; each of them
contains, or stands beside, the type invariant `TypeOK`.

Deadlock is not checked: every system here is one of bounded work, which ends.

### Fairness

`Publish`: the process takes its next step, and a message nobody has reported on
expires at last, both being matters of a running process and its own timers.
Of the broker nothing is assumed: it need not append, acknowledge or answer.
`PublishEnds` is conditional on the one answer without which the loop has no
end, the producer ID (`Handshaken`); neither a flush time-out nor a kill need
ever come.

`Ingest`: `FairSpec` gives weak fairness to the steps of each attempt and to
nothing else: a process that is running executes its next statement, and `poll`
returns within its second.  Publishing, starting, rebalancing and failing are
never required.  `Idle` is always possible in the loop, as the ten-second deadline
can pass whatever the broker holds; that the producer goes quiet is the bound
`MaxLog`.  `RetrySpec`, used for `MalformedIsKept` alone, adds that attempts are
made and that the group settles: even then the message is not kept.
`ReadIsKept` excepts runs with a fault or a message of the third kind.

## 4. Proofs

Every safety invariant and every action property that the passing runs check is
proved for every value of the constants, and so are the three refinements.  The
table gives the theorem for each, with the hypothesis it needs, if any.

| module | theorem | property | hypothesis |
|---|---|---|---|
| `Publish` | `InvariantHolds`, `TypeCorrect`, `ReturnsComplete` | `PInv`, `TypeOK`, `ReturnIsComplete` | |
| `Ingest` | `TypeCorrect`, `CommitsNeverGoBack` | `TypeOK`, `CommittedNeverDecreases` | |
| | `LoopCommitsHaveOffsets` | `LoopCommitHasOffset` | |
| | `DuplicatesComeFromRereading` | `NoDuplicateWithoutReread` | |
| | `InvariantHolds`, `NothingIsLost`, `RawIsAppendOnly`, `Refinement` | `IInv`, `NoLoss`, `AppendOnly`, `AtLeastOnce` | `DistinctStamps` |
| `Serve` | `TypeCorrect`, `ReadersKeepTheirTable` | `TypeOK`, `ServedStays` | |
| | `InvariantHolds`, `ReadersSeeWholeMarts`, `ServedAdvances`, `Refinement` | `SInv`, `ServedComplete`, `ServedOnlyAdvances`, `WholeMarts` | `~Overlap` |
| | `LoadsAreCurrent`, `SuccessIsCurrent` | `LoadInv`, `SuccessMeansCurrent` | `~Overlap` |
| `Staging` | `JobsAreSound`, `TypeCorrectness` | `JobInv`, `TypeOK` | |
| | `InvariantHolds`, `OneRowPerCharge` | `StageInv`, `ViewIsInput` | `~DeleteFails` |
| | `TerminalStatesWin`, `ExpectedDatesStay`, `RerunsAgree`, `ImplementsLifecycle` | `TerminalWins`, `ExpectedDateStable`, `RerunStable`, `FurthestStatus` | `~DeleteFails`, `GeneratedOnce` |
| `Reconciliation` | `Invariance`, `TypeCorrectness` | `RInv`, `TypeOK` | |
| | `LabelsAreRight`, `ChecksNeverStopIt`, `ExposureIsRight`, `BreachesAreReal` | `LabelMeansAdjustment`, `ChecksPass`, `ExposureIsLabelled`, `BreachIsReal` | |
| | `ChargesAge`, `RerunsReproduce` | `AgesForward`, `Reproducible` | `~Redelivery` |
| `Pipeline` | `Invariance`, `TypeCorrectness` | `PipeInv`, `TypeOK` | |
| | `OnlyTestedIsServed`, `FactsAreAhead`, `SuccessIsComplete`, `OneFaultIsHealed` | `ServedIsTested`, `FactsLead`, `SuccessServesAll`, `OneFaultHeals` | |
| | `ReadersKeepTheirs`, `RawBeforeCommit` | `ServedOnlyGrows`, `CommitsFollowRaw` | |

### The hypotheses

Each hypothesis excludes something the code lets happen, and where a run can
show what happens then, a run does:

* `DistinctStamps`: no two attempts on a data set took `ingested_at` in the same
  second.  The object key has only the second and the batch number
  (`ingest.py:137-140`), so that otherwise the later object replaces the
  earlier one.  The code does not ensure it; the DAG, which runs one attempt at
  a time, practically does.
* `~Overlap`: one load at a time, which the DAG ensures for its own task and
  nothing ensures for `main`.  `serve_shadow` is the counterexample.
* `~DeleteFails`: `_upload` suppresses the failure of its delete, and
  `staging_stale` is the counterexample.
* `GeneratedOnce`: the generator emitted each charge on one day.  With its
  default seed it repeats itself on the next day with later times, and
  `staging_seed` is the counterexample.
* `~Redelivery`: no event is in raw with two days of arrival.
  `reconciliation_rerun` is the counterexample, and as the theorem proves the
  property that run refutes, a redelivery is the only way to refute it.

What the proofs use of the constants is in the `ASSUME`s of the modules, which
TLC evaluates: types; that model values are none of the values they stand
beside (`Null` is neither a time nor a status nor a row); and what the
generator ensures of its events and charges.  In `Staging` that is one event
per identifier and times that follow the rank of the statuses
(`EventsAssumption`), in `Reconciliation` amounts between 10,000 and 800,000,000 kobo (`Kobo`), rates
within 1.5% of the anchor (`Near`), dollars by card only, merchants' lags of 1
or 2 days, a payment or a reversal of charges that succeeded only, a
confirmation on the day a charge is created or the next and no later than the
day of publication (`end`), and a reversal up to four days after it.  How long
before the publication a charge was made is not limited: the window of
`generate_events` is a parameter (`days`, 14 by default).

### The arguments

*Publish.*  `ReturnIsComplete` looks at the end of a call; `PInv` adds what the
end rests on: events before the loop's place have been queued, an acknowledged
event is in the log, and in the calls that have returned nothing is left or
failed.

*Ingest.*  `NoLoss` is not inductive: a commit moves the
committed offset of a partition up to its owner's position, so one must know
that everything between the two is already durable.  `Holding` says that a
message handed to a live owner since the last commit is durable or in the
owner's buffer, `Flushed` that the buffers are empty at a commit, and
`FreshKeys` that no object about to be written has a used key, for otherwise a
write could take away a copy made earlier.  `Positions`, `OwnersAreMembers` and
`FromLog` tie the three to the log.  `AppendOnly` needs `FreshKeys` only.

The other two invariants need no keys, hence no hypothesis.
`LoopCommitHasOffset` rests on `ReadyToCommit`: an attempt on its way to a
commit that is still in the group got the message that filled its buffer from
the present generation, since a generation that begins while it is on its way
leaves it out; one that was left out may still be handed messages, but is no
member, and the coordinator refuses its commit.  `NoDuplicateWithoutReread`
rests on `InOnePlace`: until something is taken back, a message below a
position is in one buffer or one object, and what `poll` hands out is above it.

*Serve.*  `ServedComplete` needs to know what EXCHANGE and
RENAME put in: `ShadowInv` states what the shadow table holds at each statement
(nothing before INSERT, one complete and current generation after the count),
and `LiveInv` that what is served is complete and not newer than the parquet.
`Alone` is where the hypothesis enters: no statement of another loader comes
between two of these.  `LoadInv` follows one load through its marts: those it
has gone past are as new as the bucket was when it began, and so is what the
shadow table holds from the count on; a mart whose parquet is empty, or is not
there, ends the load, which therefore never goes past it.  That later loads do
not undo it is `ServedOnlyAdvances` again.

*Staging.*  `ViewIsInput` speaks of the end of a job only.
`StageInv` says what holds on the way: the staged files of the data set being
uploaded hold exactly the computed rows of their date, so that nothing of an
earlier job is left; while settlements are processed, the transactions
uploaded before them are one row per charge; and both are *one* collapse of
what was read (`IsCollapse`), not a mixture of several.  What a collapse is, is
the subject of `CollapseProofs`: `Later` is a strict order on the events of a
charge, the first of them is therefore one of them, and under `GeneratedOnce`
it has the highest rank and does not depend on the copies kept.  With that,
`TerminalWins` holds of every collapse, `RerunStable` because two collapses of the
same events are the same charges, and `ExpectedDateStable` and the refinement of
`Lifecycle` because a job reads at least what the last successful one read (`JobInv`).

*Reconciliation.*  `RInv` says that each staged row is the highest event of its
charge among what the last run read (`Collapsed`), with the day one of its
copies arrived, and that what that run did not read arrived no earlier.  From
there the properties are about the query.  `LabelMeansAdjustment` is arithmetic:
a fee leaves at least 99 of the least amount there is, in either currency
(`FeeRange`), a conversion is within one kobo of the exact product
(`Converted`), and two rates within 1.5% of the anchor turn neither 99% of a net
amount into less than 90% of it nor a half into more (`Drift`); with the
integer divisions of the generator this separates partial from short payments
at every amount.  The count in `ChecksPass` is a bijection between the rows of
the mart and those of the fact.  `BreachIsReal` compares days: `Unpaid` says
from which of them the bucket of an unpaid charge is computed.  `AgesForward`
needs that the as-of date never goes back, and this is where a redelivery would
break it.

*Pipeline.*  Two of the properties only look at the end of a run.  `Progress` says
what the operations behind the run have left for those before it: the batch in
the topic, then in raw; staged equal to raw; after a build, tests that
pass and marts made from what is staged; and the tables loaded so far equal to
their marts.  `Contained` and `OffsetsFollowRaw` carry `ServedOnlyGrows` and
`CommitsFollowRaw`, and `Accounted` carries `OneFaultHeals`: a second attempt
is owed to a fault or to data a retry cannot mend.  A retry starts a task from
its beginning, so each clause is indexed by what is left of the task (`todo`),
not by what was done.

### Model-checked only

Liveness: `PublishEnds`, `DrainEnds`, `ReadIsKept`; the prover has neither
`ENABLED` nor fairness.  The five violations are TLC's counterexamples.
`ServedStays`, which needs no hypothesis, is proved and not part of a run: the
tables of `serve_shadow` keep it while they break `ServedNotEmpty`.

## 5. Not modelled

* In `Publish`: partitions and the order of messages in the log, on which
  nothing that reads the topics relies (`Staging` takes events in any order);
  what a call does without a producer ID beyond staying in its loop.  The
  branch of `main` that writes JSONL files, and the random draws of
  `generate_events`: which charges there are is any choice the models allow.
* The warnings of `quality.py` (5b), which stop nothing.
* A load by hand (`python -m settlement.serve`) after a failed dbt build: the
  bucket then holds marts that a test has refused, and only the order of the
  DAG's tasks keeps them from readers.  `ServedIsTested` is about the DAG.
* The columns of `fct_transactions`, `fct_settlements`, `mart_merchant_daily`,
  `mart_channel_performance` but those a property speaks of: projections and
  sums.  `fx_rate_to_ngn` is never null for dollars, as the generator sets it.
* The `max_messages` limit of `drain_topic`, which nothing in the repository sets;
  retention that deletes messages while a DAG run is active (a run is bounded by
  its tasks' time-outs, retention is two days).
* Part of a batch in a topic: in `Pipeline` a publication that dies or times out
  leaves the whole batch or none of it, where `publish` may have sent any part
  (`Publish` has it, event by event).
* That a truncated object left by a failed write makes later Spark reads fail:
  `Ingest` leaves the object, `Staging` reads sound objects only.
* An EXCHANGE that a server executes after the client has given up and its
  retry has begun: statements of `Serve` take effect at once or never.
* A reversal before the payout date is labelled `reversed_after_settlement`, as
  the query compares no dates; a charge of today is `missing_settlement`
  (`docs/project_explainer.md:65` says overdue), as the feed's watermark may be
  ahead of the day, and that is all `BreachIsReal` asks of that label.
  An unpaid T+1 charge is `pending_t2` on day 2, a day after it was due
  (`docs/project_explainer.md:158-159` says overdue goes by that date).
  `Reconciliation` has these behaviours and no property excludes them.
* Configuration, scripts (but for the retention of topics), containers, validation queries, tests.

## 6. Plan

What would say more about the system than is said now:

1. The composition as refinements: that the layers of `Pipeline`, read as sets
   of batches, are implemented by `Ingest`, `Staging` and `Serve`, for which
   section 2 (*Pipeline*) argues in words; an abstract specification of the
   whole (what is served only grows and is tested) that `Pipeline` implements.
2. Proofs that the hypotheses are enough for more: `ServedComplete` for
   overlapping loads of different marts, `ViewIsInput` for a job whose delete
   succeeds after one whose delete failed.
3. The remaining columns of `mart_merchant_daily` and
   `mart_channel_performance`, as sums over the facts.
