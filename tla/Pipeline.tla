------------------------------ MODULE Pipeline -------------------------------
(***************************************************************************)
(* dags/settlement_pipeline.py: the seven tasks of a DAG run, in order,    *)
(* each with one retry that starts the task again from its beginning, over *)
(* what earlier attempts, earlier runs and a hand-started generator left   *)
(* in the topics, the buckets and the serving tables.                      *)
(*                                                                         *)
(* A batch is what one seed of the generator yields; it has transactions   *)
(* and settlements, and running the seed again yields the same references. *)
(* The layers hold sets of batches: how a batch gets through one stage     *)
(* event by event is in Ingest, Staging, Reconciliation and Serve.         *)
(***************************************************************************)
EXTENDS Naturals, Sequences, SequencesExt

CONSTANTS Batch,        \* seeds of the generator
          Refused,      \* Refused[m]: batches with rows that a test of mart m refuses
          Suffix,       \* values of consumer_group_suffix
          Null,         \* no operand, no batch
          MaxRuns,      \* bound: DAG runs
          MaxHand,      \* bound: generator runs by hand
          MaxFaults     \* bound: failures, time-outs and early ends

Part == {"transactions", "settlements"}

\* Mutant of MARTS: the reconciliation is loaded before the facts.
ReconciliationFirst == <<"mart_settlement_reconciliation", "fct_transactions", "fct_settlements",
                         "mart_merchant_daily", "mart_channel_performance">>

\* The marts in loading order, and the staged data sets each is selected from.
MARTS == <<"fct_transactions", "fct_settlements", "mart_settlement_reconciliation",
           "mart_merchant_daily", "mart_channel_performance">>
Mart == {MARTS[i] : i \in DOMAIN MARTS}
Needs(m) == IF m \in {"fct_settlements", "mart_settlement_reconciliation"}
            THEN Part ELSE {"transactions"}

ASSUME ConstantsAssumption ==
    /\ Refused \in [Mart -> SUBSET Batch]
    /\ {MaxRuns, MaxHand, MaxFaults} \subseteq Nat

\* The tasks of the DAG, and what each does one after the other.
Tasks == <<"preflight", "generate_events", "ingest_to_raw", "spark_raw_to_staged",
           "dbt_build", "load_clickhouse", "serving_quality_checks">>
Op(what, on) == [what |-> what, on |-> on]
Work(t) ==
    CASE t = "preflight"           -> <<Op("probe", Null)>>
      [] t = "generate_events"     -> <<Op("publish", "transactions"), Op("publish", "settlements")>>
      [] t = "ingest_to_raw"       -> <<Op("read", "transactions"), Op("commit", "transactions"),
                                        Op("read", "settlements"), Op("commit", "settlements"),
                                        Op("total", Null)>>
      [] t = "spark_raw_to_staged" -> <<Op("stage", "transactions"), Op("stage", "settlements")>>
      [] t = "dbt_build"           -> <<Op("build", Null)>>
      [] t = "load_clickhouse"     -> [i \in DOMAIN MARTS |-> Op("load", MARTS[i])]
      [] OTHER                     -> <<Op("check", Null)>>

\* Mutant of Tries: retries = 0.
NoRetry == 1
Tries == 2

VARIABLES
    params,         \* of the DAG run: skip_generate, seed, consumer_group_suffix
    state,          \* of the DAG run
    task, try,      \* the task that runs, and which attempt of it
    todo,           \* what the attempt has left to do
    topic,          \* topic[p]: the Kafka log
    low,            \* low[p]: how many messages of it retention has deleted
    committed,      \* committed[x][p]: offset of the group with suffix x
    read, wrote,    \* the attempt: where an open consumer has read up to, whether it wrote a row
    raw, staged,    \* the buckets, by data set
    marts, served,  \* the bucket and the tables, by mart: the staged rows it was made from
    hand,           \* the batch a hand-started generator has yet to publish settlements of
    runs, hands, faults,
    hits, silent    \* history of the run: its faults, and whether one went unnoticed

dagvars  == <<params, state, task, try, todo>>
logvars  == <<topic, low, committed, read, wrote>>
datavars == <<raw, staged, marts, served>>
handvars == <<hand, hands>>
history  == <<runs, faults, hits, silent>>
vars     == <<dagvars, logvars, datavars, handvars, history>>

Nothing == [p \in Part |-> {}]

\* A run that skips the generator makes no use of the seed.
Params == {x \in [skip : BOOLEAN, seed : Batch \cup {Null}, suffix : Suffix] : x.skip <=> x.seed = Null}

\* What may be left of some work, and it is never nothing.
Rests(work) == {SubSeq(work, n, Len(work)) : n \in DOMAIN work}

TypeOK ==
    /\ params \in Params
    /\ state \in {"none", "running", "success", "failed"}
    /\ task \in DOMAIN Tasks /\ try \in 1..Tries
    /\ todo \in Rests(Work(Tasks[task]))
    /\ topic \in [Part -> Seq(Batch)]
    /\ {low, read} \subseteq [Part -> Nat]
    /\ committed \in [Suffix -> [Part -> Nat]]
    /\ \A p \in Part : {low[p], read[p]} \cup {committed[x][p] : x \in Suffix}
                            \subseteq 0..Len(topic[p])
    /\ wrote \in BOOLEAN
    /\ {raw, staged} \subseteq [Part -> SUBSET Batch]
    /\ {marts, served} \subseteq [Mart -> [Part -> SUBSET Batch]]
    /\ hand \in Batch \cup {Null}
    /\ {runs, hands, faults, hits} \subseteq Nat
    /\ silent \in BOOLEAN

Init ==
    /\ params \in Params /\ params.skip
    /\ state = "none" /\ task = 1 /\ try = 1 /\ todo = Work(Tasks[1])
    /\ topic = [p \in Part |-> <<>>]
    /\ low = [p \in Part |-> 0]
    /\ committed = [x \in Suffix |-> [p \in Part |-> 0]]
    /\ read = [p \in Part |-> 0] /\ wrote = FALSE
    /\ raw = Nothing /\ staged = Nothing
    /\ marts = [m \in Mart |-> Nothing] /\ served = [m \in Mart |-> Nothing]
    /\ hand = Null
    /\ runs = 0 /\ hands = 0 /\ faults = 0 /\ hits = 0 /\ silent = FALSE

------------------------------------------------------------------------------
\* dbt build.  The relationships test of stg_settlements: every settlement is of
\* a transaction that has been staged.
Orphans == staged["settlements"] \ staged["transactions"]

\* A model is built unless a test upstream of it has failed ...
Buildable == {m \in Mart : Needs(m) = Part => Orphans = {}}

\* ... and is written before its own tests run.
Content(m) == [p \in Part |-> IF p \in Needs(m) THEN staged[p] ELSE {}]
Rows(content) == UNION {content[p] : p \in Part}
\* Mutant of TestsPass: only the tests of the staging models can fail the build.
StagingTestsPass == Orphans = {}
TestsPass == Orphans = {} /\ \A m \in Mart : Rows(Content(m)) \cap Refused[m] = {}

\* run_checks: every mart is there, and the rows of the reconciliation are those
\* of the facts.
ChecksPass ==
    /\ \A m \in Mart : served[m] # Nothing
    /\ LET recon == served["mart_settlement_reconciliation"]
       IN  /\ recon["transactions"] = served["fct_transactions"]["transactions"]
           /\ recon["settlements"] = served["fct_settlements"]["settlements"]

\* What the operations do, when nothing goes wrong.
Publish(op) ==
    /\ op.what = "publish"
    /\ topic' = IF params.skip THEN topic
                ELSE [topic EXCEPT ![op.on] = Append(@, params.seed)]
    /\ UNCHANGED <<low, committed, read, wrote, datavars>>

\* drain_topic up to offset `to`; an attempt adds up what its two drains wrote.
Position(p) == Max({committed[params.suffix][p], low[p]})   \* auto.offset.reset: earliest
Copied(p, to) == raw' = [raw EXCEPT ![p] = @ \cup {topic[p][i] : i \in Position(p) + 1 .. to}]
Drain(op, to) ==
    /\ op.what = "read"
    /\ read' = [read EXCEPT ![op.on] = to]
    /\ Copied(op.on, to)
    /\ wrote' = (Position(op.on) < to \/ (op.on = "settlements" /\ wrote))
    /\ UNCHANGED <<topic, low, committed, staged, marts, served>>

\* A drain that has written up to `to` and committed the first batches of it.
DrainSome(op, to, done) ==
    /\ op.what = "read"
    /\ Copied(op.on, to)
    /\ committed' = [committed EXCEPT ![params.suffix][op.on] = done]
    /\ UNCHANGED <<topic, low, read, wrote, staged, marts, served>>

\* Mutant of Commit: whatever the topic holds by then.
CommitEnd(op) ==
    /\ op.what = "commit"
    /\ committed' = [committed EXCEPT ![params.suffix][op.on] = Len(topic[op.on])]
    /\ UNCHANGED <<topic, low, read, wrote, datavars>>
Commit(op) ==
    /\ op.what = "commit"
    /\ committed' = [committed EXCEPT ![params.suffix][op.on] = read[op.on]]
    /\ read' = [read EXCEPT ![op.on] = 0]
    /\ UNCHANGED <<topic, low, wrote, datavars>>

\* Mutant of Stage: an incremental transform that replaces the staged prefix.
StageNew(op, rows) ==
    /\ op.what = "stage"
    /\ staged' = [staged EXCEPT ![op.on] = rows \ @]
    /\ UNCHANGED <<logvars, raw, marts, served>>
Stage(op, rows) ==
    /\ op.what = "stage"
    /\ staged' = [staged EXCEPT ![op.on] = rows]
    /\ UNCHANGED <<logvars, raw, marts, served>>

\* dbt build writes every model it reaches before it runs that model's tests.
Build(op, built) ==
    /\ op.what = "build"
    /\ marts' = [m \in Mart |-> IF m \in built THEN Content(m) ELSE marts[m]]
    /\ UNCHANGED <<logvars, raw, staged, served>>

Load(op) ==
    /\ op.what = "load"
    /\ served' = [served EXCEPT ![op.on] = marts[op.on]]
    /\ UNCHANGED <<logvars, raw, staged, marts>>

Look(op) == op.what \in {"probe", "total", "check"} /\ UNCHANGED <<logvars, datavars>>

Effect(op) ==
    \/ Publish(op)
    \/ Drain(op, Len(topic[op.on]))
    \/ Commit(op)
    \/ Stage(op, raw[op.on])
    \/ Build(op, Buildable)
    \/ Load(op)
    \/ Look(op)

\* What they may leave when the process dies inside them.  A batch is in a topic
\* as a whole or not at all: a publication that dies, or whose flush times out,
\* with part of a batch sent is one of the two.
HalfDone(op) ==
    \/ /\ op.what = "read"
       /\ \E to \in Position(op.on) .. Len(topic[op.on]) :
             \E done \in Position(op.on) .. to : DrainSome(op, to, done)
    \/ op.what = "stage" /\ \E rows \in SUBSET raw[op.on] : Stage(op, rows)
    \/ \E built \in SUBSET Buildable : Build(op, built)

\* When they raise for what they find, and which of them do so before any effect.
Raises(op) ==
    \/ op.what = "total" /\ ~wrote
    \/ op.what = "stage" /\ raw[op.on] = {}
    \/ op.what = "build" /\ ~TestsPass
    \/ op.what = "load" /\ marts[op.on] = Nothing
    \/ op.what = "check" /\ ~ChecksPass
RaisesAtOnce(op) == op.what \in {"stage", "load"} /\ Raises(op)

------------------------------------------------------------------------------
\* The scheduler.  max_active_runs is 1: a run is triggered when none is active.
Trigger ==
    /\ state # "running" /\ runs < MaxRuns
    /\ params' \in Params
    /\ state' = "running" /\ task' = 1 /\ try' = 1 /\ todo' = Work(Tasks[1])
    /\ runs' = runs + 1 /\ hits' = 0 /\ silent' = FALSE
    /\ UNCHANGED <<faults, logvars, datavars, handvars>>

\* The next operation of the attempt, of the next task, or the end of the run.
NextOp == Len(todo) > 1 /\ todo' = Tail(todo) /\ UNCHANGED <<state, task, try>>
NextTask == /\ Len(todo) = 1 /\ task < Len(Tasks)
            /\ task' = task + 1 /\ try' = 1 /\ todo' = Work(Tasks[task + 1])
            /\ UNCHANGED state
Finish == /\ Len(todo) = 1 /\ task = Len(Tasks)
          /\ state' = "success"
          /\ UNCHANGED <<task, try, todo>>
Advance == (NextOp \/ NextTask \/ Finish) /\ UNCHANGED params

\* Mutants of Again, retries without end, and of GiveUp, trigger_rule all_done.
Forever == try' = try + 1 /\ todo' = Work(Tasks[task]) /\ UNCHANGED <<state, task>>
CarryOn == /\ try = Tries /\ task < Len(Tasks)
           /\ task' = task + 1 /\ try' = 1 /\ todo' = Work(Tasks[task + 1])
           /\ UNCHANGED state

\* A failed attempt is made again from the beginning of the task; after the last
\* one the run has failed and nothing downstream is started.
Again == try < Tries /\ try' = try + 1 /\ todo' = Work(Tasks[task]) /\ UNCHANGED <<state, task>>
GiveUp == try = Tries /\ state' = "failed" /\ UNCHANGED <<task, try, todo>>
Retry == (Again \/ GiveUp) /\ UNCHANGED params

Proceed ==
    /\ state = "running"
    /\ ~Raises(Head(todo)) /\ Effect(Head(todo))
    /\ Advance
    /\ UNCHANGED <<handvars, history>>

Raise ==
    /\ state = "running" /\ Raises(Head(todo))
    /\ \/ RaisesAtOnce(Head(todo)) /\ UNCHANGED <<logvars, datavars>>
       \/ ~RaisesAtOnce(Head(todo)) /\ Effect(Head(todo))
    /\ Retry
    /\ UNCHANGED <<handvars, history>>

Fault(unnoticed) ==
    /\ state = "running" /\ faults < MaxFaults
    /\ faults' = faults + 1 /\ hits' = hits + 1
    /\ silent' = (silent \/ unnoticed)
    /\ UNCHANGED <<runs, handvars>>

\* An exception, a kill or the execution time-out, before the effect of an
\* operation, after it, or half way.
Die ==
    /\ Fault(FALSE)
    /\ \/ UNCHANGED <<logvars, datavars>>
       \/ Effect(Head(todo))
       \/ HalfDone(Head(todo))
    /\ Retry

\* flush(300) returns with messages still queued; publish ignores that.
FlushTimeout ==
    /\ Head(todo).what = "publish" /\ ~params.skip
    /\ Fault(TRUE)
    /\ UNCHANGED <<logvars, datavars>>
    /\ Advance

\* The idle deadline of a drain passes while the broker has more.
IdleEarly ==
    /\ Head(todo).what = "read"
    /\ Fault(TRUE)
    /\ \E to \in Position(Head(todo).on) .. Len(topic[Head(todo).on]) - 1 : Drain(Head(todo), to)
    /\ Advance

\* main of generate.py, run by hand, beside a DAG run or not.
ByHand ==
    /\ \/ /\ hand = Null /\ hands < MaxHand
          /\ \E b \in Batch :
                /\ topic' = [topic EXCEPT !["transactions"] = Append(@, b)]
                /\ hand' = b
          /\ hands' = hands + 1
       \/ /\ hand # Null
          /\ topic' = [topic EXCEPT !["settlements"] = Append(@, hand)]
          /\ hand' = Null
          /\ UNCHANGED hands
    /\ UNCHANGED <<dagvars, low, committed, read, wrote, datavars, history>>

\* retention.ms: two days on, the oldest messages of a topic are gone, whether a
\* group has read them or not.  A DAG run is over in hours, its tasks being
\* bounded by execution_timeout, and like a generator it does not see its own
\* messages expire.  (Nothing reads the topics after the last run.)
Expire(p) ==
    /\ state # "running" /\ runs < MaxRuns /\ hand = Null
    /\ \E to \in low[p] + 1 .. Len(topic[p]) : low' = [low EXCEPT ![p] = to]
    /\ UNCHANGED <<dagvars, topic, committed, read, wrote, datavars, handvars, history>>

Next == \/ Trigger \/ Proceed \/ Raise \/ Die \/ FlushTimeout \/ IdleEarly \/ ByHand
        \/ \E p \in Part : Expire(p)
Spec == Init /\ [][Next]_vars

------------------------------------------------------------------------------
\* "a model whose test fails does not propagate downstream"
\* (settlement_pipeline.py:152-153): although dbt writes a mart before it tests
\* it, and marts of a failed build stay in the bucket, readers only ever get rows
\* that the tests accept, and settlements together with their transactions.
ServedIsTested ==
    \A m \in Mart : /\ Rows(served[m]) \cap Refused[m] = {}
                    /\ Needs(m) = Part =>
                          served[m]["settlements"] \subseteq served[m]["transactions"]

\* Marts are swapped one at a time, and a load may stop between any two of them,
\* run after run.  Whatever generations are served together, a row of the
\* reconciliation is found in both facts (quality.py:52-65 joins them).
FactsLead ==
    LET recon == served["mart_settlement_reconciliation"] IN
    /\ recon["transactions"] \subseteq served["fct_transactions"]["transactions"]
    /\ recon["settlements"] \subseteq served["fct_settlements"]["settlements"]

\* A run that succeeds has put its whole batch before readers, in every mart,
\* unless the producer or a drain fell short without noticing; and every mart
\* shows all that raw has.
SuccessServesAll ==
    state = "success" =>
        \A m \in Mart, p \in Part : p \in Needs(m) =>
            /\ served[m][p] = raw[p]
            /\ ~params.skip /\ ~silent => params.seed \in served[m][p]

\* What one fault can do to a run.  If it fails all the same, then on data that
\* the tests refuse, or on an empty raw data set, or because the retry of the
\* ingest finds nothing left to read -- in which case nothing has been lost.
OneFaultHeals ==
    state = "failed" /\ hits < 2 =>
        \/ Tasks[task] = "ingest_to_raw"
           /\ (params.skip \/ silent \/ \A p \in Part : params.seed \in raw[p])
        \/ Tasks[task] = "spark_raw_to_staged" /\ \E p \in Part : raw[p] = {}
        \/ Tasks[task] = "dbt_build" /\ ~TestsPass

\* What makes them true, step after step.  First, nothing is in a layer that has
\* not been in the layer before it.
Contained ==
    /\ \A p \in Part : staged[p] \subseteq raw[p]
    /\ \A m \in Mart, p \in Part : marts[m][p] \cup served[m][p] \subseteq IF p \in Needs(m) THEN raw[p] ELSE {}

\* A message below a committed offset, or below what an open consumer has read,
\* is in the raw layer, unless retention has deleted it.
OffsetsFollowRaw ==
    \A p \in Part : \A i \in DOMAIN topic[p] :
        (i <= read[p] \/ \E x \in Suffix : i <= committed[x][p]) =>
            topic[p][i] \in raw[p] \/ i <= low[p]

\* How far the run is: the operations it has behind it, some of them because an
\* earlier attempt that failed before their task had no part in them.
Published(p) == task > 2 \/ (task = 2 /\ p = "transactions" /\ Len(todo) = 1)
Drained(p)   == task > 3 \/ (task = 3 /\ Len(todo) <= 4 /\ (p = "transactions" \/ Len(todo) <= 2))
IsStaged(p)  == task > 4 \/ (task = 4 /\ p = "transactions" /\ Len(todo) = 1)
Loaded(m)    == task > 6 \/ (task = 6 /\ \E i \in 1 .. 5 - Len(todo) : m = MARTS[i])

Progress ==
    /\ \A p \in Part : ~params.skip /\ ~silent =>
          /\ state = "running" /\ Published(p) =>
                \E i \in low[p] + 1 .. Len(topic[p]) : topic[p][i] = params.seed
          /\ Drained(p) => params.seed \in raw[p]
    /\ \A p \in Part : IsStaged(p) => staged[p] = raw[p] /\ raw[p] # {}
    /\ task > 5 => TestsPass /\ \A m \in Mart : marts[m] = Content(m)
    /\ \A m \in Mart : Loaded(m) => served[m] = marts[m]
    /\ state = "success" => task = Len(Tasks)

\* A second attempt is owed to a fault, or to what the first attempt found.
Excuse ==
    \/ task = 3 /\ (params.skip \/ silent \/ \A p \in Part : params.seed \in raw[p])
    \/ task = 4 /\ \E p \in Part : raw[p] = {}
    \/ task = 5 /\ ~TestsPass
Accounted ==
    /\ try = Tries => hits >= 1 \/ Excuse
    /\ state = "failed" => hits >= 2 \/ Excuse

\* The inductive invariant.
PipeInv == TypeOK /\ Contained /\ OffsetsFollowRaw /\ Progress /\ Accounted
           /\ ServedIsTested /\ FactsLead

\* No group commits past a message that it could still have read and that is not
\* in the raw layer: what retention deletes between two runs is all that a topic
\* can lose, whoever publishes between a drain and its commit and wherever a
\* drain dies.
CommitsFollowRaw ==
    [][\A x \in Suffix, p \in Part : \A i \in committed[x][p] + 1 .. committed'[x][p] :
          topic[p][i] \in raw'[p] \/ i <= low[p]]_vars

\* No run takes back what an earlier one has shown to readers.
ServedOnlyGrows ==
    [][\A m \in Mart, p \in Part : served[m][p] \subseteq served'[m][p]]_vars
==============================================================================
