------------------------------- MODULE Ingest --------------------------------
(***************************************************************************)
(* src/settlement/ingest.py: drain_topic, the batch drain of one Kafka     *)
(* topic into the raw layer of the object store.                           *)
(*                                                                         *)
(* An attempt is one call of drain_topic: a task try of Airflow, its       *)
(* retry, or a command-line run.  Attempts of one consumer group may       *)
(* overlap (a worker presumed dead goes on while the retry starts), so the *)
(* group coordinator is part of the model: it decides which attempt reads  *)
(* which partition, where reading resumes, and whose commits it accepts.   *)
(***************************************************************************)
EXTENDS Naturals, Sequences, FiniteSets, Functions

CONSTANTS Partition,    \* partitions of the topic
          Attempt,      \* calls of drain_topic
          None,         \* no attempt
          Stamp,        \* the second in which an attempt took its ingested_at
          Kind,         \* what the published messages may be, see Kinds
          BatchRows,    \* batch_rows: rows buffered before a flush
          MaxLog,       \* bound: MaxLog[p] messages in partition p
          MaxFaults     \* bound: crashes, evictions, failed calls

\* What a message is to the drain.  "good": _coerce and the Arrow schema take
\* it.  "malformed": parsing or _coerce raises.  "misfit": _coerce takes it but
\* the Arrow schema does not (a required field absent, a value of the wrong type).
Kinds == {"good", "malformed", "misfit"}

ASSUME ConstantsAssumption ==
    /\ None \notin Attempt
    /\ Stamp \in [Attempt -> Nat]
    /\ Kind \subseteq Kinds
    /\ BatchRows \in Nat \ {0}
    /\ MaxLog \in [Partition -> Nat]
    /\ MaxFaults \in Nat

VARIABLES
    log,            \* log[p]: the kinds of the messages of p, in offset order
    committed,      \* committed[p]: how many messages of p the group has committed
    member,         \* attempts in the current generation of the group
    evicted,        \* attempts the group dropped that are not back in it
    owner,          \* owner[p]: the member p is assigned to, or None
    pos,            \* pos[p]: how many messages of p its owner has been given
    pc,             \* where an attempt is
    final,          \* final[a]: a has left its loop (the flush and commit after it)
    consumed,       \* consumed[a]: stats["consumed"] is not 0
    buf, qbuf,      \* rows in memory, as message ids <<partition, offset>>
    partNo,         \* part_no: the number of the next object
    raw, quarantine,\* objects under raw/<dataset> and raw/quarantine/<dataset>
    reread,         \* history: a rebalance took a partition back to an earlier offset
    faults          \* how many faults have happened

broker   == <<log, committed, member, evicted, owner, pos, reread>>
attempts == <<pc, final, consumed, buf, qbuf, partNo>>
stores   == <<raw, quarantine>>
vars     == <<log, committed, member, evicted, owner, pos, pc, final, consumed,
              buf, qbuf, partNo, raw, quarantine, reread, faults>>

Live == {"poll", "flush", "qflush", "commit"}
PC   == Live \cup {"idle", "done", "failed", "crashed"}

MsgId  == Partition \X (Nat \ {0})
Key    == Nat \X Nat
Object == [key : Key, rows : SUBSET MsgId]

KindOf(m)    == log[m[1]][m[2]]
Rows(store)  == UNION {o.rows : o \in store}
\* Mutants: a key without the number, or without the second.
KeyWithoutPart(a)  == <<Stamp[a], 0>>
KeyWithoutStamp(a) == <<0, partNo[a]>>

\* part-<second of ingested_at>-<part_no>.
ObjectKey(a) == <<Stamp[a], partNo[a]>>

\* open_output_stream replaces whatever object had the key.
Put(store, key, rows) ==
    {o \in store : o.key # key} \cup {[key |-> key, rows |-> rows]}

Owned(a) == {p \in Partition : owner[p] = a}

\* Mutant: parsed rows only.
NoRowsBuffered(a) == buf[a] = <<>>

NothingBuffered(a) == buf[a] = <<>> /\ qbuf[a] = <<>>

------------------------------------------------------------------------------
Init ==
    /\ log = [p \in Partition |-> <<>>]
    /\ committed = [p \in Partition |-> 0]
    /\ member = {}
    /\ evicted = {}
    /\ owner = [p \in Partition |-> None]
    /\ pos = [p \in Partition |-> 0]
    /\ pc = [a \in Attempt |-> "idle"]
    /\ final = [a \in Attempt |-> FALSE]
    /\ consumed = [a \in Attempt |-> FALSE]
    /\ buf = [a \in Attempt |-> <<>>]
    /\ qbuf = [a \in Attempt |-> <<>>]
    /\ partNo = [a \in Attempt |-> 0]
    /\ raw = {}
    /\ quarantine = {}
    /\ reread = FALSE
    /\ faults = 0

\* The process of a ends: its memory goes, and with consumer.close() it leaves
\* the group (a crashed process does not).
End(a, how) ==
    /\ pc' = [pc EXCEPT ![a] = how]
    /\ buf' = [buf EXCEPT ![a] = <<>>]
    /\ qbuf' = [qbuf EXCEPT ![a] = <<>>]
    /\ UNCHANGED <<final, consumed, partNo>>

Leave(a) ==
    /\ member' = member \ {a}
    /\ evicted' = evicted \ {a}
    /\ owner' = [p \in Partition |-> IF owner[p] = a THEN None ELSE owner[p]]

\* An exception leaves drain_topic through its finally clause.
Raise(a) == End(a, "failed") /\ Leave(a)

Fault == faults < MaxFaults /\ faults' = faults + 1

------------------------------------------------------------------------------
\* The producer and the group coordinator.

Publish(p) ==
    /\ Len(log[p]) < MaxLog[p]
    /\ \E k \in Kind : log' = [log EXCEPT ![p] = Append(@, k)]
    /\ UNCHANGED <<committed, member, evicted, owner, pos, reread, attempts, stores, faults>>

\* Mutant: always from the beginning.
ResumeAtStart == [p \in Partition |-> 0]

\* Reading resumes at the committed offset, or at the earliest one.
ResumeAt == committed

\* A new generation M of the group.  Joining takes place inside poll; a live
\* member that is not polling, or is cut off, is evicted (a fault).
Rebalance ==
    \E M \in SUBSET {a \in Attempt : pc[a] = "poll"} :
        LET out == {a \in member \ M : pc[a] \in Live} IN
        /\ M # {}
        /\ M # member \/ \E p \in Partition : owner[p] = None
        /\ IF out # {} THEN Fault ELSE UNCHANGED faults
        /\ member' = M
        /\ evicted' = (evicted \ M) \cup out
        /\ owner' \in [Partition -> M]
        /\ pos' = ResumeAt
        /\ reread' = (reread \/ out # {} \/ pos # ResumeAt)
        /\ UNCHANGED <<log, committed, attempts, stores>>

------------------------------------------------------------------------------
\* drain_topic.

Start(a) ==
    /\ pc[a] = "idle"
    /\ pc' = [pc EXCEPT ![a] = "poll"]
    /\ UNCHANGED <<broker, final, consumed, buf, qbuf, partNo, stores, faults>>

\* poll returns message n of p: the next one of a partition assigned to a, or
\* one already fetched by an a that has not noticed it is out of the group.
Poll(a, p, n) ==
    /\ pc[a] = "poll"
    /\ n <= Len(log[p])
    /\ \/ owner[p] = a /\ n = pos[p] + 1 /\ pos' = [pos EXCEPT ![p] = n]
       \/ a \in evicted /\ UNCHANGED pos
    /\ consumed' = [consumed EXCEPT ![a] = TRUE]
    /\ UNCHANGED <<log, committed, member, evicted, owner, reread, final, partNo, stores, faults>>

Buffer(a, p, n) ==
    /\ Poll(a, p, n)
    /\ log[p][n] \in {"good", "misfit"}
    /\ buf' = [buf EXCEPT ![a] = Append(@, <<p, n>>)]
    /\ pc' = [pc EXCEPT ![a] = IF Len(buf'[a]) >= BatchRows THEN "flush" ELSE "poll"]
    /\ UNCHANGED qbuf

Quarantine(a, p, n) ==
    /\ Poll(a, p, n)
    /\ log[p][n] = "malformed"
    /\ qbuf' = [qbuf EXCEPT ![a] = Append(@, <<p, n>>)]
    /\ pc' = [pc EXCEPT ![a] = IF Len(qbuf'[a]) >= BatchRows THEN "flush" ELSE "poll"]
    /\ UNCHANGED buf

\* Mutant: the timeout flushes and commits, and the loop goes on.
StayInLoop(a) == UNCHANGED final

LeaveLoop(a) == final' = [final EXCEPT ![a] = TRUE]

\* poll returned nothing and the deadline has passed.  The broker may simply
\* have been slow, or a may hold no partition yet: no condition on the log.
Idle(a) ==
    /\ pc[a] = "poll"
    /\ LeaveLoop(a)
    /\ CASE ~NothingBuffered(a) ->
              /\ pc' = [pc EXCEPT ![a] = "flush"]
              /\ UNCHANGED <<member, evicted, owner>>
         [] NothingBuffered(a) /\ consumed[a] ->
              /\ pc' = [pc EXCEPT ![a] = "commit"]
              /\ UNCHANGED <<member, evicted, owner>>
         [] OTHER ->
              /\ pc' = [pc EXCEPT ![a] = "done"]
              /\ Leave(a)
    /\ UNCHANGED <<log, committed, pos, reread, consumed, buf, qbuf, partNo, stores, faults>>

\* poll returned an error: kafka error, end of the attempt.
PollError(a) ==
    /\ pc[a] = "poll"
    /\ Fault
    /\ Raise(a)
    /\ UNCHANGED <<log, committed, pos, reread, stores>>

\* flush, first half: the data object.
HasMisfit(a) == \E i \in DOMAIN buf[a] : KindOf(buf[a][i]) = "misfit"

PutData(a) ==
    raw' = IF buf[a] = <<>> THEN raw ELSE Put(raw, ObjectKey(a), Range(buf[a]))

\* Mutant: the buffer is not reset.
FlushDataKeepsRows(a) ==
    /\ pc[a] = "flush"
    /\ ~HasMisfit(a)
    /\ PutData(a)
    /\ pc' = [pc EXCEPT ![a] = "qflush"]
    /\ UNCHANGED <<broker, final, consumed, buf, qbuf, partNo, quarantine, faults>>

FlushData(a) ==
    /\ pc[a] = "flush"
    /\ ~HasMisfit(a)
    /\ PutData(a)
    /\ buf' = [buf EXCEPT ![a] = <<>>]
    /\ pc' = [pc EXCEPT ![a] = "qflush"]
    /\ UNCHANGED <<broker, final, consumed, qbuf, partNo, quarantine, faults>>

\* A value of the wrong type makes from_pylist raise before anything is written.
\* An absent required field passes it and fails in write_table, when the stream is
\* open: closing it may leave an object without rows under the key.
FlushMisfit(a) ==
    /\ pc[a] = "flush"
    /\ HasMisfit(a)
    /\ UNCHANGED raw \/ raw' = Put(raw, ObjectKey(a), {})
    /\ Raise(a)
    /\ UNCHANGED <<log, committed, pos, reread, quarantine, faults>>

\* flush, second half: the quarantine object, and the next object number.
PutQuarantine(a) ==
    quarantine' = IF qbuf[a] = <<>> THEN quarantine
                  ELSE Put(quarantine, ObjectKey(a), Range(qbuf[a]))

FlushQuarantine(a) ==
    /\ pc[a] = "qflush"
    /\ PutQuarantine(a)
    /\ qbuf' = [qbuf EXCEPT ![a] = <<>>]
    /\ partNo' = [partNo EXCEPT ![a] = @ + 1]
    /\ pc' = [pc EXCEPT ![a] = "commit"]
    /\ UNCHANGED <<broker, final, consumed, buf, raw, faults>>

\* An object write raises.  The store may have taken the object, or not; and as
\* the with statement closes the stream all the same, it may be left truncated,
\* an object with no row anyone can read.
WriteError(a) ==
    /\ Fault
    /\ \/ /\ pc[a] = "flush" /\ buf[a] # <<>> /\ ~HasMisfit(a)
          /\ PutData(a) \/ raw' = Put(raw, ObjectKey(a), {}) \/ UNCHANGED raw
          /\ UNCHANGED quarantine
       \/ /\ pc[a] = "qflush" /\ qbuf[a] # <<>>
          /\ \/ PutQuarantine(a)
             \/ quarantine' = Put(quarantine, ObjectKey(a), {})
             \/ UNCHANGED quarantine
          /\ UNCHANGED raw
    /\ Raise(a)
    /\ UNCHANGED <<log, committed, pos, reread>>

\* consumer.commit(asynchronous=False): the positions of the partitions now
\* assigned to a become the committed offsets.
\* Mutants: what the broker has instead of what was read; the last message
\* read instead of the next one.
HighWatermarks(a) == [p \in Partition |-> IF owner[p] = a THEN Len(log[p]) ELSE committed[p]]
LastOffsets(a) == [p \in Partition |-> IF owner[p] = a THEN pos[p] - 1 ELSE committed[p]]

NewOffsets(a) == [p \in Partition |-> IF owner[p] = a THEN pos[p] ELSE committed[p]]

HasOffset(a) == \E p \in Owned(a) : pos[p] # committed[p]

\* Mutant: the last commit goes back to the loop.
CommitAndLoop(a) ==
    /\ pc' = [pc EXCEPT ![a] = "poll"]
    /\ UNCHANGED <<final, consumed, buf, qbuf, partNo, member, evicted, owner>>

AfterCommit(a) ==
    IF final[a] THEN End(a, "done") /\ Leave(a)
    ELSE /\ pc' = [pc EXCEPT ![a] = "poll"]
         /\ UNCHANGED <<final, consumed, buf, qbuf, partNo, member, evicted, owner>>

Commit(a) ==
    /\ pc[a] = "commit"
    /\ a \in member
    /\ HasOffset(a)
    /\ committed' = NewOffsets(a)
    /\ AfterCommit(a)
    /\ UNCHANGED <<log, pos, reread, stores, faults>>

\* _NO_OFFSET: only the commit after the loop takes it for success.
CommitNothing(a) ==
    /\ pc[a] = "commit"
    /\ a \in member
    /\ ~HasOffset(a)
    /\ IF final[a] THEN AfterCommit(a) ELSE Raise(a)
    /\ UNCHANGED <<log, committed, pos, reread, stores, faults>>

\* a is no longer in the group: the coordinator refuses the commit, or, when a
\* has noticed and holds no partition any more, librdkafka has no offset.
CommitFenced(a) ==
    /\ pc[a] = "commit"
    /\ a \notin member
    /\ \/ Raise(a)
       \/ final[a] /\ AfterCommit(a)
    /\ UNCHANGED <<log, committed, pos, reread, stores, faults>>

\* The commit raises; the coordinator may or may not have recorded it.
CommitError(a) ==
    /\ pc[a] = "commit"
    /\ a \in member
    /\ Fault
    /\ committed' \in {committed, NewOffsets(a)}
    /\ Raise(a)
    /\ UNCHANGED <<log, pos, reread, stores>>

\* The process dies where it stands; the coordinator learns of it by time-out.
Crash(a) ==
    /\ pc[a] \in Live
    /\ Fault
    /\ End(a, "crashed")
    /\ UNCHANGED <<broker, stores>>

------------------------------------------------------------------------------
Step(a) ==
    \/ \E p \in Partition : \E n \in 1..Len(log[p]) : Buffer(a, p, n) \/ Quarantine(a, p, n)
    \/ Idle(a)
    \/ FlushData(a) \/ FlushMisfit(a) \/ FlushQuarantine(a)
    \/ Commit(a) \/ CommitNothing(a) \/ CommitFenced(a)

Failure(a) == PollError(a) \/ WriteError(a) \/ CommitError(a) \/ Crash(a)

Next ==
    \/ \E p \in Partition : Publish(p)
    \/ Rebalance
    \/ \E a \in Attempt : Start(a) \/ Step(a) \/ Failure(a)

Spec == Init /\ [][Next]_vars

\* A running process takes its steps; nothing has to be published, started or
\* rebalanced, and nothing has to fail.
Fairness == \A a \in Attempt : WF_vars(Step(a))

FairSpec == Spec /\ Fairness

\* Every attempt is made, and the group settles: retries go on.
RetrySpec == FairSpec /\ WF_vars(Rebalance) /\ \A a \in Attempt : WF_vars(Start(a))

------------------------------------------------------------------------------
\* Properties.

\* The type of every variable.
TypeOK ==
    /\ log \in [Partition -> Seq(Kind)]
    /\ committed \in [Partition -> Nat]
    /\ member \subseteq Attempt
    /\ evicted \subseteq Attempt
    /\ owner \in [Partition -> Attempt \cup {None}]
    /\ pos \in [Partition -> Nat]
    /\ pc \in [Attempt -> PC]
    /\ final \in [Attempt -> BOOLEAN]
    /\ consumed \in [Attempt -> BOOLEAN]
    /\ buf \in [Attempt -> Seq(MsgId)]
    /\ qbuf \in [Attempt -> Seq(MsgId)]
    /\ partNo \in [Attempt -> Nat]
    /\ raw \subseteq Object
    /\ quarantine \subseteq Object
    /\ reread \in BOOLEAN
    /\ faults \in Nat

\* A message is kept when the layer its kind belongs to has a copy.
Kept(m) == m \in IF KindOf(m) = "malformed" THEN Rows(quarantine) ELSE Rows(raw)

\* Offsets are committed only after the object is durable (ingest.py:9-12):
\* whatever crashes, is evicted, fails or overlaps, a message below a committed
\* offset is in the raw layer, or in quarantine if it cannot be parsed.  No
\* later attempt will ever be given it again.
NoLoss ==
    \A p \in Partition : \A n \in 1..committed[p] : Kept(<<p, n>>)

\* An object once written is never changed or replaced (raw is append-only,
\* ingest.py:14): no later flush, retry or overlapping attempt reuses its key.
AppendOnly == [][raw \subseteq raw' /\ quarantine \subseteq quarantine']_vars

\* The committed offsets never go back, so that no attempt undoes the progress
\* another one has made: a fenced attempt's late commit is refused, and an
\* accepted one starts from the offsets the last generation committed.
CommittedNeverDecreases ==
    [][\A p \in Partition : committed[p] <= committed'[p]]_vars

\* As long as no rebalance took a partition back, no message has two copies:
\* duplicates in raw come from re-reading only, never from flushing a buffer twice.
NoDuplicateWithoutReread ==
    ~reread => \A o1, o2 \in raw \cup quarantine : o1 # o2 => o1.rows \cap o2.rows = {}

\* The commits inside the loop (ingest.py:179, 184) are not guarded against
\* _NO_OFFSET as the last one is (188-192): while a is in the group, each of
\* them has an offset to commit.
LoopCommitHasOffset ==
    \A a \in member : pc[a] = "commit" /\ ~final[a] => HasOffset(a)

------------------------------------------------------------------------------
\* Why the safety properties hold: what every step preserves.

\* No two attempts took their ingested_at in the same second.
DistinctStamps == \A a, b \in Attempt : Stamp[a] = Stamp[b] => a = b

\* A process that still may write has used up no key it will use again.
Running == Live \cup {"idle"}
FreshKeys ==
    \A a \in Attempt : pc[a] \in Running =>
        /\ \A o \in raw : o.key[1] = Stamp[a] =>
              o.key[2] < partNo[a] \/ (pc[a] = "qflush" /\ o.key[2] = partNo[a])
        /\ \A o \in quarantine : o.key[1] = Stamp[a] => o.key[2] < partNo[a]

\* The coordinator's view of a group.
OwnersAreMembers ==
    /\ \A p \in Partition : owner[p] # None => owner[p] \in member
    /\ \A a \in member : pc[a] # "idle"
Positions ==
    \A p \in Partition : committed[p] <= pos[p] /\ pos[p] <= Len(log[p])

\* What a live owner was given since the last commit is in its memory or durable.
Holds(a, m) == Kept(m) \/ m \in Range(IF KindOf(m) = "malformed" THEN qbuf[a] ELSE buf[a])
Holding ==
    \A a \in Attempt, p \in Partition : owner[p] = a /\ pc[a] \in Live =>
        \A n \in (committed[p] + 1)..pos[p] : Holds(a, <<p, n>>)

\* Nothing is in memory when an attempt commits.
Flushed ==
    \A a \in Attempt : /\ pc[a] \in {"qflush", "commit"} => buf[a] = <<>>
                       /\ pc[a] = "commit" => qbuf[a] = <<>>

\* Only messages of the log are in memory or in an object.
InLog(rows) == \A m \in rows : m[2] <= Len(log[m[1]])
FromLog ==
    /\ InLog(Rows(raw)) /\ InLog(Rows(quarantine))
    /\ \A a \in Attempt : InLog(Range(buf[a])) /\ InLog(Range(qbuf[a]))

\* A member on its way to a commit of the loop has been given a message by this
\* generation of the group; an attempt the group dropped is no member.
ReadyToCommit ==
    /\ member \cap evicted = {}
    /\ \A a \in member : pc[a] \in {"flush", "qflush", "commit"} /\ ~final[a] => HasOffset(a)

\* As long as nothing was taken back, a message that was given to an attempt is
\* in one place only: one of its buffers, or one object.
InMemory(a) == Range(buf[a]) \cup Range(qbuf[a])
Stored      == Rows(raw) \cup Rows(quarantine)
Given(rows) == \A m \in rows : m[2] <= pos[m[1]]
InOnePlace ==
    ~reread =>
        /\ evicted = {}
        /\ Given(Stored) /\ \A a \in Attempt : Given(InMemory(a))
        /\ \A a \in Attempt : /\ Range(buf[a]) \cap Range(qbuf[a]) = {}
                             /\ InMemory(a) \cap Stored = {}
        /\ \A a, b \in Attempt : a # b => InMemory(a) \cap InMemory(b) = {}

IInv ==
    /\ TypeOK
    /\ FreshKeys
    /\ OwnersAreMembers
    /\ Positions
    /\ Holding
    /\ Flushed
    /\ FromLog
    /\ NoLoss
    /\ ReadyToCommit
    /\ InOnePlace
    /\ NoDuplicateWithoutReread

------------------------------------------------------------------------------
\* Liveness, and the abstract specification.

\* A message handed out by poll is eventually in raw or quarantine, also if its
\* partition moves to another attempt while it is buffered, unless something
\* fails or a misfit holds up the drain (see MalformedIsKept).
Disturbed == faults # 0 \/ \E p \in Partition : "misfit" \in Range(log[p])
ReadIsKept ==
    \A p \in Partition : \A n \in 1..MaxLog[p] :
        (pos[p] >= n) ~> (Disturbed \/ (n <= Len(log[p]) /\ Kept(<<p, n>>)))

\* "Malformed messages are quarantined instead of silently dropped"
\* (README.md:163), and raw "keeps ... malformed rows" (ingest.py:14-15): a message
\* that does not fit its contract is eventually in one of the two when nothing fails.
MalformedIsKept ==
    \A p \in Partition : \A n \in 1..MaxLog[p] :
        (pos[p] >= n /\ n <= Len(log[p]) /\ log[p][n] # "good")
            ~> (<<p, n>> \in Rows(raw) \cup Rows(quarantine))

\* An attempt that starts ends: no fault, eviction or refused commit leaves it
\* hanging once the producer has gone quiet (a batch drain, ingest.py:5-7).
DrainEnds == \A a \in Attempt : (pc[a] # "idle") ~> (pc[a] \in PC \ (Live \cup {"idle"}))

\* The messages of a log, or below its committed offsets.
UpTo(offset) == UNION {{p} \X (1..offset[p]) : p \in Partition}
Lengths == [p \in Partition |-> Len(log[p])]

\* The drain implements at-least-once transfer of the log.
Transfer == INSTANCE LogTransfer WITH
    Message   <- MsgId,
    published <- UpTo(Lengths),
    stored    <- Rows(raw) \cup Rows(quarantine),
    acked     <- UpTo(committed)

AtLeastOnce == Transfer!Spec
==============================================================================
