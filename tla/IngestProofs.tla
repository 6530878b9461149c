---------------------------- MODULE IngestProofs -----------------------------
(***************************************************************************)
(* Theorems about the drain (Ingest), for every number of partitions,      *)
(* attempts, messages and faults and every batch size; four of them for    *)
(* attempts that took their ingested_at in different seconds, as they say. *)
(***************************************************************************)
EXTENDS Ingest, TLAPS

\* What Put leaves in a store.
LEMMA PutType ==
    ASSUME NEW store \in SUBSET Object, NEW key \in Key, NEW rows \in SUBSET MsgId
    PROVE  Put(store, key, rows) \in SUBSET Object
  BY DEF Put, Object

\* The rows of an object written from a buffer are messages.
LEMMA RangeType ==
    ASSUME NEW s \in Seq(MsgId)
    PROVE  Range(s) \subseteq MsgId
  BY DEF Range

LEMMA KeyType ==
    ASSUME TypeOK, NEW a \in Attempt
    PROVE  ObjectKey(a) \in Key
  BY ConstantsAssumption DEF TypeOK, ObjectKey, Key

LEMMA PutDataType ==
    ASSUME TypeOK, NEW a \in Attempt, PutData(a)
    PROVE  raw' \subseteq Object
  <1>1. CASE buf[a] = <<>>
    BY <1>1 DEF TypeOK, PutData
  <1>2. CASE buf[a] # <<>>
    <2>1. Range(buf[a]) \subseteq MsgId
      BY RangeType DEF TypeOK
    <2> QED
      BY <1>2, <2>1, KeyType, PutType DEF TypeOK, PutData
  <1> QED
    BY <1>1, <1>2

LEMMA PutQuarantineType ==
    ASSUME TypeOK, NEW a \in Attempt, PutQuarantine(a)
    PROVE  quarantine' \subseteq Object
  <1>1. CASE qbuf[a] = <<>>
    BY <1>1 DEF TypeOK, PutQuarantine
  <1>2. CASE qbuf[a] # <<>>
    <2>1. Range(qbuf[a]) \subseteq MsgId
      BY RangeType DEF TypeOK
    <2> QED
      BY <1>2, <2>1, KeyType, PutType DEF TypeOK, PutQuarantine
  <1> QED
    BY <1>1, <1>2

\* An attempt that leaves, or ends, leaves its variables well typed.
LEMMA LeaveType ==
    ASSUME TypeOK, NEW a \in Attempt, Leave(a)
    PROVE  /\ member' \subseteq Attempt
           /\ evicted' \subseteq Attempt
           /\ owner' \in [Partition -> Attempt \cup {None}]
  BY DEF TypeOK, Leave

AttemptsOK ==
    /\ pc \in [Attempt -> PC]
    /\ final \in [Attempt -> BOOLEAN]
    /\ consumed \in [Attempt -> BOOLEAN]
    /\ buf \in [Attempt -> Seq(MsgId)]
    /\ qbuf \in [Attempt -> Seq(MsgId)]
    /\ partNo \in [Attempt -> Nat]

LEMMA EndType ==
    ASSUME TypeOK, NEW a \in Attempt, NEW how \in PC, End(a, how)
    PROVE  AttemptsOK'
  BY DEF TypeOK, End, AttemptsOK

------------------------------------------------------------------------------
\* Every step keeps the types.
LEMMA TypeStep == TypeOK /\ [Next]_vars => TypeOK'
  <1> SUFFICES ASSUME TypeOK, [Next]_vars PROVE TypeOK'
    OBVIOUS
  <1> USE DEF broker, attempts, stores
  <1>0. PC = {"poll", "flush", "qflush", "commit", "idle", "done", "failed", "crashed"}
    BY DEF PC, Live
  <1>1. ASSUME NEW p \in Partition, Publish(p) PROVE TypeOK'
    <2>1. log' \in [Partition -> Seq(Kind)]
      BY <1>1 DEF TypeOK, Publish
    <2> QED
      BY <1>1, <2>1 DEF TypeOK, Publish
  <1>2. CASE Rebalance
    <2>1. faults' \in Nat
      BY <1>2 DEF TypeOK, Rebalance, Fault
    <2>2. member' \subseteq Attempt /\ evicted' \subseteq Attempt
      BY <1>2 DEF TypeOK, Rebalance
    <2>3. owner' \in [Partition -> Attempt \cup {None}]
      BY <1>2 DEF TypeOK, Rebalance
    <2>4. pos' \in [Partition -> Nat] /\ reread' \in BOOLEAN
      BY <1>2 DEF TypeOK, Rebalance, ResumeAt
    <2>5. UNCHANGED <<log, committed, pc, final, consumed, buf, qbuf, partNo, raw, quarantine>>
      BY <1>2 DEF Rebalance
    <2> QED
      BY <2>1, <2>2, <2>3, <2>4, <2>5 DEF TypeOK
  <1>3. ASSUME NEW a \in Attempt, Start(a) PROVE TypeOK'
    BY <1>0, <1>3 DEF TypeOK, Start
  <1>4. ASSUME NEW a \in Attempt, NEW p \in Partition, NEW n \in 1..Len(log[p]), Buffer(a, p, n)
        PROVE TypeOK'
    <2>1. <<p, n>> \in MsgId
      BY DEF MsgId, TypeOK
    <2>2. buf' \in [Attempt -> Seq(MsgId)]
      BY <1>4, <2>1 DEF TypeOK, Buffer
    <2>3. pos' \in [Partition -> Nat] /\ consumed' \in [Attempt -> BOOLEAN]
      <3>1. n \in Nat
        BY DEF TypeOK
      <3> QED
        BY <1>4, <3>1 DEF TypeOK, Buffer, Poll
    <2>4. pc' \in [Attempt -> PC]
      BY <1>0, <1>4 DEF TypeOK, Buffer
    <2>5. UNCHANGED <<log, committed, member, evicted, owner, final, qbuf, partNo,
                      raw, quarantine, reread, faults>>
      BY <1>4 DEF Buffer, Poll
    <2> QED
      BY <2>2, <2>3, <2>4, <2>5 DEF TypeOK
  <1>5. ASSUME NEW a \in Attempt, NEW p \in Partition, NEW n \in 1..Len(log[p]), Quarantine(a, p, n)
        PROVE TypeOK'
    <2>1. <<p, n>> \in MsgId
      BY DEF MsgId, TypeOK
    <2>2. qbuf' \in [Attempt -> Seq(MsgId)]
      BY <1>5, <2>1 DEF TypeOK, Quarantine
    <2>3. pos' \in [Partition -> Nat] /\ consumed' \in [Attempt -> BOOLEAN]
      <3>1. n \in Nat
        BY DEF TypeOK
      <3> QED
        BY <1>5, <3>1 DEF TypeOK, Quarantine, Poll
    <2>4. pc' \in [Attempt -> PC]
      BY <1>0, <1>5 DEF TypeOK, Quarantine
    <2>5. UNCHANGED <<log, committed, member, evicted, owner, final, buf, partNo,
                      raw, quarantine, reread, faults>>
      BY <1>5 DEF Quarantine, Poll
    <2> QED
      BY <2>2, <2>3, <2>4, <2>5 DEF TypeOK
  <1>6. ASSUME NEW a \in Attempt, Idle(a) PROVE TypeOK'
    <2>1. pc' \in [Attempt -> PC]
      BY <1>0, <1>6 DEF TypeOK, Idle
    <2>2. /\ member' \subseteq Attempt
          /\ evicted' \subseteq Attempt
          /\ owner' \in [Partition -> Attempt \cup {None}]
      BY <1>6, LeaveType DEF TypeOK, Idle
    <2> QED
      BY <1>6, <2>1, <2>2 DEF TypeOK, Idle, LeaveLoop
  <1>7. ASSUME NEW a \in Attempt, FlushData(a) PROVE TypeOK'
    <2>1. raw' \subseteq Object
      BY <1>7, PutDataType DEF FlushData
    <2> QED
      BY <1>0, <1>7, <2>1 DEF TypeOK, FlushData
  <1>8. ASSUME NEW a \in Attempt, FlushQuarantine(a) PROVE TypeOK'
    <2>1. quarantine' \subseteq Object
      BY <1>8, PutQuarantineType DEF FlushQuarantine
    <2> QED
      BY <1>0, <1>8, <2>1 DEF TypeOK, FlushQuarantine
  <1>9. ASSUME NEW a \in Attempt, FlushMisfit(a) PROVE TypeOK'
    <2>1. raw' \subseteq Object
      <3>1. Put(raw, ObjectKey(a), {}) \subseteq Object
        BY KeyType, PutType DEF TypeOK
      <3> QED
        BY <1>9, <3>1 DEF FlushMisfit, TypeOK
    <2> QED
      BY <1>0, <1>9, <2>1, LeaveType, EndType DEF FlushMisfit, Raise, TypeOK, AttemptsOK
  <1>11. ASSUME NEW a \in Attempt PROVE NewOffsets(a) \in [Partition -> Nat]
    BY DEF TypeOK, NewOffsets
  <1>12. ASSUME NEW a \in Attempt, AfterCommit(a) \/ Raise(a)
         PROVE  /\ AttemptsOK'
                /\ member' \subseteq Attempt
                /\ evicted' \subseteq Attempt
                /\ owner' \in [Partition -> Attempt \cup {None}]
    <2>1. CASE AfterCommit(a) /\ ~final[a]
      BY <1>0, <2>1 DEF AfterCommit, AttemptsOK, TypeOK
    <2>2. CASE AfterCommit(a) /\ final[a]
      BY <1>0, <2>2, LeaveType, EndType DEF AfterCommit
    <2>3. CASE Raise(a)
      BY <1>0, <2>3, LeaveType, EndType DEF Raise
    <2> QED
      BY <1>12, <2>1, <2>2, <2>3
  <1>13. ASSUME NEW a \in Attempt, Commit(a) PROVE TypeOK'
    BY <1>11, <1>12, <1>13 DEF Commit, TypeOK, AttemptsOK
  <1>14. ASSUME NEW a \in Attempt, CommitNothing(a) PROVE TypeOK'
    BY <1>12, <1>14 DEF CommitNothing, TypeOK, AttemptsOK
  <1>15. ASSUME NEW a \in Attempt, CommitFenced(a) PROVE TypeOK'
    BY <1>12, <1>15 DEF CommitFenced, TypeOK, AttemptsOK
  <1>16. ASSUME NEW a \in Attempt, CommitError(a) PROVE TypeOK'
    <2>1. committed' \in [Partition -> Nat]
      BY <1>11, <1>16 DEF CommitError, TypeOK
    <2>2. faults' \in Nat
      BY <1>16 DEF CommitError, Fault, TypeOK
    <2>3. Raise(a) /\ UNCHANGED <<log, pos, raw, quarantine, reread>>
      BY <1>16 DEF CommitError
    <2> QED
      BY <1>12, <2>1, <2>2, <2>3 DEF TypeOK, AttemptsOK
  <1>17. ASSUME NEW a \in Attempt, PollError(a) PROVE TypeOK'
    BY <1>12, <1>17 DEF PollError, Fault, TypeOK, AttemptsOK
  <1>18. ASSUME NEW a \in Attempt, WriteError(a) PROVE TypeOK'
    <2>1. raw' \subseteq Object /\ quarantine' \subseteq Object
      <3>1. /\ Put(raw, ObjectKey(a), {}) \subseteq Object
            /\ Put(quarantine, ObjectKey(a), {}) \subseteq Object
        BY KeyType, PutType DEF TypeOK
      <3> QED
        BY <1>18, <3>1, PutDataType, PutQuarantineType DEF WriteError, TypeOK
    <2> QED
      BY <1>12, <1>18, <2>1 DEF WriteError, Fault, TypeOK, AttemptsOK
  <1>19. ASSUME NEW a \in Attempt, Crash(a) PROVE TypeOK'
    BY <1>0, <1>19, EndType DEF Crash, Fault, TypeOK, AttemptsOK
  <1>20. CASE UNCHANGED vars
    BY <1>20 DEF vars, TypeOK
  <1> QED
    BY <1>1, <1>2, <1>3, <1>4, <1>5, <1>6, <1>7, <1>8, <1>9, <1>13, <1>14, <1>15,
       <1>16, <1>17, <1>18, <1>19, <1>20 DEF Next, Step, Failure

\* Type correctness: every variable keeps its type whatever the members, the
\* faults and the batch size (Ingest!TypeOK).
THEOREM TypeCorrect == Spec => []TypeOK
  <1>1. Init => TypeOK
    <2> SUFFICES ASSUME Init PROVE TypeOK
      OBVIOUS
    <2>1. <<>> \in Seq(Kind) /\ <<>> \in Seq(MsgId)
      OBVIOUS
    <2>2. log \in [Partition -> Seq(Kind)]
      BY <2>1 DEF Init
    <2>3. buf \in [Attempt -> Seq(MsgId)] /\ qbuf \in [Attempt -> Seq(MsgId)]
      BY <2>1 DEF Init
    <2> QED
      BY <2>2, <2>3 DEF Init, TypeOK, PC, Live
  <1> QED
    BY <1>1, TypeStep, PTL DEF Spec

------------------------------------------------------------------------------
\* An object put under a fresh key is added to the store and replaces nothing.
LEMMA PutFresh ==
    ASSUME NEW store, NEW key, NEW rows, \A o \in store : o.key # key
    PROVE  /\ Put(store, key, rows) = store \cup {[key |-> key, rows |-> rows]}
           /\ Rows(Put(store, key, rows)) = Rows(store) \cup rows
  <1>1. Put(store, key, rows) = store \cup {[key |-> key, rows |-> rows]}
    BY DEF Put
  <1>2. \A new : Rows(store \cup {new}) = Rows(store) \cup new.rows
    BY DEF Rows
  <1> QED
    BY <1>1, <1>2

\* The two flush steps only add to the stores.
LEMMA PutDataAdds ==
    ASSUME TypeOK, FreshKeys, NEW a \in Attempt, pc[a] = "flush", PutData(a)
    PROVE  /\ raw \subseteq raw'
           /\ \A o \in raw' \ raw : o.key = ObjectKey(a)
           /\ Rows(raw') = Rows(raw) \cup Range(buf[a])
  <1>1. CASE buf[a] = <<>>
    BY <1>1 DEF PutData, Range, Rows
  <1>2. CASE buf[a] # <<>>
    <2>1. \A o \in raw : o.key # ObjectKey(a)
      <3>1. pc[a] \in Running /\ partNo[a] \in Nat
        BY DEF Running, Live, TypeOK
      <3> QED
        BY <3>1 DEF FreshKeys, ObjectKey
    <2> QED
      BY <1>2, <2>1, PutFresh DEF PutData
  <1> QED
    BY <1>1, <1>2

LEMMA PutQuarantineAdds ==
    ASSUME TypeOK, FreshKeys, NEW a \in Attempt, pc[a] = "qflush", PutQuarantine(a)
    PROVE  /\ quarantine \subseteq quarantine'
           /\ \A o \in quarantine' \ quarantine : o.key = ObjectKey(a)
           /\ Rows(quarantine') = Rows(quarantine) \cup Range(qbuf[a])
  <1>1. CASE qbuf[a] = <<>>
    BY <1>1 DEF PutQuarantine, Range, Rows
  <1>2. CASE qbuf[a] # <<>>
    <2>1. \A o \in quarantine : o.key # ObjectKey(a)
      <3>1. pc[a] \in Running /\ partNo[a] \in Nat
        BY DEF Running, Live, TypeOK
      <3> QED
        BY <3>1 DEF FreshKeys, ObjectKey
    <2> QED
      BY <1>2, <2>1, PutFresh DEF PutQuarantine
  <1> QED
    BY <1>1, <1>2

\* A truncated object takes a fresh key, too, and adds no row.
LEMMA TornAdds ==
    ASSUME TypeOK, FreshKeys, NEW a \in Attempt, NEW store,
           \/ pc[a] = "flush" /\ store = raw
           \/ pc[a] = "qflush" /\ store = quarantine
    PROVE  /\ store \subseteq Put(store, ObjectKey(a), {})
           /\ \A o \in Put(store, ObjectKey(a), {}) \ store : o.key = ObjectKey(a)
           /\ Rows(Put(store, ObjectKey(a), {})) = Rows(store)
  <1>1. \A o \in store : o.key # ObjectKey(a)
    <2>1. pc[a] \in Running /\ partNo[a] \in Nat
      BY DEF Running, Live, TypeOK
    <2> QED
      BY <2>1 DEF FreshKeys, ObjectKey
  <1>2. Put(store, ObjectKey(a), {}) = store \cup {[key |-> ObjectKey(a), rows |-> {}]}
    BY <1>1 DEF Put
  <1>3. Rows(store \cup {[key |-> ObjectKey(a), rows |-> {}]}) = Rows(store)
    BY DEF Rows
  <1> QED
    BY <1>2, <1>3

\* What a step does to the stores.
LEMMA StoresGrow ==
    ASSUME TypeOK, FreshKeys, [Next]_vars
    PROVE  raw \subseteq raw' /\ quarantine \subseteq quarantine'
  <1> USE DEF broker, attempts, stores
  <1>1. ASSUME NEW a \in Attempt, FlushData(a) \/ FlushQuarantine(a) \/ FlushMisfit(a) \/ WriteError(a)
        PROVE  raw \subseteq raw' /\ quarantine \subseteq quarantine'
    <2>1. pc[a] = "flush" => raw \subseteq Put(raw, ObjectKey(a), {})
      BY TornAdds
    <2>2. pc[a] = "qflush" => quarantine \subseteq Put(quarantine, ObjectKey(a), {})
      BY TornAdds
    <2>3. CASE FlushMisfit(a) \/ WriteError(a)
      BY <2>1, <2>2, <2>3, PutDataAdds, PutQuarantineAdds DEF FlushMisfit, WriteError
    <2>4. CASE FlushData(a) \/ FlushQuarantine(a)
      BY <2>4, PutDataAdds, PutQuarantineAdds DEF FlushData, FlushQuarantine
    <2> QED
      BY <1>1, <2>3, <2>4
  <1>2. ASSUME NEW a \in Attempt,
               \/ Start(a) \/ Idle(a) \/ Commit(a) \/ CommitNothing(a) \/ CommitFenced(a)
               \/ PollError(a) \/ CommitError(a) \/ Crash(a)
        PROVE  UNCHANGED stores
    BY <1>2 DEF Start, Idle, Commit, CommitNothing, CommitFenced, PollError, CommitError, Crash
  <1>3. ASSUME NEW a \in Attempt, NEW p \in Partition, NEW n \in 1..Len(log[p]),
               Buffer(a, p, n) \/ Quarantine(a, p, n)
        PROVE  UNCHANGED stores
    BY <1>3 DEF Buffer, Quarantine, Poll
  <1>4. ASSUME Rebalance \/ \E p \in Partition : Publish(p) PROVE UNCHANGED stores
    BY <1>4 DEF Rebalance, Publish
  <1>5. CASE UNCHANGED vars
    BY <1>5 DEF vars
  <1> QED
    BY <1>1, <1>2, <1>3, <1>4, <1>5 DEF Next, Step, Failure

\* A step that writes nothing, and sends no process to "qflush" but one whose
\* data object has just been skipped, keeps the keys fresh.
LEMMA FreshKeysFrame ==
    ASSUME TypeOK, FreshKeys, UNCHANGED <<raw, quarantine, partNo>>,
           \A b \in Attempt : pc'[b] \in Running =>
               pc[b] \in Running /\ (pc[b] = "qflush" => pc'[b] = "qflush")
    PROVE  FreshKeys'
  BY DEF FreshKeys

\* One process ends; the others stay where they are.
LEMMA EndPc ==
    ASSUME TypeOK, NEW a \in Attempt, NEW how \in PC \ Running, End(a, how)
    PROVE  \A b \in Attempt : pc'[b] \in Running => b # a /\ pc[b] = pc'[b]
  BY DEF TypeOK, End

LEMMA FreshKeysStep ==
    ASSUME DistinctStamps, TypeOK, FreshKeys, [Next]_vars
    PROVE  FreshKeys'
  <1> USE DEF broker, attempts, stores
  <1>0. /\ Running = {"poll", "flush", "qflush", "commit", "idle"}
        /\ {"done", "failed", "crashed"} \subseteq PC \ Running
    BY DEF Running, Live, PC
  <1>1. ASSUME NEW a \in Attempt, FlushData(a) PROVE FreshKeys'
    <2>1. SUFFICES ASSUME NEW b \in Attempt, pc'[b] \in Running, NEW o \in raw', o.key[1] = Stamp[b]
                   PROVE  o.key[2] < partNo[b] \/ (pc'[b] = "qflush" /\ o.key[2] = partNo[b])
      BY <1>0, <1>1 DEF FreshKeys, FlushData, TypeOK
    <2>2. CASE o \in raw
      BY <1>0, <1>1, <2>1, <2>2 DEF FreshKeys, FlushData, TypeOK
    <2>3. CASE o \notin raw
      <3>1. o.key = ObjectKey(a)
        BY <1>1, <2>3, PutDataAdds DEF FlushData
      <3>2. b = a
        BY <2>1, <3>1 DEF ObjectKey, DistinctStamps
      <3> QED
        BY <1>1, <3>1, <3>2 DEF FlushData, ObjectKey, TypeOK
    <2> QED
      BY <2>2, <2>3
  <1>2. ASSUME NEW a \in Attempt, FlushQuarantine(a) PROVE FreshKeys'
    <2>1. partNo[a] \in Nat /\ partNo' = [partNo EXCEPT ![a] = partNo[a] + 1]
      BY <1>2 DEF FlushQuarantine, TypeOK
    <2>2. ASSUME NEW b \in Attempt, pc'[b] \in Running, NEW o \in raw, o.key[1] = Stamp[b]
          PROVE  o.key[2] < partNo'[b] \/ (pc'[b] = "qflush" /\ o.key[2] = partNo'[b])
      <3>1. o.key[2] \in Nat
        BY DEF TypeOK, Object, Key
      <3>2. CASE b = a
        <4>1. o.key[2] < partNo[a] \/ o.key[2] = partNo[a]
          BY <1>0, <1>2, <2>2, <3>2 DEF FreshKeys, FlushQuarantine
        <4>2. partNo'[a] = partNo[a] + 1
          BY <2>1 DEF TypeOK
        <4> QED
          BY <2>1, <3>1, <3>2, <4>1, <4>2
      <3>3. CASE b # a
        BY <1>0, <1>2, <2>1, <2>2, <3>3 DEF FreshKeys, FlushQuarantine, TypeOK
      <3> QED
        BY <3>2, <3>3
    <2>3. ASSUME NEW b \in Attempt, pc'[b] \in Running, NEW o \in quarantine', o.key[1] = Stamp[b]
          PROVE  o.key[2] < partNo'[b]
      <3>1. CASE o \in quarantine
        <4>1. o.key[2] \in Nat /\ partNo[b] \in Nat
          BY <3>1 DEF TypeOK, Object, Key
        <4>2. pc[b] \in Running
          BY <1>0, <1>2, <2>3 DEF FlushQuarantine, TypeOK
        <4> QED
          BY <2>1, <2>3, <3>1, <4>1, <4>2 DEF FreshKeys, TypeOK
      <3>2. CASE o \notin quarantine
        <4>1. o.key = ObjectKey(a)
          BY <1>2, <3>2, PutQuarantineAdds DEF FlushQuarantine
        <4>2. b = a
          BY <2>3, <4>1 DEF ObjectKey, DistinctStamps
        <4> QED
          BY <2>1, <4>1, <4>2 DEF ObjectKey, TypeOK
      <3> QED
        BY <3>1, <3>2
    <2>4. raw' = raw
      BY <1>2 DEF FlushQuarantine
    <2> QED
      BY <2>2, <2>3, <2>4 DEF FreshKeys
  <1>3. ASSUME NEW a \in Attempt, FlushMisfit(a) \/ WriteError(a) PROVE FreshKeys'
    <2>1. /\ \A o \in raw' \ raw : o.key = ObjectKey(a)
          /\ \A o \in quarantine' \ quarantine : o.key = ObjectKey(a)
      BY <1>3, PutDataAdds, PutQuarantineAdds, TornAdds DEF FlushMisfit, WriteError
    <2>2. \A b \in Attempt : pc'[b] \in Running => b # a /\ pc[b] = pc'[b]
      BY <1>0, <1>3, EndPc DEF FlushMisfit, WriteError, Raise
    <2>3. partNo' = partNo
      BY <1>3 DEF FlushMisfit, WriteError, Raise, End
    <2>4. \A b \in Attempt : b # a => Stamp[b] # ObjectKey(a)[1]
      BY DEF DistinctStamps, ObjectKey
    <2> QED
      BY <2>1, <2>2, <2>3, <2>4 DEF FreshKeys
  <1>4. ASSUME NEW a \in Attempt, PollError(a) PROVE FreshKeys'
    BY <1>0, <1>4, EndPc, FreshKeysFrame DEF PollError, Raise, End
  <1>5. ASSUME NEW a \in Attempt, AfterCommit(a) \/ Raise(a), pc[a] = "commit", UNCHANGED stores
        PROVE  FreshKeys'
    <2>1. partNo' = partNo
      BY <1>5 DEF AfterCommit, Raise, End
    <2>2. \A b \in Attempt : pc'[b] \in Running => pc[b] \in Running /\ (pc[b] = "qflush" => pc'[b] = "qflush")
      <3>1. CASE Raise(a) \/ final[a]
        BY <1>0, <1>5, <3>1, EndPc DEF AfterCommit, Raise
      <3>2. CASE AfterCommit(a) /\ ~final[a]
        BY <1>0, <1>5, <3>2 DEF AfterCommit, TypeOK
      <3> QED
        BY <1>5, <3>1, <3>2
    <2> QED
      BY <1>5, <2>1, <2>2, FreshKeysFrame
  <1>6. ASSUME NEW a \in Attempt, Commit(a) \/ CommitNothing(a) \/ CommitFenced(a) \/ CommitError(a)
        PROVE  FreshKeys'
    BY <1>5, <1>6 DEF Commit, CommitNothing, CommitFenced, CommitError
  <1>7. ASSUME NEW a \in Attempt, Crash(a) PROVE FreshKeys'
    BY <1>0, <1>7, EndPc, FreshKeysFrame DEF Crash, End
  <1>8. ASSUME NEW a \in Attempt, NEW p \in Partition, NEW n \in 1..Len(log[p]),
               Buffer(a, p, n) \/ Quarantine(a, p, n)
        PROVE  FreshKeys'
    <2>1. \A b \in Attempt : pc'[b] \in Running => pc[b] \in Running /\ (pc[b] = "qflush" => pc'[b] = "qflush")
      BY <1>0, <1>8 DEF Buffer, Quarantine, Poll, TypeOK
    <2> QED
      BY <1>8, <2>1, FreshKeysFrame DEF Buffer, Quarantine, Poll
  <1>9. ASSUME NEW a \in Attempt, Start(a) \/ Idle(a) PROVE FreshKeys'
    <2>1. \A b \in Attempt : pc'[b] \in Running => pc[b] \in Running /\ (pc[b] = "qflush" => pc'[b] = "qflush")
      BY <1>0, <1>9 DEF Start, Idle, TypeOK
    <2> QED
      BY <1>9, <2>1, FreshKeysFrame DEF Start, Idle
  <1>10. CASE Rebalance \/ (\E p \in Partition : Publish(p)) \/ UNCHANGED vars
    BY <1>10, FreshKeysFrame DEF Rebalance, Publish, vars
  <1> QED
    BY <1>1, <1>2, <1>3, <1>4, <1>6, <1>7, <1>8, <1>9, <1>10 DEF Next, Step, Failure

\* Raw is append-only (Ingest!AppendOnly): when no two attempts took their
\* ingested_at in one second, no step removes or replaces an object.
THEOREM RawIsAppendOnly == ASSUME DistinctStamps PROVE Spec => AppendOnly
  <1>1. Init => FreshKeys
    BY DEF Init, FreshKeys
  <1>2. TypeOK /\ FreshKeys /\ [Next]_vars => FreshKeys'
    BY FreshKeysStep
  <1>3. TypeOK /\ FreshKeys /\ [Next]_vars => [raw \subseteq raw' /\ quarantine \subseteq quarantine']_vars
    BY StoresGrow
  <1> QED
    BY <1>1, <1>2, <1>3, TypeCorrect, PTL DEF Spec, AppendOnly

------------------------------------------------------------------------------
\* The log is append-only: a message keeps its kind.
LEMMA LogGrows ==
    ASSUME TypeOK, [Next]_vars
    PROVE  \A p \in Partition : \A n \in 1..Len(log[p]) :
               n <= Len(log'[p]) /\ log'[p][n] = log[p][n]
  <1> USE DEF broker, attempts, stores
  <1>1. ASSUME NEW q \in Partition, Publish(q)
        PROVE  \A p \in Partition : \A n \in 1..Len(log[p]) :
                   n <= Len(log'[p]) /\ log'[p][n] = log[p][n]
    BY <1>1 DEF Publish, TypeOK
  <1>2. CASE log' = log
    BY <1>2 DEF TypeOK
  <1>3. ASSUME NEW a \in Attempt, Start(a) \/ Failure(a) PROVE log' = log
    BY <1>3 DEF Start, Failure, PollError, WriteError, CommitError, Crash
  <1>4. ASSUME NEW a \in Attempt, Step(a) PROVE log' = log
    BY <1>4 DEF Step, Buffer, Quarantine, Poll, Idle, FlushData, FlushMisfit,
       FlushQuarantine, Commit, CommitNothing, CommitFenced
  <1>5. CASE Rebalance \/ UNCHANGED vars
    BY <1>2, <1>5 DEF Rebalance, vars
  <1> QED
    BY <1>1, <1>2, <1>3, <1>4, <1>5 DEF Next

\* Owners and positions.
LEMMA GroupStep ==
    ASSUME TypeOK, OwnersAreMembers, Positions, [Next]_vars
    PROVE  OwnersAreMembers' /\ Positions'
  <1> USE DEF broker, attempts, stores
  <1>0. ASSUME NEW a \in Attempt, Leave(a), pc'[a] # "idle",
               \A b \in Attempt : b # a => pc'[b] = pc[b]
        PROVE  OwnersAreMembers'
    BY <1>0 DEF Leave, OwnersAreMembers, TypeOK
  <1>1. ASSUME NEW a \in Attempt, NEW how \in PC, End(a, how)
        PROVE  pc'[a] = how /\ \A b \in Attempt : b # a => pc'[b] = pc[b]
    BY <1>1 DEF End, TypeOK
  <1>2. ASSUME NEW a \in Attempt, Raise(a) PROVE OwnersAreMembers'
    BY <1>0, <1>1, <1>2 DEF Raise, PC
  <1>3. ASSUME NEW a \in Attempt, AfterCommit(a) PROVE OwnersAreMembers'
    <2>1. CASE final[a]
      BY <1>0, <1>1, <1>3, <2>1 DEF AfterCommit, PC
    <2>2. CASE ~final[a]
      BY <1>3, <2>2 DEF AfterCommit, OwnersAreMembers, TypeOK
    <2> QED
      BY <2>1, <2>2
  <1>4. ASSUME NEW a \in Attempt PROVE
          \A p \in Partition : committed[p] <= NewOffsets(a)[p] /\ NewOffsets(a)[p] <= pos[p]
    BY DEF NewOffsets, Positions, TypeOK
  <1>5. ASSUME UNCHANGED <<log, committed, pos>> PROVE Positions'
    BY <1>5 DEF Positions
  <1>n. \A p \in Partition : committed[p] \in Nat /\ pos[p] \in Nat /\ Len(log[p]) \in Nat
    BY DEF TypeOK
  <1>6. ASSUME NEW p \in Partition, Publish(p) PROVE OwnersAreMembers' /\ Positions'
    <2>1. OwnersAreMembers'
      BY <1>6 DEF Publish, OwnersAreMembers
    <2>2. \A q \in Partition : Len(log[q]) <= Len(log'[q]) /\ Len(log'[q]) \in Nat
      BY <1>6 DEF Publish, TypeOK
    <2>3. UNCHANGED <<committed, pos>>
      BY <1>6 DEF Publish
    <2> QED
      BY <1>n, <2>1, <2>2, <2>3 DEF Positions
  <1>7. CASE Rebalance
    <2>1. PICK M \in SUBSET {a \in Attempt : pc[a] = "poll"} :
             member' = M /\ owner' \in [Partition -> M] /\ pc' = pc
      BY <1>7 DEF Rebalance
    <2>2. OwnersAreMembers'
      BY <2>1 DEF OwnersAreMembers
    <2>3. pos' = committed /\ UNCHANGED <<log, committed>>
      BY <1>7 DEF Rebalance, ResumeAt
    <2>5. Positions'
      BY <1>n, <2>3 DEF Positions
    <2> QED
      BY <2>2, <2>5
  <1>8. ASSUME NEW a \in Attempt, NEW p \in Partition, NEW n \in 1..Len(log[p]), Poll(a, p, n),
               pc' \in [Attempt -> PC \ {"idle"}] \/ \A b \in Attempt : pc'[b] = "idle" => pc[b] = "idle"
        PROVE  OwnersAreMembers' /\ Positions'
    <2>1. OwnersAreMembers'
      BY <1>8 DEF Poll, OwnersAreMembers, TypeOK
    <2>2. n \in Nat /\ n <= Len(log[p]) /\ UNCHANGED <<log, committed>>
      BY <1>8, <1>n DEF Poll
    <2>3. pos' = pos \/ (n = pos[p] + 1 /\ pos' = [pos EXCEPT ![p] = n])
      BY <1>8 DEF Poll
    <2>4. \A q \in Partition : pos'[q] = pos[q] \/ (q = p /\ n = pos[p] + 1 /\ pos'[q] = n)
      BY <2>3 DEF TypeOK
    <2>5. Positions'
      BY <1>n, <2>2, <2>4 DEF Positions
    <2> QED
      BY <2>1, <2>5
  <1>9. ASSUME NEW a \in Attempt, NEW p \in Partition, NEW n \in 1..Len(log[p]),
               Buffer(a, p, n) \/ Quarantine(a, p, n)
        PROVE  OwnersAreMembers' /\ Positions'
    <2>1. \A b \in Attempt : pc'[b] = "idle" => pc[b] = "idle"
      BY <1>9 DEF Buffer, Quarantine, TypeOK
    <2> QED
      BY <1>8, <1>9, <2>1 DEF Buffer, Quarantine
  <1>10. ASSUME NEW a \in Attempt, Start(a) \/ FlushData(a) \/ FlushQuarantine(a) \/ Crash(a)
         PROVE  OwnersAreMembers' /\ Positions'
    <2>1. \A b \in Attempt : pc'[b] = "idle" => pc[b] = "idle"
      BY <1>10 DEF Start, FlushData, FlushQuarantine, Crash, End, TypeOK
    <2>2. UNCHANGED <<owner, member, log, committed, pos>>
      BY <1>10 DEF Start, FlushData, FlushQuarantine, Crash
    <2>3. OwnersAreMembers'
      BY <2>1, <2>2 DEF OwnersAreMembers, TypeOK
    <2> QED
      BY <1>5, <2>2, <2>3
  <1>11. ASSUME NEW a \in Attempt, Idle(a) PROVE OwnersAreMembers' /\ Positions'
    <2>1. \A b \in Attempt : b # a => pc'[b] = pc[b]
      BY <1>11 DEF Idle, TypeOK
    <2>2. pc'[a] # "idle"
      BY <1>11 DEF Idle, TypeOK
    <2>3. Leave(a) \/ UNCHANGED <<member, owner>>
      BY <1>11 DEF Idle
    <2>4. OwnersAreMembers'
      BY <1>0, <2>1, <2>2, <2>3 DEF OwnersAreMembers, TypeOK
    <2> QED
      BY <1>5, <1>11, <2>4 DEF Idle
  <1>12. ASSUME NEW a \in Attempt, FlushMisfit(a) \/ PollError(a) \/ WriteError(a)
         PROVE  OwnersAreMembers' /\ Positions'
    BY <1>2, <1>5, <1>12 DEF FlushMisfit, PollError, WriteError
  <1>13. ASSUME NEW a \in Attempt, CommitNothing(a) \/ CommitFenced(a)
         PROVE  OwnersAreMembers' /\ Positions'
    BY <1>2, <1>3, <1>5, <1>13 DEF CommitNothing, CommitFenced
  <1>14. ASSUME NEW a \in Attempt, Commit(a) \/ CommitError(a)
         PROVE  OwnersAreMembers' /\ Positions'
    <2>1. UNCHANGED <<log, pos>> /\ committed' \in {committed, NewOffsets(a)}
      BY <1>14 DEF Commit, CommitError
    <2>2. Positions'
      BY <1>4, <2>1 DEF Positions
    <2> QED
      BY <1>2, <1>3, <1>14, <2>2 DEF Commit, CommitError
  <1>15. CASE UNCHANGED vars
    BY <1>15 DEF vars, OwnersAreMembers, Positions
  <1> QED
    BY <1>6, <1>7, <1>9, <1>10, <1>11, <1>12, <1>13, <1>14, <1>15 DEF Next, Step, Failure

\* Committed offsets never go back.
LEMMA CommittedGrows ==
    ASSUME TypeOK, Positions, [Next]_vars
    PROVE  \A p \in Partition : committed[p] <= committed'[p]
  <1> USE DEF broker, attempts, stores
  <1>1. CASE committed' = committed
    BY <1>1 DEF TypeOK
  <1>2. ASSUME NEW a \in Attempt, committed' \in {committed, NewOffsets(a)}
        PROVE  \A p \in Partition : committed[p] <= committed'[p]
    <2>1. \A p \in Partition : NewOffsets(a)[p] \in {committed[p], pos[p]}
      BY DEF NewOffsets
    <2>2. \A p \in Partition : committed[p] \in Nat /\ committed[p] <= pos[p]
      BY DEF Positions, TypeOK
    <2> QED
      BY <1>2, <2>1, <2>2
  <1>3. ASSUME NEW a \in Attempt, Start(a) \/ Failure(a)
        PROVE  committed' \in {committed, NewOffsets(a)}
    BY <1>3 DEF Start, Failure, PollError, WriteError, CommitError, Crash
  <1>4. ASSUME NEW a \in Attempt, Step(a) PROVE committed' \in {committed, NewOffsets(a)}
    BY <1>4 DEF Step, Buffer, Quarantine, Poll, Idle, FlushData, FlushMisfit,
       FlushQuarantine, Commit, CommitNothing, CommitFenced
  <1>5. CASE Rebalance \/ (\E p \in Partition : Publish(p)) \/ UNCHANGED vars
    <2>1. committed' = committed
      BY <1>5 DEF Rebalance, Publish, vars
    <2> QED
      BY <1>1, <2>1
  <1> QED
    BY <1>1, <1>2, <1>3, <1>4, <1>5 DEF Next

\* No step takes a committed offset back (Ingest!CommittedNeverDecreases), with
\* any number of overlapping attempts, evictions and refused or lost commits.
THEOREM CommitsNeverGoBack == Spec => CommittedNeverDecreases
  <1>1. Init => OwnersAreMembers /\ Positions
    BY DEF Init, OwnersAreMembers, Positions
  <1>2. TypeOK /\ OwnersAreMembers /\ Positions /\ [Next]_vars => OwnersAreMembers' /\ Positions'
    BY GroupStep
  <1>3. TypeOK /\ Positions /\ [Next]_vars
           => [\A p \in Partition : committed[p] <= committed'[p]]_vars
    BY CommittedGrows
  <1> QED
    BY <1>1, <1>2, <1>3, TypeCorrect, PTL DEF Spec, CommittedNeverDecreases

------------------------------------------------------------------------------
\* On the way to a commit of the loop, with rows of this batch.
OnTheWay(a) == pc[a] \in {"flush", "qflush", "commit"} /\ ~final[a]

\* A step that brings nobody into the group, sets nobody on the way to a commit,
\* and leaves the partitions of those who are to them.
LEMMA ReadyFrame ==
    ASSUME ReadyToCommit, UNCHANGED pos, member' \subseteq member, evicted' \subseteq evicted,
           \A b \in member' : OnTheWay(b)' =>
               /\ OnTheWay(b)
               /\ \A p \in Partition : owner[p] = b => owner'[p] = b /\ committed'[p] = committed[p]
    PROVE  ReadyToCommit'
  BY DEF ReadyToCommit, OnTheWay, HasOffset, Owned

\* A process that ends and leaves takes nothing from the others.
LEMMA ReadyEnd ==
    ASSUME TypeOK, ReadyToCommit, UNCHANGED pos, NEW a \in Attempt, Leave(a),
           committed' \in {committed, NewOffsets(a)},
           \A b \in Attempt : b # a => pc'[b] = pc[b] /\ final'[b] = final[b]
    PROVE  ReadyToCommit'
  <1>1. member' = member \ {a} /\ evicted' \subseteq evicted /\ member \subseteq Attempt
    BY DEF Leave, TypeOK
  <1>2. \A p \in Partition : owner[p] # a => owner'[p] = owner[p] /\ committed'[p] = committed[p]
    BY DEF Leave, NewOffsets, TypeOK
  <1> QED
    BY <1>1, <1>2, ReadyFrame DEF OnTheWay

LEMMA ReadyStep ==
    ASSUME TypeOK, Positions, OwnersAreMembers, ReadyToCommit, [Next]_vars
    PROVE  ReadyToCommit'
  <1> USE DEF broker, attempts, stores
  <1>0. member \subseteq Attempt
    BY DEF TypeOK
  <1>1. ASSUME NEW a \in Attempt, Raise(a), UNCHANGED pos, committed' \in {committed, NewOffsets(a)}
        PROVE  ReadyToCommit'
    <2>1. \A b \in Attempt : b # a => pc'[b] = pc[b] /\ final'[b] = final[b]
      BY <1>1 DEF Raise, End, TypeOK
    <2> QED
      BY <1>1, <2>1, ReadyEnd DEF Raise
  <1>2. ASSUME NEW a \in Attempt, AfterCommit(a), UNCHANGED pos, committed' \in {committed, NewOffsets(a)}
        PROVE  ReadyToCommit'
    <2>1. \A b \in Attempt : b # a => pc'[b] = pc[b] /\ final'[b] = final[b]
      BY <1>2 DEF AfterCommit, End, TypeOK
    <2>2. CASE final[a]
      BY <1>2, <2>1, <2>2, ReadyEnd DEF AfterCommit
    <2>3. CASE ~final[a]
      <3>1. pc'[a] = "poll" /\ UNCHANGED <<member, evicted, owner>>
        BY <1>2, <2>3 DEF AfterCommit, TypeOK
      <3>2. \A p \in Partition : owner[p] # a => committed'[p] = committed[p]
        BY <1>2 DEF NewOffsets, TypeOK
      <3> QED
        BY <1>0, <1>2, <2>1, <3>1, <3>2, ReadyFrame DEF OnTheWay
    <2> QED
      BY <2>2, <2>3
  <1>3. ASSUME NEW a \in Attempt, Commit(a) \/ CommitNothing(a) \/ CommitFenced(a) \/ CommitError(a)
        PROVE  ReadyToCommit'
    <2>1. UNCHANGED pos /\ committed' \in {committed, NewOffsets(a)} /\ (Raise(a) \/ AfterCommit(a))
      BY <1>3 DEF Commit, CommitNothing, CommitFenced, CommitError
    <2> QED
      BY <1>1, <1>2, <2>1
  <1>4. ASSUME NEW a \in Attempt, PollError(a) \/ WriteError(a) \/ FlushMisfit(a) PROVE ReadyToCommit'
    BY <1>1, <1>4 DEF PollError, WriteError, FlushMisfit
  <1>5. ASSUME NEW a \in Attempt, Start(a) \/ FlushData(a) \/ FlushQuarantine(a) \/ Crash(a)
        PROVE  ReadyToCommit'
    <2>1. \A b \in Attempt : OnTheWay(b)' => OnTheWay(b)
      BY <1>5 DEF OnTheWay, Start, FlushData, FlushQuarantine, Crash, End, TypeOK
    <2> QED
      BY <1>0, <1>5, <2>1, ReadyFrame DEF Start, FlushData, FlushQuarantine, Crash
  <1>6. ASSUME NEW a \in Attempt, Idle(a) PROVE ReadyToCommit'
    <2>1. \A b \in Attempt : b # a => pc'[b] = pc[b] /\ final'[b] = final[b]
      BY <1>6 DEF Idle, LeaveLoop, TypeOK
    <2>2. CASE Leave(a)
      BY <1>6, <2>1, <2>2, ReadyEnd DEF Idle
    <2>3. CASE UNCHANGED <<member, evicted, owner>>
      <3>1. ~OnTheWay(a)'
        BY <1>6 DEF OnTheWay, Idle, LeaveLoop, TypeOK
      <3> QED
        BY <1>0, <1>6, <2>1, <2>3, <3>1, ReadyFrame DEF OnTheWay, Idle
    <2> QED
      BY <1>6, <2>2, <2>3 DEF Idle
  <1>7. ASSUME NEW a \in Attempt, NEW p \in Partition, NEW n \in 1..Len(log[p]),
               Buffer(a, p, n) \/ Quarantine(a, p, n)
        PROVE  ReadyToCommit'
    <2>1. UNCHANGED <<committed, member, evicted, owner, final>>
      BY <1>7 DEF Buffer, Quarantine, Poll
    <2>2. \A b \in Attempt : b # a => pc'[b] = pc[b]
      BY <1>7 DEF Buffer, Quarantine, TypeOK
    <2>3. CASE owner[p] = a
      <3>1. pos' = pos \/ pos' = [pos EXCEPT ![p] = pos[p] + 1]
        BY <1>7 DEF Buffer, Quarantine, Poll
      <3>2. \A q \in Partition : owner[q] # a => pos'[q] = pos[q]
        BY <2>3, <3>1 DEF TypeOK
      <3>3. \A b \in member : b # a /\ OnTheWay(b)' => HasOffset(b)'
        BY <1>0, <2>1, <2>2, <3>2 DEF ReadyToCommit, OnTheWay, HasOffset, Owned
      <3>4. a \in member => HasOffset(a)'
        <4>1. SUFFICES ASSUME a \in member PROVE pos'[p] # committed[p]
          BY <2>1, <2>3 DEF HasOffset, Owned
        <4>2. pos' = [pos EXCEPT ![p] = pos[p] + 1]
          BY <1>7, <4>1 DEF Buffer, Quarantine, Poll, ReadyToCommit
        <4>3. pos'[p] = pos[p] + 1 /\ committed[p] \in Nat /\ pos[p] \in Nat /\ committed[p] <= pos[p]
          BY <4>2 DEF TypeOK, Positions
        <4> QED
          BY <4>3
      <3> QED
        BY <2>1, <3>3, <3>4 DEF ReadyToCommit, OnTheWay
    <2>4. CASE owner[p] # a
      <3>1. a \in evicted /\ UNCHANGED pos
        BY <1>7, <2>4 DEF Buffer, Quarantine, Poll
      <3>2. a \notin member
        BY <3>1 DEF ReadyToCommit
      <3> QED
        BY <1>0, <2>1, <2>2, <3>1, <3>2, ReadyFrame DEF OnTheWay
    <2> QED
      BY <2>3, <2>4
  <1>8. CASE Rebalance
    <2>1. PICK M \in SUBSET {a \in Attempt : pc[a] = "poll"} :
             /\ member' = M /\ pc' = pc
             /\ evicted' = (evicted \ M) \cup {a \in member \ M : pc[a] \in Live}
      BY <1>8 DEF Rebalance
    <2> QED
      BY <2>1 DEF ReadyToCommit
  <1>9. CASE (\E p \in Partition : Publish(p)) \/ UNCHANGED vars
    BY <1>9, ReadyFrame DEF Publish, vars, OnTheWay
  <1> QED
    BY <1>3, <1>4, <1>5, <1>6, <1>7, <1>8, <1>9 DEF Next, Step, Failure

\* The commits inside the loop need no guard against _NO_OFFSET
\* (Ingest!LoopCommitHasOffset): an attempt that reaches one as a member of the
\* group has an offset to commit, whatever faults and rebalances came before.
THEOREM LoopCommitsHaveOffsets == Spec => []LoopCommitHasOffset
  <1> DEFINE Inv == Positions /\ OwnersAreMembers /\ ReadyToCommit
  <1>1. Init => Inv
    BY DEF Init, Positions, OwnersAreMembers, ReadyToCommit
  <1>2. TypeOK /\ Inv /\ [Next]_vars => Inv'
    BY GroupStep, ReadyStep
  <1>3. Inv => LoopCommitHasOffset
    BY DEF ReadyToCommit, LoopCommitHasOffset
  <1> QED
    BY <1>1, <1>2, <1>3, TypeCorrect, PTL DEF Spec

------------------------------------------------------------------------------
\* Nothing is in memory when an attempt commits.
LEMMA FlushedStep ==
    ASSUME TypeOK, Flushed, [Next]_vars
    PROVE  Flushed'
  <1> USE DEF broker, attempts, stores
  <1>1. ASSUME NEW a \in Attempt, NEW how \in {"done", "failed", "crashed"}, End(a, how) PROVE Flushed'
    BY <1>1 DEF End, Flushed, TypeOK
  <1>2. ASSUME NEW a \in Attempt,
               FlushMisfit(a) \/ PollError(a) \/ WriteError(a) \/ CommitError(a) \/ Crash(a)
        PROVE  Flushed'
    BY <1>1, <1>2 DEF FlushMisfit, PollError, WriteError, CommitError, Crash, Raise
  <1>3. ASSUME NEW a \in Attempt, AfterCommit(a) PROVE Flushed'
    BY <1>1, <1>3 DEF AfterCommit, Flushed, TypeOK
  <1>4. ASSUME NEW a \in Attempt, Commit(a) \/ CommitNothing(a) \/ CommitFenced(a) PROVE Flushed'
    BY <1>1, <1>3, <1>4 DEF Commit, CommitNothing, CommitFenced, Raise
  <1>5. ASSUME NEW a \in Attempt, NEW p \in Partition, NEW n \in 1..Len(log[p]),
               Buffer(a, p, n) \/ Quarantine(a, p, n)
        PROVE  Flushed'
    <2>1. pc'[a] \in {"flush", "poll"}
      BY <1>5 DEF Buffer, Quarantine, TypeOK
    <2>2. \A b \in Attempt : b # a => pc'[b] = pc[b] /\ buf'[b] = buf[b] /\ qbuf'[b] = qbuf[b]
      BY <1>5 DEF Buffer, Quarantine, TypeOK
    <2> QED
      BY <2>1, <2>2 DEF Flushed
  <1>6. ASSUME NEW a \in Attempt, Start(a) \/ Idle(a) PROVE Flushed'
    BY <1>6 DEF Start, Idle, NothingBuffered, Flushed, TypeOK
  <1>7. ASSUME NEW a \in Attempt, FlushData(a) \/ FlushQuarantine(a) PROVE Flushed'
    BY <1>7 DEF FlushData, FlushQuarantine, Flushed, TypeOK
  <1>8. CASE Rebalance \/ (\E p \in Partition : Publish(p)) \/ UNCHANGED vars
    BY <1>8 DEF Rebalance, Publish, vars, Flushed
  <1> QED
    BY <1>2, <1>4, <1>5, <1>6, <1>7, <1>8 DEF Next, Step, Failure

\* What a step may put in the memory of an attempt, and in the stores.
LEMMA RangeAppend ==
    ASSUME NEW S, NEW s \in Seq(S), NEW e \in S
    PROVE  Range(Append(s, e)) = Range(s) \cup {e}
  BY DEF Range

LEMMA RangeEmpty == Range(<<>>) = {}
  BY DEF Range

\* A buffer is kept, emptied, or one message of the log is added to it.
LEMMA BuffersChange ==
    ASSUME TypeOK, [Next]_vars, NEW b \in Attempt
    PROVE  /\ \A m \in Range(buf'[b]) : m \in Range(buf[b]) \/ m \in UpTo(Lengths)
           /\ \A m \in Range(qbuf'[b]) : m \in Range(qbuf[b]) \/ m \in UpTo(Lengths)
  <1> USE DEF broker, attempts, stores
  <1>0. ASSUME buf'[b] \in {buf[b], <<>>}, qbuf'[b] \in {qbuf[b], <<>>}
        PROVE  /\ \A m \in Range(buf'[b]) : m \in Range(buf[b])
               /\ \A m \in Range(qbuf'[b]) : m \in Range(qbuf[b])
    BY <1>0, RangeEmpty
  <1>1. ASSUME NEW a \in Attempt, Start(a) \/ Failure(a)
        PROVE  buf'[b] \in {buf[b], <<>>} /\ qbuf'[b] \in {qbuf[b], <<>>}
    BY <1>1 DEF Start, Failure, PollError, WriteError, CommitError, Crash, Raise, End, TypeOK
  <1>2. ASSUME NEW a \in Attempt, Idle(a) \/ FlushData(a) \/ FlushMisfit(a) \/ FlushQuarantine(a)
        PROVE  buf'[b] \in {buf[b], <<>>} /\ qbuf'[b] \in {qbuf[b], <<>>}
    BY <1>2 DEF Idle, FlushData, FlushMisfit, FlushQuarantine, Raise, End, TypeOK
  <1>3. ASSUME NEW a \in Attempt, Commit(a) \/ CommitNothing(a) \/ CommitFenced(a)
        PROVE  buf'[b] \in {buf[b], <<>>} /\ qbuf'[b] \in {qbuf[b], <<>>}
    BY <1>3 DEF Commit, CommitNothing, CommitFenced, AfterCommit, Raise, End, TypeOK
  <1>4. CASE Rebalance \/ (\E p \in Partition : Publish(p)) \/ UNCHANGED vars
    <2>1. buf' = buf /\ qbuf' = qbuf
      BY <1>4 DEF Rebalance, Publish, vars
    <2> QED
      BY <2>1
  <1>5. ASSUME NEW a \in Attempt, NEW p \in Partition, NEW n \in 1..Len(log[p]),
               Buffer(a, p, n) \/ Quarantine(a, p, n)
        PROVE  /\ \A m \in Range(buf'[b]) : m \in Range(buf[b]) \/ m \in UpTo(Lengths)
               /\ \A m \in Range(qbuf'[b]) : m \in Range(qbuf[b]) \/ m \in UpTo(Lengths)
    <2>1. <<p, n>> \in UpTo(Lengths)
      BY DEF UpTo, Lengths
    <2>2. <<p, n>> \in MsgId
      BY DEF MsgId, TypeOK
    <2>3. \A s \in Seq(MsgId) : Range(Append(s, <<p, n>>)) = Range(s) \cup {<<p, n>>}
      BY <2>2, RangeAppend
    <2>4. buf[b] \in Seq(MsgId) /\ qbuf[b] \in Seq(MsgId)
      BY DEF TypeOK
    <2>5. buf'[b] \in {buf[b], Append(buf[b], <<p, n>>)}
      BY <1>5 DEF Buffer, Quarantine, TypeOK
    <2>6. qbuf'[b] \in {qbuf[b], Append(qbuf[b], <<p, n>>)}
      BY <1>5 DEF Buffer, Quarantine, TypeOK
    <2> QED
      BY <2>1, <2>3, <2>4, <2>5, <2>6
  <1> QED
    BY <1>0, <1>1, <1>2, <1>3, <1>4, <1>5 DEF Next, Step

\* The stores gain rows only from the memory of an attempt.
LEMMA RowsChange ==
    ASSUME TypeOK, FreshKeys, [Next]_vars
    PROVE  /\ Rows(raw') = Rows(raw) \/ \E a \in Attempt : Rows(raw') = Rows(raw) \cup Range(buf[a])
           /\ \/ Rows(quarantine') = Rows(quarantine)
              \/ \E a \in Attempt : Rows(quarantine') = Rows(quarantine) \cup Range(qbuf[a])
  <1> USE DEF broker, attempts, stores
  <1>1. ASSUME NEW a \in Attempt, FlushData(a) \/ FlushQuarantine(a) \/ FlushMisfit(a) \/ WriteError(a)
        PROVE  /\ Rows(raw') \in {Rows(raw), Rows(raw) \cup Range(buf[a])}
               /\ Rows(quarantine') \in {Rows(quarantine), Rows(quarantine) \cup Range(qbuf[a])}
    <2>1. pc[a] = "flush" => Rows(Put(raw, ObjectKey(a), {})) = Rows(raw)
      BY TornAdds
    <2>2. pc[a] = "qflush" => Rows(Put(quarantine, ObjectKey(a), {})) = Rows(quarantine)
      BY TornAdds
    <2>3. CASE FlushMisfit(a) \/ WriteError(a)
      BY <2>1, <2>2, <2>3, PutDataAdds, PutQuarantineAdds DEF FlushMisfit, WriteError
    <2>4. CASE FlushData(a) \/ FlushQuarantine(a)
      BY <2>4, PutDataAdds, PutQuarantineAdds DEF FlushData, FlushQuarantine
    <2> QED
      BY <1>1, <2>3, <2>4
  <1>2. ASSUME NEW a \in Attempt,
               \/ Start(a) \/ Idle(a) \/ Commit(a) \/ CommitNothing(a) \/ CommitFenced(a)
               \/ PollError(a) \/ CommitError(a) \/ Crash(a)
        PROVE  UNCHANGED stores
    BY <1>2 DEF Start, Idle, Commit, CommitNothing, CommitFenced, PollError, CommitError, Crash
  <1>3. ASSUME NEW a \in Attempt, NEW p \in Partition, NEW n \in 1..Len(log[p]),
               Buffer(a, p, n) \/ Quarantine(a, p, n)
        PROVE  UNCHANGED stores
    BY <1>3 DEF Buffer, Quarantine, Poll
  <1>4. ASSUME Rebalance \/ (\E p \in Partition : Publish(p)) \/ UNCHANGED vars PROVE UNCHANGED stores
    BY <1>4 DEF Rebalance, Publish, vars
  <1> QED
    BY <1>1, <1>2, <1>3, <1>4 DEF Next, Step, Failure

\* Only messages of the log are in memory or stored.
LEMMA FromLogStep ==
    ASSUME TypeOK, FreshKeys, FromLog, [Next]_vars
    PROVE  FromLog'
  <1>1. \A m \in MsgId : m[2] <= Len(log[m[1]]) => m[2] <= Len(log'[m[1]])
    <2> SUFFICES ASSUME NEW m \in MsgId, m[2] <= Len(log[m[1]]) PROVE m[2] <= Len(log'[m[1]])
      OBVIOUS
    <2>1. m[1] \in Partition /\ m[2] \in 1..Len(log[m[1]])
      BY DEF MsgId, TypeOK
    <2> QED
      BY <2>1, LogGrows
  <1>2. \A m \in UpTo(Lengths) : m \in MsgId /\ m[2] <= Len(log[m[1]])
    BY DEF UpTo, Lengths, MsgId, TypeOK
  <1>3. /\ Rows(raw) \subseteq MsgId /\ Rows(quarantine) \subseteq MsgId
        /\ \A a \in Attempt : Range(buf[a]) \subseteq MsgId /\ Range(qbuf[a]) \subseteq MsgId
    BY RangeType DEF TypeOK, Rows, Object
  <1>4. InLog(Rows(raw))'
    <2> SUFFICES ASSUME NEW m \in Rows(raw') PROVE m[2] <= Len(log'[m[1]])
      BY DEF InLog
    <2>1. m \in Rows(raw) \/ \E a \in Attempt : m \in Range(buf[a])
      BY RowsChange
    <2> QED
      BY <1>1, <1>3, <2>1 DEF FromLog, InLog
  <1>5. InLog(Rows(quarantine))'
    <2> SUFFICES ASSUME NEW m \in Rows(quarantine') PROVE m[2] <= Len(log'[m[1]])
      BY DEF InLog
    <2>1. m \in Rows(quarantine) \/ \E a \in Attempt : m \in Range(qbuf[a])
      BY RowsChange
    <2> QED
      BY <1>1, <1>3, <2>1 DEF FromLog, InLog
  <1>6. ASSUME NEW a \in Attempt PROVE InLog(Range(buf[a]))' /\ InLog(Range(qbuf[a]))'
    BY <1>1, <1>2, <1>3, BuffersChange DEF FromLog, InLog
  <1> QED
    BY <1>4, <1>5, <1>6 DEF FromLog

------------------------------------------------------------------------------
\* What is given to an attempt, and what is stored, are messages.
LEMMA PlacesType ==
    ASSUME TypeOK
    PROVE  /\ Stored \subseteq MsgId
           /\ \A a \in Attempt : InMemory(a) \subseteq MsgId
  BY RangeType DEF TypeOK, Stored, InMemory, Rows, Object

\* Memory only shrinks, and at most one object appears: what it holds a process
\* had in memory and has no more.
LEMMA PlaceFrame ==
    ASSUME InOnePlace, NoDuplicateWithoutReread, ~reread' => ~reread, evicted' \subseteq evicted,
           UNCHANGED pos, NEW a \in Attempt, NEW new, new.rows \subseteq InMemory(a),
           ~reread => new.rows \cap InMemory(a)' = {},
           \A b \in Attempt : /\ Range(buf'[b]) \subseteq Range(buf[b])
                              /\ Range(qbuf'[b]) \subseteq Range(qbuf[b]),
           \A o \in raw' \cup quarantine' : o \in raw \cup quarantine \/ o = new
    PROVE  InOnePlace' /\ NoDuplicateWithoutReread'
  <1> SUFFICES ASSUME ~reread' PROVE InOnePlace' /\ NoDuplicateWithoutReread'
    BY DEF InOnePlace, NoDuplicateWithoutReread
  <1>1. /\ evicted = {} /\ Given(Stored) /\ \A b \in Attempt : Given(InMemory(b))
        /\ \A b \in Attempt : /\ Range(buf[b]) \cap Range(qbuf[b]) = {}
                              /\ InMemory(b) \cap Stored = {}
        /\ \A b, c \in Attempt : b # c => InMemory(b) \cap InMemory(c) = {}
    BY DEF InOnePlace
  <1>2. \A b \in Attempt : InMemory(b)' \subseteq InMemory(b)
    BY DEF InMemory
  <1>3. \A m \in Stored' : m \in Stored \/ m \in new.rows
    BY DEF Stored, Rows
  <1>4. evicted' = {} /\ Given(Stored)' /\ \A b \in Attempt : Given(InMemory(b))'
    BY <1>1, <1>2, <1>3 DEF Given
  <1>5. \A b \in Attempt : Range(buf'[b]) \cap Range(qbuf'[b]) = {}
    BY <1>1
  <1>6. ASSUME NEW b \in Attempt PROVE InMemory(b)' \cap Stored' = {}
    <2>1. InMemory(b)' \cap new.rows = {}
      BY <1>1, <1>2
    <2> QED
      BY <1>1, <1>2, <1>3, <2>1
  <1>7. \A b, c \in Attempt : b # c => InMemory(b)' \cap InMemory(c)' = {}
    BY <1>1, <1>2
  <1>8. NoDuplicateWithoutReread'
    <2>1. SUFFICES ASSUME NEW o1 \in raw' \cup quarantine', NEW o2 \in raw' \cup quarantine', o1 # o2
                   PROVE  o1.rows \cap o2.rows = {}
      BY DEF NoDuplicateWithoutReread
    <2>2. \A o \in raw \cup quarantine : o.rows \cap new.rows = {}
      BY <1>1 DEF Stored, Rows
    <2> QED
      BY <2>1, <2>2 DEF NoDuplicateWithoutReread
  <1> QED
    BY <1>4, <1>5, <1>6, <1>7, <1>8 DEF InOnePlace

\* The case of a step that writes nothing.
LEMMA PlaceNoWrite ==
    ASSUME InOnePlace, NoDuplicateWithoutReread, ~reread' => ~reread, evicted' \subseteq evicted,
           UNCHANGED <<pos, raw, quarantine>>, NEW a \in Attempt,
           \A b \in Attempt : /\ buf'[b] \in {buf[b], <<>>}
                              /\ qbuf'[b] \in {qbuf[b], <<>>}
    PROVE  InOnePlace' /\ NoDuplicateWithoutReread'
  <1> DEFINE new == [key |-> ObjectKey(a), rows |-> {}]
  <1>1. new.rows = {}
    OBVIOUS
  <1> HIDE DEF new
  <1> QED
    BY <1>1, RangeEmpty, PlaceFrame

\* poll hands out a message that is nowhere yet.
LEMMA PlacePoll ==
    ASSUME TypeOK, InOnePlace, NoDuplicateWithoutReread,
           NEW a \in Attempt, NEW p \in Partition, NEW n \in 1..Len(log[p]), Poll(a, p, n),
           \/ buf' = [buf EXCEPT ![a] = Append(@, <<p, n>>)] /\ qbuf' = qbuf
           \/ qbuf' = [qbuf EXCEPT ![a] = Append(@, <<p, n>>)] /\ buf' = buf
    PROVE  InOnePlace' /\ NoDuplicateWithoutReread'
  <1> DEFINE m == <<p, n>>
  <1> USE DEF stores
  <1>1. UNCHANGED <<raw, quarantine, reread, evicted>>
    BY DEF Poll
  <1>2. NoDuplicateWithoutReread'
    BY <1>1 DEF NoDuplicateWithoutReread
  <1> SUFFICES ASSUME ~reread PROVE InOnePlace'
    BY <1>1, <1>2 DEF InOnePlace
  <1>3. /\ evicted = {} /\ Given(Stored) /\ \A b \in Attempt : Given(InMemory(b))
        /\ \A b \in Attempt : /\ Range(buf[b]) \cap Range(qbuf[b]) = {}
                              /\ InMemory(b) \cap Stored = {}
        /\ \A b, c \in Attempt : b # c => InMemory(b) \cap InMemory(c) = {}
    BY DEF InOnePlace
  <1>4. m \in MsgId /\ n \in Nat /\ pos[p] \in Nat
    BY DEF MsgId, TypeOK
  <1>5. n = pos[p] + 1 /\ pos' = [pos EXCEPT ![p] = n]
    BY <1>3 DEF Poll
  <1>6. m \notin Stored /\ \A b \in Attempt : m \notin InMemory(b)
    BY <1>3, <1>4, <1>5 DEF Given
  <1>7. \A s \in Seq(MsgId) : Range(Append(s, m)) = Range(s) \cup {m}
    BY <1>4, RangeAppend
  <1> HIDE DEF m
  <1>8. /\ \A b \in Attempt : b # a => Range(buf'[b]) = Range(buf[b]) /\ Range(qbuf'[b]) = Range(qbuf[b])
        /\ \/ Range(buf'[a]) = Range(buf[a]) \cup {m} /\ Range(qbuf'[a]) = Range(qbuf[a])
           \/ Range(qbuf'[a]) = Range(qbuf[a]) \cup {m} /\ Range(buf'[a]) = Range(buf[a])
    <2>1. buf[a] \in Seq(MsgId) /\ qbuf[a] \in Seq(MsgId)
      BY DEF TypeOK
    <2>2. CASE buf' = [buf EXCEPT ![a] = Append(@, m)] /\ qbuf' = qbuf
      BY <1>7, <2>1, <2>2 DEF TypeOK
    <2>3. CASE qbuf' = [qbuf EXCEPT ![a] = Append(@, m)] /\ buf' = buf
      BY <1>7, <2>1, <2>3 DEF TypeOK
    <2> QED
      BY <2>2, <2>3 DEF m
  <1>9. /\ \A b \in Attempt : b # a => InMemory(b)' = InMemory(b)
        /\ InMemory(a)' = InMemory(a) \cup {m}
    BY <1>8 DEF InMemory
  <1>10. Stored' = Stored
    BY <1>1 DEF Stored, Rows
  <1>11. \A x \in MsgId : x[2] <= pos[x[1]] => x[2] <= pos'[x[1]]
    <2> SUFFICES ASSUME NEW x \in MsgId, x[2] <= pos[x[1]] PROVE x[2] <= pos'[x[1]]
      OBVIOUS
    <2>1. x[1] \in Partition /\ x[2] \in Nat /\ pos[x[1]] \in Nat
      BY DEF MsgId, TypeOK
    <2>2. pos'[x[1]] \in {pos[x[1]], pos[x[1]] + 1}
      BY <1>5, <2>1 DEF TypeOK
    <2> QED
      BY <2>1, <2>2
  <1>12. m[2] <= pos'[m[1]]
    BY <1>4, <1>5 DEF m, TypeOK
  <1>13. Given(Stored)' /\ \A b \in Attempt : Given(InMemory(b))'
    BY <1>3, <1>9, <1>10, <1>11, <1>12, PlacesType DEF Given
  <1>14. \A b \in Attempt : /\ Range(buf'[b]) \cap Range(qbuf'[b]) = {}
                            /\ InMemory(b)' \cap Stored' = {}
    <2>1. ASSUME NEW b \in Attempt PROVE Range(buf'[b]) \cap Range(qbuf'[b]) = {}
      BY <1>3, <1>6, <1>8 DEF InMemory
    <2> QED
      BY <1>3, <1>6, <1>9, <1>10, <2>1
  <1>15. \A b, c \in Attempt : b # c => InMemory(b)' \cap InMemory(c)' = {}
    BY <1>3, <1>6, <1>9
  <1> QED
    BY <1>1, <1>3, <1>13, <1>14, <1>15 DEF InOnePlace

LEMMA PlaceStep ==
    ASSUME TypeOK, InOnePlace, NoDuplicateWithoutReread, [Next]_vars
    PROVE  InOnePlace' /\ NoDuplicateWithoutReread'
  <1> USE DEF broker, attempts, stores
  <1>1. ASSUME NEW a \in Attempt, NEW p \in Partition, NEW n \in 1..Len(log[p]),
               Buffer(a, p, n) \/ Quarantine(a, p, n)
        PROVE  InOnePlace' /\ NoDuplicateWithoutReread'
    BY <1>1, PlacePoll DEF Buffer, Quarantine
  <1>2. ASSUME NEW a \in Attempt, NEW rows, NEW key, rows \subseteq InMemory(a),
               \/ raw' \in {raw, Put(raw, key, rows)} /\ quarantine' = quarantine
               \/ quarantine' \in {quarantine, Put(quarantine, key, rows)} /\ raw' = raw,
               ~reread => rows \cap InMemory(a)' = {},
               \A b \in Attempt : buf'[b] \in {buf[b], <<>>} /\ qbuf'[b] \in {qbuf[b], <<>>},
               UNCHANGED <<pos, reread>>, evicted' \subseteq evicted
        PROVE  InOnePlace' /\ NoDuplicateWithoutReread'
    <2> DEFINE new == [key |-> key, rows |-> rows]
    <2>1. new.rows = rows
      OBVIOUS
    <2>2. \A o \in raw' \cup quarantine' : o \in raw \cup quarantine \/ o = new
      BY <1>2 DEF Put
    <2> HIDE DEF new
    <2>3. \A b \in Attempt : /\ Range(buf'[b]) \subseteq Range(buf[b])
                             /\ Range(qbuf'[b]) \subseteq Range(qbuf[b])
      BY <1>2, RangeEmpty
    <2> QED
      BY <1>2, <2>1, <2>2, <2>3, PlaceFrame
  <1>3. ASSUME NEW a \in Attempt, FlushData(a) PROVE InOnePlace' /\ NoDuplicateWithoutReread'
    <2>1. raw' \in {raw, Put(raw, ObjectKey(a), Range(buf[a]))} /\ Range(buf[a]) \subseteq InMemory(a)
      BY <1>3 DEF FlushData, PutData, InMemory
    <2>2. \A b \in Attempt : buf'[b] \in {buf[b], <<>>} /\ qbuf'[b] \in {qbuf[b], <<>>}
      BY <1>3 DEF FlushData, TypeOK
    <2>3. buf'[a] = <<>> /\ qbuf'[a] = qbuf[a]
      BY <1>3 DEF FlushData, TypeOK
    <2>4. ~reread => Range(buf[a]) \cap InMemory(a)' = {}
      BY <2>3, RangeEmpty DEF InMemory, InOnePlace
    <2>5. UNCHANGED <<pos, reread, evicted, quarantine>>
      BY <1>3 DEF FlushData
    <2> QED
      BY <1>2, <2>1, <2>2, <2>4, <2>5
  <1>4. ASSUME NEW a \in Attempt, FlushQuarantine(a) PROVE InOnePlace' /\ NoDuplicateWithoutReread'
    <2>1. /\ quarantine' \in {quarantine, Put(quarantine, ObjectKey(a), Range(qbuf[a]))}
          /\ Range(qbuf[a]) \subseteq InMemory(a)
      BY <1>4 DEF FlushQuarantine, PutQuarantine, InMemory
    <2>2. \A b \in Attempt : buf'[b] \in {buf[b], <<>>} /\ qbuf'[b] \in {qbuf[b], <<>>}
      BY <1>4 DEF FlushQuarantine, TypeOK
    <2>3. qbuf'[a] = <<>> /\ buf'[a] = buf[a]
      BY <1>4 DEF FlushQuarantine, TypeOK
    <2>4. ~reread => Range(qbuf[a]) \cap InMemory(a)' = {}
      BY <2>3, RangeEmpty DEF InMemory, InOnePlace
    <2>5. UNCHANGED <<pos, reread, evicted, raw>>
      BY <1>4 DEF FlushQuarantine
    <2> QED
      BY <1>2, <2>1, <2>2, <2>4, <2>5
  <1>5. ASSUME NEW a \in Attempt, End(a, "done") \/ End(a, "failed") \/ End(a, "crashed")
        PROVE  /\ \A b \in Attempt : buf'[b] \in {buf[b], <<>>} /\ qbuf'[b] \in {qbuf[b], <<>>}
               /\ InMemory(a)' = {}
    <2>1. buf' = [buf EXCEPT ![a] = <<>>] /\ qbuf' = [qbuf EXCEPT ![a] = <<>>]
      BY <1>5 DEF End
    <2> QED
      BY <2>1, RangeEmpty DEF InMemory, TypeOK
  <1>6. ASSUME NEW a \in Attempt, FlushMisfit(a) \/ WriteError(a)
        PROVE  InOnePlace' /\ NoDuplicateWithoutReread'
    <2>1. PICK rows \in {Range(buf[a]), Range(qbuf[a]), {}} :
             \/ raw' \in {raw, Put(raw, ObjectKey(a), rows)} /\ quarantine' = quarantine
             \/ quarantine' \in {quarantine, Put(quarantine, ObjectKey(a), rows)} /\ raw' = raw
      BY <1>6 DEF FlushMisfit, WriteError, PutData, PutQuarantine
    <2>2. rows \subseteq InMemory(a)
      BY <2>1 DEF InMemory
    <2>3. UNCHANGED <<pos, reread>> /\ evicted' \subseteq evicted /\ End(a, "failed")
      BY <1>6 DEF FlushMisfit, WriteError, Raise, Leave
    <2> QED
      BY <1>2, <1>5, <2>1, <2>2, <2>3
  <1>7. ASSUME NEW a \in Attempt,
               \/ Start(a) \/ Idle(a) \/ Commit(a) \/ CommitNothing(a) \/ CommitFenced(a)
               \/ PollError(a) \/ CommitError(a) \/ Crash(a)
        PROVE  InOnePlace' /\ NoDuplicateWithoutReread'
    <2>1. UNCHANGED <<pos, raw, quarantine, reread>>
      BY <1>7 DEF Start, Idle, Commit, CommitNothing, CommitFenced, PollError, CommitError, Crash
    <2>2. /\ evicted' \subseteq evicted
          /\ \/ End(a, "done") \/ End(a, "failed") \/ End(a, "crashed")
             \/ UNCHANGED <<buf, qbuf>>
      BY <1>7 DEF Start, Idle, Commit, CommitNothing, CommitFenced, PollError,
         CommitError, Crash, Raise, AfterCommit, Leave
    <2>3. \A b \in Attempt : buf'[b] \in {buf[b], <<>>} /\ qbuf'[b] \in {qbuf[b], <<>>}
      BY <1>5, <2>2
    <2> QED
      BY <2>1, <2>2, <2>3, PlaceNoWrite
  <1>8. CASE Rebalance
    <2>1. UNCHANGED <<buf, qbuf, raw, quarantine>>
      BY <1>8 DEF Rebalance
    <2>2. ~reread' => ~reread /\ pos' = pos
      BY <1>8 DEF Rebalance, ResumeAt
    <2>3. ASSUME ~reread' PROVE evicted' \subseteq evicted
      BY <1>8, <2>3 DEF Rebalance
    <2> QED
      BY <2>1, <2>2, <2>3 DEF InOnePlace, NoDuplicateWithoutReread, Stored, Rows, InMemory, Given
  <1>9. CASE (\E p \in Partition : Publish(p)) \/ UNCHANGED vars
    <2>1. UNCHANGED <<buf, qbuf, raw, quarantine, reread, pos, evicted>>
      BY <1>9 DEF Publish, vars
    <2> QED
      BY <2>1 DEF InOnePlace, NoDuplicateWithoutReread, Stored, Rows, InMemory, Given
  <1> QED
    BY <1>1, <1>3, <1>4, <1>6, <1>7, <1>8, <1>9 DEF Next, Step, Failure

\* Before anything was taken back, nothing has a place yet.
LEMMA PlaceInit == Init => InOnePlace /\ NoDuplicateWithoutReread
  <1> SUFFICES ASSUME Init PROVE InOnePlace /\ NoDuplicateWithoutReread
    OBVIOUS
  <1>1. Stored = {} /\ \A a \in Attempt : InMemory(a) = {}
    BY RangeEmpty DEF Init, Stored, Rows, InMemory
  <1>2. \A a \in Attempt : Range(buf[a]) = {}
    BY RangeEmpty DEF Init
  <1> QED
    BY <1>1, <1>2 DEF Init, InOnePlace, NoDuplicateWithoutReread, Given

\* Duplicates come from re-reading only (Ingest!NoDuplicateWithoutReread): as
\* long as no partition was taken back to an earlier offset, no message is in
\* two objects, however often writes and commits fail or processes die.
THEOREM DuplicatesComeFromRereading == Spec => []NoDuplicateWithoutReread
  <1> DEFINE Inv == InOnePlace /\ NoDuplicateWithoutReread
  <1>1. TypeOK /\ Inv /\ [Next]_vars => Inv'
    BY PlaceStep
  <1> QED
    BY <1>1, PlaceInit, TypeCorrect, PTL DEF Spec

------------------------------------------------------------------------------
\* A message of the log that is kept stays kept.
LEMMA KeptStays ==
    ASSUME TypeOK, FreshKeys, [Next]_vars,
           NEW p \in Partition, NEW n \in 1..Len(log[p])
    PROVE  /\ KindOf(<<p, n>>)' = KindOf(<<p, n>>)
           /\ Kept(<<p, n>>) => Kept(<<p, n>>)'
  <1>1. KindOf(<<p, n>>)' = KindOf(<<p, n>>)
    BY LogGrows DEF KindOf
  <1>2. Rows(raw) \subseteq Rows(raw') /\ Rows(quarantine) \subseteq Rows(quarantine')
    BY StoresGrow DEF Rows
  <1> QED
    BY <1>1, <1>2 DEF Kept

\* What an attempt holds it still holds, or has stored, as long as its memory
\* grows or goes into the stores.
LEMMA HoldsStays ==
    ASSUME TypeOK, FreshKeys, [Next]_vars, NEW a \in Attempt,
           Range(buf[a]) \subseteq Range(buf'[a]) \cup Rows(raw'),
           Range(qbuf[a]) \subseteq Range(qbuf'[a]) \cup Rows(quarantine'),
           NEW p \in Partition, NEW n \in 1..Len(log[p]), Holds(a, <<p, n>>)
    PROVE  Holds(a, <<p, n>>)'
  <1>1. KindOf(<<p, n>>)' = KindOf(<<p, n>>) /\ (Kept(<<p, n>>) => Kept(<<p, n>>)')
    BY KeptStays
  <1> QED
    BY <1>1 DEF Holds, Kept

\* A step that moves no position, and gives no partition to anyone, keeps
\* Holding if every live process keeps what it holds.
LEMMA HoldingFrame ==
    ASSUME TypeOK, FreshKeys, Positions, Holding, [Next]_vars,
           UNCHANGED <<committed, pos>>,
           \A a \in Attempt, p \in Partition :
               owner'[p] = a /\ pc'[a] \in Live => owner[p] = a /\ pc[a] \in Live,
           \A a \in Attempt : pc'[a] \in Live =>
               /\ Range(buf[a]) \subseteq Range(buf'[a]) \cup Rows(raw')
               /\ Range(qbuf[a]) \subseteq Range(qbuf'[a]) \cup Rows(quarantine')
    PROVE  Holding'
  <1> SUFFICES ASSUME NEW a \in Attempt, NEW p \in Partition, owner'[p] = a, pc'[a] \in Live,
                      NEW n \in (committed[p] + 1)..pos[p]
               PROVE  Holds(a, <<p, n>>)'
    BY DEF Holding
  <1>1. Holds(a, <<p, n>>)
    BY DEF Holding
  <1>2. n \in 1..Len(log[p])
    BY DEF Positions, TypeOK
  <1> QED
    BY <1>1, <1>2, HoldsStays

\* A process that ends, or leaves, takes nothing from the others.
LEMMA EndHolding ==
    ASSUME TypeOK, FreshKeys, Positions, Holding, [Next]_vars,
           NEW a \in Attempt, NEW how \in {"done", "failed", "crashed"}, End(a, how),
           Leave(a) \/ UNCHANGED owner, UNCHANGED <<committed, pos>>
    PROVE  Holding'
  <1>1. pc'[a] \notin Live
    BY DEF End, Live, TypeOK
  <1>2. \A b \in Attempt : b # a => pc'[b] = pc[b] /\ buf'[b] = buf[b] /\ qbuf'[b] = qbuf[b]
    BY DEF End, TypeOK
  <1>3. \A b \in Attempt, p \in Partition : b # a /\ owner'[p] = b => owner[p] = b
    BY ConstantsAssumption DEF Leave, TypeOK
  <1> QED
    BY <1>1, <1>2, <1>3, HoldingFrame

\* What is committed is what the committer has been given, and that is stored.
LEMMA CommitHolding ==
    ASSUME IInv, [Next]_vars, NEW a \in Attempt, pc[a] = "commit",
           UNCHANGED <<log, pos, raw, quarantine>>, committed' \in {committed, NewOffsets(a)}
    PROVE  /\ NoLoss'
           /\ \A b \in Attempt, p \in Partition : \A n \in (committed'[p] + 1)..pos[p] :
                  owner[p] = b /\ pc[b] \in Live => Holds(b, <<p, n>>)
  <1> USE DEF IInv
  <1>1. \A p \in Partition : committed[p] \in Nat /\ pos[p] \in Nat /\ committed[p] <= pos[p]
    BY DEF TypeOK, Positions
  <1>2. \A p \in Partition : committed'[p] = committed[p] \/ (owner[p] = a /\ committed'[p] = pos[p])
    BY DEF NewOffsets, TypeOK
  <1>3. ASSUME NEW p \in Partition, owner[p] = a, NEW n \in (committed[p] + 1)..pos[p]
        PROVE  Kept(<<p, n>>)
    <2>1. buf[a] = <<>> /\ qbuf[a] = <<>>
      BY DEF Flushed
    <2>2. Holds(a, <<p, n>>)
      BY <1>3 DEF Holding, Live
    <2> QED
      BY <2>1, <2>2, RangeEmpty DEF Holds
  <1>4. ASSUME NEW p \in Partition, NEW n \in 1..committed'[p] PROVE Kept(<<p, n>>)'
    <2>1. n \in 1..committed[p] \/ (owner[p] = a /\ n \in (committed[p] + 1)..pos[p])
      BY <1>1, <1>2
    <2>2. Kept(<<p, n>>)
      BY <1>3, <2>1 DEF NoLoss
    <2> QED
      BY <2>2 DEF Kept, KindOf
  <1>5. ASSUME NEW b \in Attempt, NEW p \in Partition, NEW n \in (committed'[p] + 1)..pos[p],
               owner[p] = b, pc[b] \in Live
        PROVE  Holds(b, <<p, n>>)
    BY <1>1, <1>2, <1>5 DEF Holding
  <1> QED
    BY <1>4, <1>5 DEF NoLoss

\* Live owners hold what they were given since the last commit.
LEMMA HoldingStep ==
    ASSUME IInv, [Next]_vars
    PROVE  Holding'
  <1> USE DEF broker, attempts, stores
  <1> USE DEF IInv
  <1>1. ASSUME NEW p \in Partition, Publish(p) PROVE Holding'
    BY <1>1, HoldingFrame DEF Publish
  <1>2. CASE Rebalance
    <2>1. \A p \in Partition : (committed'[p] + 1)..pos'[p] = {}
      BY <1>2 DEF Rebalance, ResumeAt, TypeOK
    <2> QED
      BY <2>1 DEF Holding
  <1>3. ASSUME NEW a \in Attempt, Start(a) PROVE Holding'
    <2>1. \A p \in Partition : owner[p] # a
      BY <1>3, ConstantsAssumption DEF Start, OwnersAreMembers
    <2>2. \A b \in Attempt : b # a => pc'[b] = pc[b]
      BY <1>3 DEF Start, TypeOK
    <2> QED
      BY <1>3, <2>1, <2>2, HoldingFrame DEF Start
  <1>4. ASSUME NEW a \in Attempt, NEW p \in Partition, NEW n \in 1..Len(log[p]),
               Buffer(a, p, n) \/ Quarantine(a, p, n)
        PROVE  Holding'
    <2>1. n \in Nat /\ <<p, n>> \in MsgId
      BY DEF MsgId, TypeOK
    <2>2. \A s \in Seq(MsgId) : Range(Append(s, <<p, n>>)) = Range(s) \cup {<<p, n>>}
      BY <2>1, RangeAppend
    <2>3. buf[a] \in Seq(MsgId) /\ qbuf[a] \in Seq(MsgId)
      BY DEF TypeOK
    <2>4. /\ buf'[a] \in {buf[a], Append(buf[a], <<p, n>>)}
          /\ qbuf'[a] \in {qbuf[a], Append(qbuf[a], <<p, n>>)}
          /\ \A b \in Attempt : b # a => buf'[b] = buf[b] /\ qbuf'[b] = qbuf[b] /\ pc'[b] = pc[b]
      BY <1>4 DEF Buffer, Quarantine, TypeOK
    <2>5. \A b \in Attempt : Range(buf[b]) \subseteq Range(buf'[b]) /\ Range(qbuf[b]) \subseteq Range(qbuf'[b])
      BY <2>2, <2>3, <2>4
    <2>6. Holds(a, <<p, n>>)'
      <3>1. KindOf(<<p, n>>)' = log[p][n]
        BY <1>4 DEF Buffer, Quarantine, Poll, KindOf
      <3>2. CASE Buffer(a, p, n)
        <4>1. buf'[a] = Append(buf[a], <<p, n>>) /\ log[p][n] # "malformed"
          BY <3>2 DEF Buffer, TypeOK
        <4> QED
          BY <2>2, <2>3, <3>1, <4>1 DEF Holds
      <3>3. CASE Quarantine(a, p, n)
        <4>1. qbuf'[a] = Append(qbuf[a], <<p, n>>) /\ log[p][n] = "malformed"
          BY <3>3 DEF Quarantine, TypeOK
        <4> QED
          BY <2>2, <2>3, <3>1, <4>1 DEF Holds
      <3> QED
        BY <1>4, <3>2, <3>3
    <2>7. /\ UNCHANGED <<committed, owner>>
          /\ pc[a] = "poll"
          /\ pos' = pos \/ (owner[p] = a /\ n = pos[p] + 1 /\ pos' = [pos EXCEPT ![p] = n])
      BY <1>4 DEF Buffer, Quarantine, Poll
    <2> SUFFICES ASSUME NEW b \in Attempt, NEW q \in Partition, owner'[q] = b, pc'[b] \in Live,
                        NEW k \in (committed'[q] + 1)..pos'[q]
                 PROVE  Holds(b, <<q, k>>)'
      BY DEF Holding
    <2>8. k \in (committed[q] + 1)..pos[q] \/ (q = p /\ k = n /\ b = a)
      BY <2>1, <2>7 DEF TypeOK
    <2>9. CASE k \in (committed[q] + 1)..pos[q]
      <3>1. pc[b] \in Live
        BY <2>4, <2>7 DEF Live
      <3>2. Holds(b, <<q, k>>)
        BY <2>7, <2>9, <3>1 DEF Holding
      <3>3. k \in 1..Len(log[q])
        BY <2>9 DEF Positions, TypeOK
      <3> QED
        BY <2>5, <3>2, <3>3, HoldsStays
    <2> QED
      BY <2>6, <2>8, <2>9
  <1>5. ASSUME NEW a \in Attempt, Idle(a) PROVE Holding'
    <2>1. \A b \in Attempt, p \in Partition : owner'[p] = b => owner[p] = b
      BY <1>5, ConstantsAssumption DEF Idle, Leave, TypeOK
    <2>2. pc[a] \in Live /\ \A b \in Attempt : b # a => pc'[b] = pc[b]
      BY <1>5 DEF Idle, Live, TypeOK
    <2> QED
      BY <1>5, <2>1, <2>2, HoldingFrame DEF Idle
  <1>6. ASSUME NEW a \in Attempt, FlushData(a) \/ FlushQuarantine(a) PROVE Holding'
    <2>1. pc[a] \in Live /\ \A b \in Attempt : b # a => pc'[b] = pc[b]
      BY <1>6 DEF FlushData, FlushQuarantine, Live, TypeOK
    <2>2. CASE FlushData(a)
      <3>1. Range(buf[a]) \subseteq Rows(raw') /\ \A b \in Attempt : b # a => buf'[b] = buf[b]
        BY <2>2, PutDataAdds DEF FlushData, TypeOK
      <3> QED
        BY <2>1, <2>2, <3>1, HoldingFrame DEF FlushData
    <2>3. CASE FlushQuarantine(a)
      <3>1. Range(qbuf[a]) \subseteq Rows(quarantine') /\ \A b \in Attempt : b # a => qbuf'[b] = qbuf[b]
        BY <2>3, PutQuarantineAdds DEF FlushQuarantine, TypeOK
      <3> QED
        BY <2>1, <2>3, <3>1, HoldingFrame DEF FlushQuarantine
    <2> QED
      BY <1>6, <2>2, <2>3
  <1>7. ASSUME NEW a \in Attempt, FlushMisfit(a) \/ PollError(a) \/ WriteError(a) PROVE Holding'
    BY <1>7, EndHolding DEF FlushMisfit, PollError, WriteError, Raise
  <1>8. ASSUME NEW a \in Attempt, Crash(a) PROVE Holding'
    BY <1>8, EndHolding DEF Crash
  <1>9. ASSUME NEW a \in Attempt, CommitNothing(a) \/ CommitFenced(a) PROVE Holding'
    <2>1. UNCHANGED <<committed, pos>> /\ pc[a] = "commit" /\ (Raise(a) \/ AfterCommit(a))
      BY <1>9 DEF CommitNothing, CommitFenced
    <2>2. CASE Raise(a) \/ final[a]
      BY <2>1, <2>2, EndHolding DEF Raise, AfterCommit
    <2>3. CASE AfterCommit(a) /\ ~final[a]
      <3>1. \A b \in Attempt : pc'[b] = pc[b] \/ (b = a /\ pc[a] \in Live)
        BY <2>1, <2>3 DEF AfterCommit, Live, TypeOK
      <3> QED
        BY <2>1, <2>3, <3>1, HoldingFrame DEF AfterCommit
    <2> QED
      BY <2>1, <2>2, <2>3
  <1>10. ASSUME NEW a \in Attempt, Commit(a) \/ CommitError(a) PROVE Holding'
    <2>1. /\ pc[a] = "commit" /\ UNCHANGED <<log, pos, raw, quarantine>>
          /\ committed' \in {committed, NewOffsets(a)}
          /\ Raise(a) \/ AfterCommit(a)
      BY <1>10 DEF Commit, CommitError
    <2>2. \A b \in Attempt, p \in Partition : \A n \in (committed'[p] + 1)..pos[p] :
              owner[p] = b /\ pc[b] \in Live => Holds(b, <<p, n>>)
      BY <2>1, CommitHolding
    <2>3. \A b \in Attempt, p \in Partition : owner'[p] = b /\ pc'[b] \in Live =>
              owner[p] = b /\ pc[b] \in Live
      <3>1. \A b \in Attempt : b # a => pc'[b] = pc[b]
        BY <2>1 DEF Raise, AfterCommit, End, TypeOK
      <3>2. pc[a] \in Live
        BY <2>1 DEF Live
      <3>3. \A b \in Attempt, p \in Partition : owner'[p] = b => owner[p] = b
        BY <2>1, ConstantsAssumption DEF Raise, AfterCommit, Leave, TypeOK
      <3> QED
        BY <3>1, <3>2, <3>3
    <2>4. \A b \in Attempt : buf'[b] = buf[b] /\ qbuf'[b] = qbuf[b]
      <3>1. buf[a] = <<>> /\ qbuf[a] = <<>>
        BY <2>1 DEF Flushed
      <3> QED
        BY <2>1, <3>1 DEF Raise, AfterCommit, End, TypeOK
    <2> SUFFICES ASSUME NEW b \in Attempt, NEW p \in Partition, owner'[p] = b, pc'[b] \in Live,
                        NEW n \in (committed'[p] + 1)..pos'[p]
                 PROVE  Holds(b, <<p, n>>)'
      BY DEF Holding
    <2>5. Holds(b, <<p, n>>)
      BY <2>1, <2>2, <2>3
    <2> QED
      BY <2>1, <2>4, <2>5 DEF Holds, Kept, KindOf
  <1>11. CASE UNCHANGED vars
    BY <1>11, HoldingFrame DEF vars
  <1> QED
    BY <1>1, <1>2, <1>3, <1>4, <1>5, <1>6, <1>7, <1>8, <1>9, <1>10, <1>11 DEF Next, Step, Failure

\* Nothing below a committed offset is missing after the step either.
LEMMA NoLossStep ==
    ASSUME IInv, [Next]_vars
    PROVE  NoLoss'
  <1> USE DEF broker, attempts, stores
  <1>1. ASSUME UNCHANGED committed PROVE NoLoss'
    <2>1. \A p \in Partition : \A n \in 1..committed[p] : n \in 1..Len(log[p])
      BY DEF IInv, Positions, TypeOK
    <2> QED
      BY <1>1, <2>1, KeptStays DEF IInv, NoLoss
  <1>2. ASSUME NEW a \in Attempt, Commit(a) \/ CommitError(a) PROVE NoLoss'
    BY <1>2, CommitHolding DEF Commit, CommitError
  <1>3. ASSUME NEW a \in Attempt, Start(a) \/ PollError(a) \/ WriteError(a) \/ Crash(a)
        PROVE  UNCHANGED committed
    BY <1>3 DEF Start, PollError, WriteError, Crash
  <1>4. ASSUME NEW a \in Attempt, Step(a), ~Commit(a) PROVE UNCHANGED committed
    BY <1>4 DEF Step, Buffer, Quarantine, Poll, Idle, FlushData, FlushMisfit,
       FlushQuarantine, CommitNothing, CommitFenced
  <1>5. ASSUME Rebalance \/ (\E p \in Partition : Publish(p)) \/ UNCHANGED vars
        PROVE  UNCHANGED committed
    BY <1>5 DEF Rebalance, Publish, vars
  <1> QED
    BY <1>1, <1>2, <1>3, <1>4, <1>5 DEF Next, Failure

\* The invariant is inductive (Ingest!IInv).
LEMMA Inductive == ASSUME DistinctStamps PROVE IInv /\ [Next]_vars => IInv'
  <1> SUFFICES ASSUME IInv, [Next]_vars PROVE IInv'
    OBVIOUS
  <1>1. TypeOK' /\ FreshKeys'
    BY TypeStep, FreshKeysStep DEF IInv
  <1>2. OwnersAreMembers' /\ Positions' /\ Flushed' /\ FromLog'
    BY GroupStep, FlushedStep, FromLogStep DEF IInv
  <1>3. ReadyToCommit' /\ InOnePlace' /\ NoDuplicateWithoutReread'
    BY ReadyStep, PlaceStep DEF IInv
  <1> QED
    BY <1>1, <1>2, <1>3, HoldingStep, NoLossStep DEF IInv

\* When no two attempts took their ingested_at in one second, the invariant holds
\* whatever the partitions, the batch size, the faults and the interleaving
\* (Ingest!IInv).
THEOREM InvariantHolds == ASSUME DistinctStamps PROVE Spec => []IInv
  <1>1. Init /\ TypeOK => IInv
    <2> SUFFICES ASSUME Init, TypeOK PROVE IInv
      OBVIOUS
    <2>1. Rows(raw) = {} /\ Rows(quarantine) = {}
      BY DEF Init, Rows
    <2>2. \A a \in Attempt : Range(buf[a]) = {} /\ Range(qbuf[a]) = {}
      BY RangeEmpty DEF Init
    <2>3. FromLog
      BY <2>1, <2>2 DEF FromLog, InLog
    <2>4. FreshKeys /\ OwnersAreMembers /\ Positions /\ Holding /\ Flushed /\ NoLoss
      BY ConstantsAssumption DEF Init, FreshKeys, OwnersAreMembers, Positions, Holding, Flushed, NoLoss
    <2>5. ReadyToCommit /\ InOnePlace /\ NoDuplicateWithoutReread
      BY PlaceInit DEF Init, ReadyToCommit
    <2> QED
      BY <2>3, <2>4, <2>5 DEF IInv
  <1> QED
    BY <1>1, Inductive, TypeCorrect, PTL DEF Spec

\* When no two attempts took their ingested_at in one second, no message below a
\* committed offset is missing from the raw layer (Ingest!NoLoss): offsets are
\* committed only after the object is durable.
THEOREM NothingIsLost == ASSUME DistinctStamps PROVE Spec => []NoLoss
  <1>1. IInv => NoLoss
    BY DEF IInv
  <1> QED
    BY <1>1, InvariantHolds, PTL

------------------------------------------------------------------------------
\* A step publishes, or writes objects, or commits: never two of them at once.
LEMMA OneChange ==
    ASSUME [Next]_vars
    PROVE  \/ UNCHANGED <<raw, quarantine, committed>>
           \/ UNCHANGED <<log, committed>>
           \/ UNCHANGED <<log, raw, quarantine>>
  <1> USE DEF broker, attempts, stores
  <1>1. ASSUME NEW a \in Attempt, Failure(a)
        PROVE  \/ UNCHANGED <<log, committed>> \/ UNCHANGED <<log, raw, quarantine>>
    BY <1>1 DEF Failure, PollError, WriteError, CommitError, Crash
  <1>2. ASSUME NEW a \in Attempt, Start(a) \/ Step(a)
        PROVE  \/ UNCHANGED <<log, committed>> \/ UNCHANGED <<log, raw, quarantine>>
    BY <1>2 DEF Start, Step, Buffer, Quarantine, Poll, Idle, FlushData, FlushMisfit,
       FlushQuarantine, Commit, CommitNothing, CommitFenced
  <1>3. ASSUME Rebalance \/ (\E p \in Partition : Publish(p)) \/ UNCHANGED vars
        PROVE  UNCHANGED <<raw, quarantine, committed>>
    BY <1>3 DEF Rebalance, Publish, vars
  <1> QED
    BY <1>1, <1>2, <1>3 DEF Next

\* When no two attempts took their ingested_at in one second, the drain implements
\* at-least-once transfer of the log (Ingest!AtLeastOnce): every step publishes,
\* stores or acknowledges as LogTransfer allows, or does nothing LogTransfer can see.
THEOREM Refinement == ASSUME DistinctStamps PROVE Spec => AtLeastOnce
  <1> DEFINE published == UpTo(Lengths)
             stored    == Rows(raw) \cup Rows(quarantine)
             acked     == UpTo(committed)
  <1>1. Init => Transfer!Init
    BY RangeEmpty DEF Init, Transfer!Init, UpTo, Lengths, Rows
  <1>2. IInv /\ IInv' /\ [Next]_vars => [Transfer!Next]_Transfer!vars
    <2> SUFFICES ASSUME IInv, IInv', [Next]_vars PROVE [Transfer!Next]_Transfer!vars
      OBVIOUS
    <2>1. published \subseteq published' /\ published' \subseteq MsgId
      <3>1. TypeOK /\ TypeOK'
        BY DEF IInv
      <3>2. \A p \in Partition : Len(log[p]) \in Nat /\ Len(log'[p]) \in Nat
        BY <3>1 DEF TypeOK
      <3>3. \A p \in Partition : \A n \in 1..Len(log[p]) : n \in 1..Len(log'[p])
        BY <3>1, <3>2, LogGrows
      <3> QED
        BY <3>2, <3>3 DEF UpTo, Lengths, MsgId
    <2>2. stored \subseteq stored' /\ stored' \subseteq published'
      <3>1. stored \subseteq stored'
        BY StoresGrow DEF IInv, Rows
      <3>2. ASSUME NEW m \in stored' PROVE m \in published'
        <4>1. m \in MsgId /\ m[2] <= Len(log'[m[1]])
          BY DEF IInv, TypeOK, FromLog, InLog, Rows, Object
        <4>2. Len(log'[m[1]]) \in Nat
          BY <4>1 DEF IInv, TypeOK, MsgId
        <4>3. m = <<m[1], m[2]>> /\ m[1] \in Partition /\ m[2] \in 1..Len(log'[m[1]])
          BY <4>1, <4>2 DEF MsgId
        <4> QED
          BY <4>3 DEF UpTo, Lengths
      <3> QED
        BY <3>1, <3>2
    <2>3. acked \subseteq acked' /\ acked' \subseteq stored'
      <3>1. \A p \in Partition : \A n \in 1..committed[p] : n \in 1..committed'[p]
        <4>1. \A p \in Partition : /\ committed[p] \in Nat /\ committed'[p] \in Nat
                                   /\ committed[p] <= committed'[p]
          BY CommittedGrows DEF IInv, TypeOK
        <4> QED
          BY <4>1
      <3>2. acked \subseteq acked'
        BY <3>1 DEF UpTo
      <3>3. ASSUME NEW m \in acked' PROVE m \in stored'
        <4>1. PICK p \in Partition : \E n \in 1..committed'[p] : m = <<p, n>>
          BY DEF UpTo
        <4> QED
          BY <4>1 DEF IInv, NoLoss, Kept
      <3> QED
        BY <3>2, <3>3
    <2>4. CASE UNCHANGED <<raw, quarantine, committed>>
      <3>1. stored' = stored /\ acked' = acked
        BY <2>4 DEF Rows, UpTo
      <3> QED
        BY <2>1, <3>1 DEF Transfer!Next, Transfer!Publish
    <2>5. CASE UNCHANGED <<log, committed>>
      <3>1. published' = published /\ acked' = acked
        BY <2>5 DEF Lengths, UpTo
      <3> QED
        BY <2>2, <3>1 DEF Transfer!Next, Transfer!Store
    <2>6. CASE UNCHANGED <<log, raw, quarantine>>
      <3>1. published' = published /\ stored' = stored
        BY <2>6 DEF Lengths, UpTo, Rows
      <3> QED
        BY <2>3, <3>1 DEF Transfer!Next, Transfer!Ack
    <2> QED
      BY <2>4, <2>5, <2>6, OneChange
  <1> QED
    BY <1>1, <1>2, InvariantHolds, PTL DEF Spec, AtLeastOnce, Transfer!Spec
==============================================================================
