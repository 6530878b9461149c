---------------------------- MODULE PipelineProofs ----------------------------
(***************************************************************************)
(* Theorems about DAG runs (Pipeline), for every set of batches, whichever *)
(* of them the tests refuse, and any number of runs, hand-started          *)
(* generators and faults.                                                  *)
(***************************************************************************)
EXTENDS Pipeline, SequenceTheorems, TLAPS

\* What is left of some work: its first element, and its own rest.
LEMMA RestFacts ==
    ASSUME NEW S, NEW work \in Seq(S), NEW rest \in Rests(work)
    PROVE  /\ Len(rest) \in 1..Len(work)
           /\ Head(rest) = work[Len(work) - Len(rest) + 1]
           /\ Len(rest) > 1 => Tail(rest) \in Rests(work) /\ Len(Tail(rest)) = Len(rest) - 1
  <1> DEFINE L == Len(work)
  <1>1. L \in Nat /\ DOMAIN work = 1..L /\ \A i \in 1..L : work[i] \in S
    BY LenProperties
  <1>2. PICK n \in 1..L : rest = SubSeq(work, n, L)
    BY <1>1 DEF Rests
  <1>3. \A m \in 1..L : Len(SubSeq(work, m, L)) = L - m + 1
    BY <1>1, SubSeqProperties
  <1>4. Head(rest) = work[n] /\ Tail(rest) = SubSeq(work, n + 1, L)
    BY <1>1, <1>2, HeadTailOfSubSeq
  <1>5. Len(rest) = L - n + 1
    BY <1>2, <1>3
  <1>6. ASSUME Len(rest) > 1
        PROVE  Tail(rest) \in Rests(work) /\ Len(Tail(rest)) = Len(rest) - 1
    <2>1. n + 1 \in 1..L
      BY <1>1, <1>5, <1>6
    <2>2. Tail(rest) \in Rests(work)
      BY <1>1, <1>4, <2>1 DEF Rests
    <2>3. Len(Tail(rest)) = L - (n + 1) + 1
      BY <1>3, <1>4, <2>1
    <2>4. Len(Tail(rest)) = Len(rest) - 1
      <3> HIDE DEF L
      <3> QED
        BY <1>1, <1>5, <2>3
    <2> QED
      BY <2>2, <2>4
  <1>7. n = L - Len(rest) + 1 /\ Len(rest) \in 1..L
    BY <1>1, <1>5
  <1> QED
    BY <1>4, <1>6, <1>7

LEMMA WholeIsRest ==
    ASSUME NEW S, NEW work \in Seq(S), Len(work) # 0
    PROVE  work \in Rests(work)
  <1>1. Len(work) \in Nat /\ DOMAIN work = 1..Len(work)
    BY LenProperties
  <1>2. SubSeq(work, 1, Len(work)) = work
    BY <1>1, LenProperties, SubSeqProperties, SeqEqual
  <1>3. 1 \in DOMAIN work
    BY <1>1
  <1> QED
    BY <1>2, <1>3 DEF Rests

\* How many operations each task has.
Size(t) == CASE t = 2 -> 2 [] t = 3 -> 5 [] t = 4 -> 2 [] t = 6 -> 5 [] OTHER -> 1

LEMMA SevenTasks ==
    /\ DOMAIN Tasks = 1..7 /\ Len(Tasks) = 7
    /\ DOMAIN MARTS = 1..5 /\ Mart = {MARTS[i] : i \in 1..5}
  BY DEF Tasks, MARTS, Mart

LEMMA WorkIsSeq ==
    ASSUME NEW t \in 1..7
    PROVE  /\ Work(Tasks[t]) \in Seq({Work(Tasks[t])[i] : i \in 1..Size(t)})
           /\ Len(Work(Tasks[t])) = Size(t)
  <1>1. CASE t = 1
    BY <1>1 DEF Work, Tasks, Size
  <1>2. CASE t = 2
    BY <1>2 DEF Work, Tasks, Size
  <1>3. CASE t = 3
    BY <1>3 DEF Work, Tasks, Size
  <1>4. CASE t = 4
    BY <1>4 DEF Work, Tasks, Size
  <1>5. CASE t = 5
    BY <1>5 DEF Work, Tasks, Size
  <1>6. CASE t = 6
    <2>1. Work(Tasks[t]) = [i \in 1..5 |-> Op("load", MARTS[i])]
      BY <1>6, SevenTasks DEF Work, Tasks
    <2> QED
      BY <1>6, <2>1 DEF Size
  <1>7. CASE t = 7
    BY <1>7 DEF Work, Tasks, Size
  <1> QED
    BY <1>1, <1>2, <1>3, <1>4, <1>5, <1>6, <1>7

LEMMA SizeRange == /\ \A t \in 1..7 : Size(t) \in 1..5
                   /\ Size(1) = 1 /\ Size(2) = 2 /\ Size(3) = 5 /\ Size(4) = 2
                   /\ Size(5) = 1 /\ Size(6) = 5 /\ Size(7) = 1
  BY DEF Size

LEMMA RestSize ==
    ASSUME NEW t \in 1..7, NEW rest \in Rests(Work(Tasks[t]))
    PROVE  Len(rest) \in 1..Size(t) /\ Len(rest) \in 1..5
  <1>1. Len(rest) \in 1..Size(t)
    BY WorkIsSeq, RestFacts
  <1>2. Size(t) \in 1..5
    BY SizeRange
  <1>3. \A s \in 1..5 : \A l \in 1..s : l \in 1..5
    OBVIOUS
  <1> QED
    BY <1>1, <1>2, <1>3

\* The operation an attempt is at, by what it has left to do.
LEMMA Where ==
    ASSUME task \in 1..7, todo \in Rests(Work(Tasks[task]))
    PROVE  /\ Len(todo) \in 1..Size(task)
           /\ \/ task = 1 /\ Len(todo) = 1 /\ Head(todo) = Op("probe", Null)
              \/ task = 2 /\ Len(todo) = 2 /\ Head(todo) = Op("publish", "transactions")
              \/ task = 2 /\ Len(todo) = 1 /\ Head(todo) = Op("publish", "settlements")
              \/ task = 3 /\ Len(todo) = 5 /\ Head(todo) = Op("read", "transactions")
              \/ task = 3 /\ Len(todo) = 4 /\ Head(todo) = Op("commit", "transactions")
              \/ task = 3 /\ Len(todo) = 3 /\ Head(todo) = Op("read", "settlements")
              \/ task = 3 /\ Len(todo) = 2 /\ Head(todo) = Op("commit", "settlements")
              \/ task = 3 /\ Len(todo) = 1 /\ Head(todo) = Op("total", Null)
              \/ task = 4 /\ Len(todo) = 2 /\ Head(todo) = Op("stage", "transactions")
              \/ task = 4 /\ Len(todo) = 1 /\ Head(todo) = Op("stage", "settlements")
              \/ task = 5 /\ Len(todo) = 1 /\ Head(todo) = Op("build", Null)
              \/ task = 6 /\ Len(todo) \in 1..5 /\ Head(todo) = Op("load", MARTS[6 - Len(todo)])
              \/ task = 7 /\ Len(todo) = 1 /\ Head(todo) = Op("check", Null)
  <1> DEFINE n == Len(todo)
             w == Work(Tasks[task])
  <1>1. n \in 1..Size(task) /\ Head(todo) = w[Size(task) - n + 1]
    BY WorkIsSeq, RestFacts
  <1> HIDE DEF n
  <1>2. CASE task \in {1, 5, 7}
    <2>1. Size(task) = 1
      BY <1>2 DEF Size
    <2>2. w[1] = Op(IF task = 1 THEN "probe" ELSE IF task = 5 THEN "build" ELSE "check", Null)
      BY <1>2 DEF Work, Tasks
    <2>3. n = 1
      BY <1>1, <2>1
    <2> QED
      BY <1>1, <1>2, <2>1, <2>2, <2>3 DEF n
  <1>3. CASE task = 2
    <2>1. Size(task) = 2
      BY <1>3 DEF Size
    <2>2. w[1] = Op("publish", "transactions") /\ w[2] = Op("publish", "settlements")
      BY <1>3 DEF Work, Tasks
    <2>3. \E k \in {1, 2} : n = k /\ Size(task) - n + 1 = 3 - k
      BY <1>1, <2>1
    <2> QED
      BY <1>1, <1>3, <2>1, <2>2, <2>3 DEF n
  <1>4. CASE task = 3
    <2>1. Size(task) = 5
      BY <1>4 DEF Size
    <2>2. /\ w[1] = Op("read", "transactions") /\ w[2] = Op("commit", "transactions")
          /\ w[3] = Op("read", "settlements") /\ w[4] = Op("commit", "settlements")
          /\ w[5] = Op("total", Null)
      BY <1>4 DEF Work, Tasks
    <2>3. \E k \in {1, 2, 3, 4, 5} : n = k /\ Size(task) - n + 1 = 6 - k
      BY <1>1, <2>1
    <2> QED
      BY <1>1, <1>4, <2>1, <2>2, <2>3 DEF n
  <1>5. CASE task = 4
    <2>1. Size(task) = 2
      BY <1>5 DEF Size
    <2>2. w[1] = Op("stage", "transactions") /\ w[2] = Op("stage", "settlements")
      BY <1>5 DEF Work, Tasks
    <2>3. \E k \in {1, 2} : n = k /\ Size(task) - n + 1 = 3 - k
      BY <1>1, <2>1
    <2> QED
      BY <1>1, <1>5, <2>1, <2>2, <2>3 DEF n
  <1>6. CASE task = 6
    <2>1. n \in 1..5 /\ Size(task) = 5
      BY <1>1, <1>6 DEF Size
    <2>2. w = [i \in 1..5 |-> Op("load", MARTS[i])]
      BY <1>6, SevenTasks DEF Work, Tasks
    <2>3. 5 - n + 1 \in 1..5 /\ 5 - n + 1 = 6 - n
      BY <2>1
    <2> QED
      BY <1>1, <1>6, <2>1, <2>2, <2>3 DEF n
  <1> QED
    BY <1>1, <1>2, <1>3, <1>4, <1>5, <1>6 DEF n

\* What the scheduler does after an operation, and after an exception.
LEMMA Advances ==
    ASSUME task \in 1..7, try \in 1..2, todo \in Rests(Work(Tasks[task])), Advance
    PROVE  /\ task' \in 1..7 /\ try' \in 1..2 /\ todo' \in Rests(Work(Tasks[task']))
           /\ params' = params
           /\ \/ Len(todo) > 1 /\ Len(todo') = Len(todo) - 1 /\ UNCHANGED <<state, task, try>>
              \/ /\ Len(todo) = 1 /\ task < 7 /\ task' = task + 1 /\ try' = 1
                 /\ Len(todo') = Size(task + 1) /\ state' = state
              \/ Len(todo) = 1 /\ task = 7 /\ state' = "success" /\ UNCHANGED <<task, try, todo>>
  <1>1. params' = params
    BY DEF Advance
  <1>2. CASE NextOp
    <2>1. Tail(todo) \in Rests(Work(Tasks[task])) /\ Len(Tail(todo)) = Len(todo) - 1
      BY <1>2, WorkIsSeq, RestFacts DEF NextOp
    <2> QED
      BY <1>1, <1>2, <2>1 DEF NextOp
  <1>3. CASE NextTask
    <2>1. task + 1 \in 1..7
      BY <1>3, SevenTasks DEF NextTask
    <2>2. Len(Work(Tasks[task + 1])) = Size(task + 1) /\ Len(Work(Tasks[task + 1])) # 0
      <3>1. Len(Work(Tasks[task + 1])) = Size(task + 1)
        BY <2>1, WorkIsSeq
      <3>2. Size(task + 1) # 0
        BY <2>1, SizeRange
      <3> QED
        BY <3>1, <3>2
    <2>3. Work(Tasks[task + 1]) \in Rests(Work(Tasks[task + 1]))
      BY <2>1, <2>2, WorkIsSeq, WholeIsRest
    <2> QED
      BY <1>1, <1>3, <2>1, <2>2, <2>3, SevenTasks DEF NextTask
  <1>4. CASE Finish
    BY <1>1, <1>4, SevenTasks DEF Finish
  <1> QED
    BY <1>2, <1>3, <1>4 DEF Advance

LEMMA Retries ==
    ASSUME task \in 1..7, try \in 1..2, todo \in Rests(Work(Tasks[task])), Retry
    PROVE  /\ task' = task /\ try' \in 1..2 /\ todo' \in Rests(Work(Tasks[task']))
           /\ params' = params
           /\ \/ try = 1 /\ try' = 2 /\ Len(todo') = Size(task) /\ state' = state
              \/ try = 2 /\ state' = "failed" /\ try' = try /\ todo' = todo
  <1>1. Work(Tasks[task]) \in Rests(Work(Tasks[task])) /\ Len(Work(Tasks[task])) = Size(task)
    <2>1. Len(Work(Tasks[task])) = Size(task)
      BY WorkIsSeq
    <2>2. Size(task) # 0
      BY SizeRange
    <2>3. Len(Work(Tasks[task])) # 0
      BY <2>1, <2>2
    <2> QED
      BY <2>1, <2>3, WorkIsSeq, WholeIsRest
  <1> QED
    BY <1>1 DEF Retry, Again, GiveUp, Tries

\* TypeOK, of what the scheduler keeps and of what the operations work on.
ControlTypes ==
    /\ params \in Params
    /\ state \in {"none", "running", "success", "failed"}
    /\ task \in DOMAIN Tasks /\ try \in 1..Tries
    /\ todo \in Rests(Work(Tasks[task]))
    /\ hand \in Batch \cup {Null}
    /\ {runs, hands, faults, hits} \subseteq Nat
    /\ silent \in BOOLEAN
DataTypes ==
    /\ topic \in [Part -> Seq(Batch)]
    /\ low \in [Part -> Nat] /\ read \in [Part -> Nat]
    /\ committed \in [Suffix -> [Part -> Nat]]
    /\ \A p \in Part : /\ low[p] <= Len(topic[p]) /\ read[p] <= Len(topic[p])
                       /\ \A x \in Suffix : committed[x][p] <= Len(topic[p])
    /\ wrote \in BOOLEAN
    /\ raw \in [Part -> SUBSET Batch] /\ staged \in [Part -> SUBSET Batch]
    /\ marts \in [Mart -> [Part -> SUBSET Batch]] /\ served \in [Mart -> [Part -> SUBSET Batch]]

LEMMA TypeParts == TypeOK <=> ControlTypes /\ DataTypes
  <1>1. ASSUME TypeOK PROVE DataTypes
    <2>1. \A p \in Part : /\ low[p] \in 0..Len(topic[p]) /\ read[p] \in 0..Len(topic[p])
                          /\ \A x \in Suffix : committed[x][p] \in 0..Len(topic[p])
      BY <1>1 DEF TypeOK
    <2>2. \A p \in Part : Len(topic[p]) \in Nat
      BY <1>1 DEF TypeOK
    <2>3. low \in [Part -> Nat] /\ read \in [Part -> Nat]
      BY <1>1 DEF TypeOK
    <2> QED
      BY <1>1, <2>1, <2>2, <2>3 DEF TypeOK, DataTypes
  <1>2. ASSUME DataTypes, ControlTypes PROVE TypeOK
    <2>1. \A p \in Part : Len(topic[p]) \in Nat
      BY <1>2 DEF DataTypes
    <2>2. \A p \in Part : {low[p], read[p]} \cup {committed[x][p] : x \in Suffix}
                             \subseteq 0..Len(topic[p])
      BY <1>2, <2>1 DEF DataTypes
    <2> QED
      BY <1>2, <2>2 DEF TypeOK, DataTypes, ControlTypes
  <1>3. ASSUME TypeOK PROVE ControlTypes
    BY <1>3 DEF TypeOK, ControlTypes
  <1> QED
    BY <1>1, <1>2, <1>3

LEMMA TypePartsNext == TypeOK' <=> ControlTypes' /\ DataTypes'
  BY TypeParts, PTL

LEMMA TwoParts == Part = {"transactions", "settlements"}
  BY DEF Part

\* Where a drain starts.
LEMMA PositionFacts ==
    ASSUME DataTypes, params.suffix \in Suffix, NEW p \in Part
    PROVE  /\ Position(p) \in 0..Len(topic[p])
           /\ low[p] <= Position(p) /\ committed[params.suffix][p] <= Position(p)
           /\ Position(p) \in {low[p], committed[params.suffix][p]}
  <1> DEFINE c == committed[params.suffix][p]
  <1>1. c \in Nat /\ low[p] \in Nat /\ Len(topic[p]) \in Nat /\ c <= Len(topic[p]) /\ low[p] <= Len(topic[p])
    BY DEF DataTypes
  <1>2. \E m \in {c, low[p]} : \A y \in {c, low[p]} : m >= y
    BY <1>1
  <1>3. Position(p) \in {c, low[p]} /\ \A y \in {c, low[p]} : Position(p) >= y
    BY <1>2 DEF Position, Max
  <1> QED
    BY <1>1, <1>3

Data == DataTypes /\ Contained /\ OffsetsFollowRaw

\* Messages are appended: by the generator of a run, and by hand.
LEMMA AppendData ==
    ASSUME Data, NEW p \in Part, NEW b \in Batch,
           topic' = [topic EXCEPT ![p] = Append(@, b)],
           UNCHANGED <<low, committed, read, wrote, datavars>>
    PROVE  Data'
  <1> USE DEF Data, datavars
  <1>1. topic' \in [Part -> Seq(Batch)]
    BY DEF DataTypes
  <1>2. ASSUME NEW q \in Part
        PROVE  /\ Len(topic[q]) \in Nat /\ Len(topic'[q]) \in Nat
               /\ Len(topic'[q]) >= Len(topic[q])
               /\ \A i \in 1..Len(topic[q]) : topic'[q][i] = topic[q][i]
    BY DEF DataTypes
  <1>3. DataTypes'
    <2>1. \A q \in Part : /\ low[q] <= Len(topic'[q]) /\ read[q] <= Len(topic'[q])
                          /\ \A x \in Suffix : committed[x][q] <= Len(topic'[q])
      BY <1>2 DEF DataTypes
    <2> QED
      BY <1>1, <2>1 DEF DataTypes
  <1>4. Contained'
    BY DEF Contained
  <1>5. OffsetsFollowRaw'
    <2> SUFFICES ASSUME NEW q \in Part, NEW i \in DOMAIN topic'[q],
                        i <= read[q] \/ \E x \in Suffix : i <= committed[x][q]
                 PROVE  topic'[q][i] \in raw[q] \/ i <= low[q]
      BY DEF OffsetsFollowRaw
    <2>1. i \in 1..Len(topic[q]) /\ DOMAIN topic[q] = 1..Len(topic[q])
      <3>1. i \in Nat /\ i >= 1
        BY <1>1, LenProperties
      <3>2. read[q] \in Nat /\ \A x \in Suffix : committed[x][q] \in Nat
        BY DEF DataTypes
      <3> QED
        BY <1>2, <3>1, <3>2 DEF DataTypes
    <2> QED
      BY <1>2, <2>1 DEF OffsetsFollowRaw
  <1> QED
    BY <1>3, <1>4, <1>5

\* A drain copies what it reads, and what it commits then is in the raw layer.
LEMMA CopyData ==
    ASSUME Data, params.suffix \in Suffix, NEW p \in Part,
           NEW to \in Position(p) .. Len(topic[p]), Copied(p, to),
           read' \in [Part -> Nat], wrote' \in BOOLEAN,
           committed' \in [Suffix -> [Part -> Nat]],
           \A q \in Part : read'[q] <= read[q] \/ (q = p /\ read'[q] <= to),
           \A x \in Suffix, q \in Part :
               committed'[x][q] <= committed[x][q] \/ (q = p /\ committed'[x][q] <= to),
           UNCHANGED <<topic, low, staged, marts, served>>
    PROVE  Data'
  <1> USE DEF Data
  <1>1. /\ Position(p) \in Nat /\ Position(p) <= to /\ to \in Nat /\ to <= Len(topic[p])
        /\ Len(topic[p]) \in Nat
    BY PositionFacts DEF DataTypes
  <1>2. \A i \in 1..Len(topic[p]) : topic[p][i] \in Batch
    BY DEF DataTypes
  <1>3. /\ raw' \in [Part -> SUBSET Batch] /\ \A q \in Part : raw[q] \subseteq raw'[q]
        /\ \A i \in Position(p) + 1 .. to : topic[p][i] \in raw'[p]
    <2>1. {topic[p][i] : i \in Position(p) + 1 .. to} \subseteq Batch
      BY <1>1, <1>2
    <2> QED
      BY <2>1 DEF DataTypes, Copied
  <1>4. DataTypes'
    <2>1. \A q \in Part : /\ low[q] <= Len(topic[q]) /\ read'[q] <= Len(topic[q])
                          /\ \A x \in Suffix : committed'[x][q] <= Len(topic[q])
      <3> TAKE q \in Part
      <3>1. /\ Len(topic[q]) \in Nat /\ read[q] \in Nat /\ read'[q] \in Nat
            /\ \A x \in Suffix : committed[x][q] \in Nat /\ committed'[x][q] \in Nat
        BY DEF DataTypes
      <3>2. /\ low[q] <= Len(topic[q]) /\ read[q] <= Len(topic[q])
            /\ \A x \in Suffix : committed[x][q] <= Len(topic[q])
        BY DEF DataTypes
      <3>3. read'[q] <= Len(topic[q])
        BY <1>1, <3>1, <3>2
      <3>4. \A x \in Suffix : committed'[x][q] <= Len(topic[q])
        <4> TAKE x \in Suffix
        <4>1. /\ committed[x][q] \in Nat /\ committed'[x][q] \in Nat
              /\ committed[x][q] <= Len(topic[q])
          BY <3>1, <3>2
        <4>2. committed'[x][q] <= committed[x][q] \/ (q = p /\ committed'[x][q] <= to)
          OBVIOUS
        <4> QED
          BY <1>1, <3>1, <4>1, <4>2
      <3> QED
        BY <3>2, <3>3, <3>4
    <2> QED
      BY <1>3, <2>1 DEF DataTypes
  <1>5. Contained'
    BY <1>3 DEF Contained
  <1>6. OffsetsFollowRaw'
    <2> SUFFICES ASSUME NEW q \in Part, NEW i \in DOMAIN topic[q],
                        i <= read'[q] \/ \E x \in Suffix : i <= committed'[x][q]
                 PROVE  topic[q][i] \in raw'[q] \/ i <= low[q]
      BY DEF OffsetsFollowRaw
    <2>1. i \in Nat /\ i >= 1 /\ i \in DOMAIN topic[q]
      BY LenProperties DEF DataTypes
    <2>2. /\ read[q] \in Nat /\ read'[q] \in Nat /\ low[q] \in Nat
          /\ \A x \in Suffix : committed[x][q] \in Nat /\ committed'[x][q] \in Nat
      BY DEF DataTypes
    <2>3. CASE i <= read[q] \/ \E x \in Suffix : i <= committed[x][q]
      BY <1>3, <2>3 DEF OffsetsFollowRaw
    <2>4. CASE q = p /\ i <= to
      <3>1. CASE i <= Position(p)
        <4>1. i <= low[p] \/ i <= committed[params.suffix][p]
          BY <2>4, <3>1, PositionFacts
        <4> QED
          BY <1>3, <2>4, <4>1 DEF OffsetsFollowRaw
      <3>2. CASE i > Position(p)
        <4>1. i \in Position(p) + 1 .. to
          BY <1>1, <2>1, <2>4, <3>2
        <4> QED
          BY <1>3, <2>4, <4>1
      <3> QED
        BY <1>1, <2>1, <3>1, <3>2
    <2>5. ASSUME i <= read'[q]
          PROVE  i <= read[q] \/ (q = p /\ i <= to)
      BY <1>1, <2>1, <2>2, <2>5
    <2>6. ASSUME NEW x \in Suffix, i <= committed'[x][q]
          PROVE  i <= committed[x][q] \/ (q = p /\ i <= to)
      BY <1>1, <2>1, <2>2, <2>6
    <2> QED
      BY <2>3, <2>4, <2>5, <2>6
  <1> QED
    BY <1>4, <1>5, <1>6

\* Offsets move back, or forward over what an open consumer has read: a commit,
\* and the reset of a consumer.
LEMMA OffsetData ==
    ASSUME Data,
           read' \in [Part -> Nat], committed' \in [Suffix -> [Part -> Nat]],
           \A q \in Part : read'[q] <= read[q],
           \A x \in Suffix, q \in Part :
               committed'[x][q] <= committed[x][q] \/ committed'[x][q] <= read[q],
           UNCHANGED <<topic, low, wrote, datavars>>
    PROVE  Data'
  <1> USE DEF Data, datavars
  <1>1. \A q \in Part : /\ Len(topic[q]) \in Nat /\ read[q] \in Nat /\ read'[q] \in Nat
                        /\ \A x \in Suffix : committed[x][q] \in Nat /\ committed'[x][q] \in Nat
    BY DEF DataTypes
  <1>2. DataTypes'
    <2>1. \A q \in Part : low[q] <= Len(topic[q]) /\ read'[q] <= Len(topic[q])
      BY <1>1 DEF DataTypes
    <2>2. \A x \in Suffix, q \in Part : committed'[x][q] <= Len(topic[q])
      <3> TAKE x \in Suffix, q \in Part
      <3>1. committed'[x][q] <= committed[x][q] \/ committed'[x][q] <= read[q]
        OBVIOUS
      <3>2. committed[x][q] <= Len(topic[q]) /\ read[q] <= Len(topic[q])
        BY DEF DataTypes
      <3> QED
        BY <1>1, <3>1, <3>2
    <2> QED
      BY <2>1, <2>2 DEF DataTypes
  <1>3. Contained'
    BY DEF Contained
  <1>4. OffsetsFollowRaw'
    <2> SUFFICES ASSUME NEW q \in Part, NEW i \in DOMAIN topic[q],
                        i <= read'[q] \/ \E x \in Suffix : i <= committed'[x][q]
                 PROVE  topic[q][i] \in raw[q] \/ i <= low[q]
      BY DEF OffsetsFollowRaw
    <2>1. i \in Nat
      BY LenProperties DEF DataTypes
    <2>2. ASSUME i <= read'[q] PROVE i <= read[q]
      BY <1>1, <2>1, <2>2
    <2>3. ASSUME NEW x \in Suffix, i <= committed'[x][q]
          PROVE  i <= read[q] \/ i <= committed[x][q]
      BY <1>1, <2>1, <2>3
    <2> QED
      BY <2>2, <2>3 DEF OffsetsFollowRaw
  <1> QED
    BY <1>2, <1>3, <1>4

\* The layers after raw are made from the one before them, or a part of it.
LEMMA LayerData ==
    ASSUME Data,
           staged' \in [Part -> SUBSET Batch], \A p \in Part : staged'[p] \subseteq raw[p],
           marts' \in [Mart -> [Part -> SUBSET Batch]],
           served' \in [Mart -> [Part -> SUBSET Batch]],
           \A m \in Mart : /\ marts'[m] \in {marts[m], Content(m)}
                           /\ served'[m] \in {served[m], marts[m]},
           UNCHANGED <<logvars, raw>>
    PROVE  Data'
  <1> USE DEF Data, logvars
  <1>1. DataTypes'
    BY DEF DataTypes
  <1>2. OffsetsFollowRaw'
    BY DEF OffsetsFollowRaw
  <1>3. \A m \in Mart, p \in Part : Content(m)[p] = IF p \in Needs(m) THEN staged[p] ELSE {}
    BY DEF Content
  <1>4. Contained'
    <2>1. \A m \in Mart, p \in Part :
            marts'[m][p] \subseteq IF p \in Needs(m) THEN raw[p] ELSE {}
      <3> TAKE m \in Mart, p \in Part
      <3>1. CASE marts'[m] = marts[m]
        BY <3>1 DEF Contained
      <3>2. CASE marts'[m] = Content(m)
        BY <1>3, <3>2 DEF Contained
      <3> QED
        BY <3>1, <3>2
    <2>2. \A m \in Mart, p \in Part :
            served'[m][p] \subseteq IF p \in Needs(m) THEN raw[p] ELSE {}
      BY DEF Contained
    <2> QED
      BY <2>1, <2>2 DEF Contained, Needs
  <1> QED
    BY <1>1, <1>2, <1>4

\* Whatever an operation does, dying half way or reading less than there is.
Works == \/ UNCHANGED <<logvars, datavars>>
         \/ Effect(Head(todo))
         \/ HalfDone(Head(todo))
         \/ /\ Head(todo).what = "read"
            /\ \E to \in Position(Head(todo).on) .. Len(topic[Head(todo).on]) - 1 :
                  Drain(Head(todo), to)

LEMMA WorksData ==
    ASSUME Data, ControlTypes, Works
    PROVE  Data'
  <1> DEFINE op == Head(todo)
  <1> USE TwoParts DEF Data
  <1>1. task \in 1..7 /\ todo \in Rests(Work(Tasks[task])) /\ params \in Params
    BY SevenTasks DEF ControlTypes
  <1>2. params.suffix \in Suffix
    BY <1>1 DEF Params
  <1>3. /\ op.what \in {"publish", "read", "commit", "stage"} => op.on \in Part
        /\ op.what = "load" => op.on \in Mart
    <2>1. CASE task = 6
      <3>1. Head(todo) = Op("load", MARTS[6 - Len(todo)]) /\ Len(todo) \in 1..5
        BY <1>1, <2>1, Where
      <3>2. \A k \in 1..5 : 6 - k \in 1..5
        OBVIOUS
      <3>3. MARTS[6 - Len(todo)] \in Mart
        BY <3>1, <3>2, SevenTasks
      <3> QED
        BY <3>1, <3>3 DEF Op
    <2>2. CASE task # 6
      BY <1>1, <2>2, Where DEF Op
    <2> QED
      BY <2>1, <2>2
  <1>4. \A p \in Part : p \in DOMAIN read /\ read[p] \in Nat /\ Len(topic[p]) \in Nat
    BY DEF DataTypes
  <1> HIDE DEF op
  <1>5. CASE UNCHANGED <<logvars, datavars>>
    BY <1>5 DEF DataTypes, Contained, OffsetsFollowRaw, logvars, datavars
  <1>6. CASE Publish(op)
    <2>1. CASE params.skip
      BY <1>6, <2>1 DEF Publish, DataTypes, Contained, OffsetsFollowRaw, logvars, datavars
    <2>2. CASE ~params.skip
      <3>1. params.seed \in Batch
        BY <1>1, <2>2 DEF Params
      <3> QED
        BY <1>3, <1>6, <2>2, <3>1, AppendData DEF Publish
    <2> QED
      BY <2>1, <2>2
  <1>7. ASSUME NEW to, to \in Position(op.on) .. Len(topic[op.on]), Drain(op, to)
        PROVE  Data'
    <2>1. op.on \in Part /\ to \in Nat
      BY <1>2, <1>3, <1>4, <1>7, PositionFacts DEF Drain
    <2>2. /\ read' \in [Part -> Nat]
          /\ \A q \in Part : read'[q] <= read[q] \/ (q = op.on /\ read'[q] <= to)
      BY <1>4, <1>7, <2>1 DEF Drain, DataTypes
    <2>3. wrote' \in BOOLEAN
      BY <1>7 DEF Drain, DataTypes
    <2>4. \A x \in Suffix, q \in Part : committed'[x][q] <= committed[x][q]
      BY <1>7 DEF Drain, DataTypes
    <2>5. /\ committed' \in [Suffix -> [Part -> Nat]] /\ Copied(op.on, to)
          /\ UNCHANGED <<topic, low, staged, marts, served>>
      BY <1>7 DEF Drain, DataTypes
    <2> QED
      BY <1>2, <1>7, <2>1, <2>2, <2>3, <2>4, <2>5, CopyData
  <1>8. CASE Drain(op, Len(topic[op.on]))
    <2>1. Len(topic[op.on]) \in Position(op.on) .. Len(topic[op.on])
      BY <1>2, <1>3, <1>4, <1>8, PositionFacts DEF Drain
    <2> QED
      BY <1>7, <1>8, <2>1
  <1>9. CASE Commit(op)
    <2>1. op.on \in Part
      BY <1>3, <1>9 DEF Commit
    <2>2. read' \in [Part -> Nat] /\ \A q \in Part : read'[q] <= read[q]
      BY <1>4, <1>9, <2>1 DEF Commit, DataTypes
    <2>3. committed' \in [Suffix -> [Part -> Nat]]
      BY <1>2, <1>4, <1>9, <2>1 DEF Commit, DataTypes
    <2>4. \A x \in Suffix, q \in Part :
            committed'[x][q] <= committed[x][q] \/ committed'[x][q] <= read[q]
      BY <1>2, <1>4, <1>9, <2>1 DEF Commit, DataTypes
    <2> QED
      BY <1>9, <2>2, <2>3, <2>4, OffsetData DEF Commit
  <1>10. ASSUME NEW rows, rows \subseteq raw[op.on], Stage(op, rows) PROVE Data'
    <2>1. op.on \in Part
      BY <1>3, <1>10 DEF Stage
    <2>2. /\ staged' \in [Part -> SUBSET Batch] /\ \A p \in Part : staged'[p] \subseteq raw[p]
          /\ UNCHANGED <<logvars, raw, marts, served>>
      BY <1>10, <2>1 DEF Stage, DataTypes, Contained
    <2> QED
      BY <2>2, LayerData DEF DataTypes
  <1>11. ASSUME NEW built, Build(op, built) PROVE Data'
    <2>1. \A m \in Mart : Content(m) \in [Part -> SUBSET Batch]
      BY DEF DataTypes, Content
    <2>2. /\ marts' \in [Mart -> [Part -> SUBSET Batch]]
          /\ \A m \in Mart : marts'[m] \in {marts[m], Content(m)}
          /\ UNCHANGED <<logvars, raw, staged, served>>
      BY <1>11, <2>1 DEF Build, DataTypes
    <2> QED
      BY <2>2, LayerData DEF DataTypes, Contained
  <1>12. CASE Load(op)
    <2>1. op.on \in Mart
      BY <1>3, <1>12 DEF Load
    <2>2. /\ served' \in [Mart -> [Part -> SUBSET Batch]]
          /\ \A m \in Mart : served'[m] \in {served[m], marts[m]}
          /\ UNCHANGED <<logvars, raw, staged, marts>>
      BY <1>12, <2>1 DEF Load, DataTypes
    <2> QED
      BY <2>2, LayerData DEF DataTypes, Contained
  <1>13. ASSUME NEW to \in Position(op.on) .. Len(topic[op.on]),
                NEW done \in Position(op.on) .. to, DrainSome(op, to, done)
         PROVE  Data'
    <2>1. op.on \in Part /\ to \in Nat /\ done \in Nat /\ done <= to
      BY <1>2, <1>3, <1>4, <1>13, PositionFacts DEF DrainSome
    <2>2. committed' \in [Suffix -> [Part -> Nat]]
      BY <1>2, <1>13, <2>1 DEF DrainSome, DataTypes
    <2>3. \A x \in Suffix, q \in Part :
            committed'[x][q] <= committed[x][q] \/ (q = op.on /\ committed'[x][q] <= to)
      BY <1>2, <1>4, <1>13, <2>1 DEF DrainSome, DataTypes
    <2>4. \A q \in Part : read'[q] <= read[q]
      BY <1>4, <1>13 DEF DrainSome
    <2>5. /\ read' \in [Part -> Nat] /\ wrote' \in BOOLEAN /\ Copied(op.on, to)
          /\ UNCHANGED <<topic, low, staged, marts, served>>
      BY <1>13 DEF DrainSome, DataTypes
    <2> QED
      BY <1>2, <1>13, <2>1, <2>2, <2>3, <2>4, <2>5, CopyData
  <1>14. CASE Effect(op)
    <2>1. CASE Look(op)
      BY <1>5, <2>1 DEF Look
    <2> QED
      BY <1>6, <1>8, <1>9, <1>10, <1>11, <1>12, <1>14, <2>1 DEF Effect
  <1>15. CASE HalfDone(op)
    BY <1>10, <1>11, <1>13, <1>15 DEF HalfDone
  <1>16. ASSUME op.what = "read", NEW to \in Position(op.on) .. Len(topic[op.on]) - 1, Drain(op, to)
         PROVE  Data'
    <2>1. to \in Position(op.on) .. Len(topic[op.on])
      BY <1>2, <1>3, <1>4, <1>16, PositionFacts
    <2> QED
      BY <1>7, <1>16, <2>1
  <1> QED
    BY <1>5, <1>14, <1>15, <1>16 DEF Works, op

\* What each task leaves alone.
LEMMA WorksFrame ==
    ASSUME Data, ControlTypes, Works
    PROVE  /\ low' = low
           /\ \A p \in Part : raw[p] \subseteq raw'[p]
           /\ \A p \in Part : /\ Len(topic[p]) <= Len(topic'[p])
                              /\ \A i \in 1..Len(topic[p]) : topic'[p][i] = topic[p][i]
           /\ task # 3 => raw' = raw
           /\ task # 4 => staged' = staged
           /\ task = 4 /\ Len(todo) = 1 => staged'["transactions"] = staged["transactions"]
           /\ task # 5 => marts' = marts
           /\ task # 6 => served' = served
           /\ \A m \in Mart : served'[m] # served[m] =>
                 task = 6 /\ m = MARTS[6 - Len(todo)] /\ served'[m] = marts[m]
  <1> DEFINE op == Head(todo)
  <1> USE TwoParts DEF Data
  <1>1. task \in 1..7 /\ todo \in Rests(Work(Tasks[task])) /\ params \in Params
    BY SevenTasks DEF ControlTypes
  <1>2. /\ op.what = "publish" => task = 2 /\ op.on \in Part
        /\ op.what \in {"read", "commit"} => task = 3 /\ op.on \in Part
        /\ op.what = "stage" => task = 4 /\ op.on \in Part /\ (Len(todo) = 1 => op.on # "transactions")
        /\ op.what = "build" => task = 5
        /\ op.what = "load" => task = 6 /\ op.on = MARTS[6 - Len(todo)]
    BY <1>1, Where DEF Op
  <1> HIDE DEF op
  <1>3. \A p \in Part : Len(topic[p]) \in Nat
    BY DEF DataTypes
  <1>4. CASE UNCHANGED <<logvars, datavars>>
    BY <1>3, <1>4 DEF logvars, datavars
  <1>5. CASE Publish(op)
    <2>1. \A p \in Part : /\ Len(topic[p]) <= Len(topic'[p])
                          /\ \A i \in 1..Len(topic[p]) : topic'[p][i] = topic[p][i]
      <3>1. CASE params.skip
        BY <1>3, <1>5, <3>1 DEF Publish
      <3>2. CASE ~params.skip
        <4>1. params.seed \in Batch /\ topic' = [topic EXCEPT ![op.on] = Append(@, params.seed)]
          BY <1>1, <1>5, <3>2 DEF Params, Publish
        <4> QED
          BY <1>2, <1>3, <1>5, <4>1 DEF Publish, DataTypes
      <3> QED
        BY <3>1, <3>2
    <2> QED
      BY <1>2, <1>5, <2>1 DEF Publish, datavars
  <1>6. ASSUME NEW p \in Part, NEW to, Copied(p, to)
        PROVE  \A q \in Part : raw[q] \subseteq raw'[q]
    BY <1>6 DEF Copied, DataTypes
  <1>7. ASSUME NEW to, Drain(op, to) \/ \E done : DrainSome(op, to, done)
        PROVE  /\ task = 3 /\ \A q \in Part : raw[q] \subseteq raw'[q]
               /\ UNCHANGED <<topic, low, staged, marts, served>>
    BY <1>2, <1>6, <1>7 DEF Drain, DrainSome
  <1>8. CASE \E to : Drain(op, to) \/ \E done : DrainSome(op, to, done)
    <2>1. /\ task = 3 /\ \A q \in Part : raw[q] \subseteq raw'[q]
          /\ UNCHANGED <<topic, low, staged, marts, served>>
      BY <1>7, <1>8
    <2> QED
      BY <1>3, <2>1
  <1>9. CASE Commit(op)
    BY <1>2, <1>3, <1>9 DEF Commit, datavars
  <1>10. CASE \E rows : Stage(op, rows)
    BY <1>2, <1>3, <1>10 DEF Stage, logvars, DataTypes
  <1>11. CASE \E built : Build(op, built)
    BY <1>2, <1>3, <1>11 DEF Build, logvars
  <1>12. CASE Load(op)
    BY <1>2, <1>3, <1>12 DEF Load, logvars, DataTypes
  <1>13. CASE Effect(op)
    <2>1. CASE Look(op)
      BY <1>4, <2>1 DEF Look
    <2> QED
      BY <1>5, <1>8, <1>9, <1>10, <1>11, <1>12, <1>13, <2>1 DEF Effect
  <1>14. CASE HalfDone(op)
    BY <1>8, <1>10, <1>11, <1>14 DEF HalfDone
  <1> QED
    BY <1>4, <1>8, <1>13, <1>14 DEF Works, op

\* What a run has behind it after an operation, and after an exception.
LEMMA NewlyDone ==
    ASSUME ControlTypes, Advance
    PROVE  /\ \A p \in Part :
                /\ Published(p)' => Published(p) \/ Head(todo) = Op("publish", p)
                /\ Drained(p)' => Drained(p) \/ Head(todo) = Op("read", p)
                /\ IsStaged(p)' => IsStaged(p) \/ Head(todo) = Op("stage", p)
           /\ task' > 5 => task > 5 \/ Head(todo) = Op("build", Null)
           /\ \A m \in Mart : Loaded(m)' => Loaded(m) \/ Head(todo) = Op("load", m)
           /\ state' = "success" => task' = 7 \/ state = "success"
           /\ task' >= task
  <1> USE TwoParts
  <1>1. task \in 1..7 /\ try \in 1..2 /\ todo \in Rests(Work(Tasks[task])) /\ Len(Tasks) = 7
    BY SevenTasks DEF ControlTypes, Tries
  <1> DEFINE n == Len(todo)
             k == Len(todo')
  <1>2. n \in 1..5 /\ k \in 1..5 /\ task' \in 1..7
    BY <1>1, Advances, RestSize
  <1>3. \/ n > 1 /\ k = n - 1 /\ task' = task /\ state' = state
        \/ n = 1 /\ task < 7 /\ task' = task + 1 /\ k = Size(task + 1) /\ state' = state
        \/ n = 1 /\ task = 7 /\ state' = "success" /\ task' = task /\ k = n
    BY <1>1, Advances
  <1>4. task' >= task /\ (state' = "success" => task' = 7 \/ state = "success")
    BY <1>1, <1>2, <1>3
  <1>5. task' > 5 => task > 5 \/ Head(todo) = Op("build", Null)
    <2>1. task' > 5 => task >= 5
      BY <1>1, <1>2, <1>3
    <2>2. task = 5 => Head(todo) = Op("build", Null)
      BY <1>1, Where
    <2> QED
      BY <1>1, <2>1, <2>2
  <1> HIDE DEF n, k
  <1>6. \A p \in Part : Published(p)' => Published(p) \/ Head(todo) = Op("publish", p)
    <2>1. CASE task < 2
      BY <1>1, <1>2, <1>3, <2>1 DEF Published, Size, k
    <2>2. CASE task = 2
      BY <1>1, <1>2, <1>3, <2>2, Where DEF Published, Size, n, k
    <2>3. CASE task > 2
      BY <1>1, <2>3 DEF Published
    <2> QED
      BY <1>1, <2>1, <2>2, <2>3
  <1>7. \A p \in Part : Drained(p)' => Drained(p) \/ Head(todo) = Op("read", p)
    <2>1. CASE task < 3
      <3>1. task' < 3 \/ (task' = 3 /\ k = 5)
        BY <1>1, <1>2, <1>3, <2>1, SizeRange
      <3> QED
        BY <1>2, <3>1 DEF Drained, k
    <2>2. CASE task = 3
      <3>1. CASE n = 5
        <4>1. k = 4 /\ task' = 3 /\ Head(todo) = Op("read", "transactions")
          BY <1>1, <1>3, <2>2, <3>1, Where DEF n
        <4> QED
          BY <4>1 DEF Drained, k
      <3>2. CASE n = 4
        <4>1. k = 3 /\ task' = 3
          BY <1>3, <2>2, <3>2
        <4> QED
          BY <2>2, <3>2, <4>1 DEF Drained, k, n
      <3>3. CASE n = 3
        <4>1. Head(todo) = Op("read", "settlements")
          BY <1>1, <2>2, <3>3, Where DEF n
        <4> QED
          BY <2>2, <3>3, <4>1 DEF Drained, n
      <3>4. CASE n <= 2
        BY <1>2, <2>2, <3>4 DEF Drained, n
      <3> QED
        BY <1>2, <3>1, <3>2, <3>3, <3>4
    <2>3. CASE task > 3
      BY <1>1, <2>3 DEF Drained
    <2> QED
      BY <1>1, <2>1, <2>2, <2>3
  <1>8. \A p \in Part : IsStaged(p)' => IsStaged(p) \/ Head(todo) = Op("stage", p)
    <2>1. CASE task < 4
      BY <1>1, <1>2, <1>3, <2>1 DEF IsStaged, Size, k
    <2>2. CASE task = 4
      BY <1>1, <1>2, <1>3, <2>2, Where DEF IsStaged, Size, n, k
    <2>3. CASE task > 4
      BY <1>1, <2>3 DEF IsStaged
    <2> QED
      BY <1>1, <2>1, <2>2, <2>3
  <1>9. ASSUME NEW m \in Mart, Loaded(m)'
        PROVE  Loaded(m) \/ Head(todo) = Op("load", m)
    <2>1. CASE task < 6
      BY <1>1, <1>2, <1>3, <1>9, <2>1 DEF Loaded, Size, k
    <2>2. CASE task = 6
      <3>1. Head(todo) = Op("load", MARTS[6 - n])
        BY <1>1, <2>2, Where DEF n
      <3>2. CASE k = n - 1 /\ task' = 6
        <4>1. PICK i \in 1 .. 5 - k : m = MARTS[i]
          BY <1>9, <3>2 DEF Loaded, k
        <4>2. i \in 1 .. 5 - n \/ i = 6 - n
          BY <1>2, <3>2, <4>1
        <4> QED
          BY <2>2, <3>1, <4>1, <4>2 DEF Loaded, n
      <3>3. CASE n = 1
        <4>1. PICK i \in 1..5 : m = MARTS[i]
          BY SevenTasks
        <4>2. i \in 1 .. 5 - n \/ i = 6 - n
          BY <3>3, <4>1
        <4> QED
          BY <2>2, <3>1, <4>1, <4>2 DEF Loaded, n
      <3> QED
        BY <1>3, <2>2, <3>2, <3>3
    <2>3. CASE task > 6
      BY <1>1, <2>3 DEF Loaded
    <2> QED
      BY <1>1, <2>1, <2>2, <2>3
  <1> QED
    BY <1>4, <1>5, <1>6, <1>7, <1>8, <1>9

LEMMA FallsBack ==
    ASSUME ControlTypes, Retry
    PROVE  /\ \A p \in Part : /\ Published(p)' => Published(p)
                              /\ Drained(p)' => Drained(p)
                              /\ IsStaged(p)' => IsStaged(p)
           /\ \A m \in Mart : Loaded(m)' => Loaded(m)
           /\ task' = task
  <1>1. task \in 1..7 /\ try \in 1..2 /\ todo \in Rests(Work(Tasks[task]))
    BY SevenTasks DEF ControlTypes, Tries
  <1>2. task' = task /\ (Len(todo') = Size(task) \/ todo' = todo)
    BY <1>1, Retries
  <1>3. CASE todo' = todo
    BY <1>2, <1>3 DEF Published, Drained, IsStaged, Loaded
  <1>4. CASE Len(todo') = Size(task)
    BY <1>1, <1>2, <1>4 DEF Published, Drained, IsStaged, Loaded, Size
  <1> QED
    BY <1>2, <1>3, <1>4

LEMMA InvInit == Init => PipeInv
  <1> SUFFICES ASSUME Init PROVE PipeInv
    OBVIOUS
  <1> USE DEF Init
  <1>1. ControlTypes
    <2>1. todo \in Rests(Work(Tasks[task])) /\ task \in DOMAIN Tasks
      <3>1. 1 \in 1..7 /\ Len(Work(Tasks[1])) # 0
        BY WorkIsSeq, SizeRange
      <3> QED
        BY <3>1, SevenTasks, WorkIsSeq, WholeIsRest
    <2>2. {runs, hands, faults, hits} \subseteq Nat
      OBVIOUS
    <2>3. try \in 1..Tries
      BY DEF Tries
    <2> QED
      BY <2>1, <2>2, <2>3 DEF ControlTypes
  <1>2. DataTypes
    <2>1. Nothing \in [Part -> SUBSET Batch]
      BY DEF Nothing
    <2>2. topic \in [Part -> Seq(Batch)] /\ \A p \in Part : Len(topic[p]) = 0
      BY DEF Part
    <2>3. /\ low \in [Part -> Nat] /\ read \in [Part -> Nat] /\ wrote \in BOOLEAN
          /\ committed \in [Suffix -> [Part -> Nat]]
      OBVIOUS
    <2>4. \A p \in Part : /\ low[p] <= Len(topic[p]) /\ read[p] <= Len(topic[p])
                          /\ \A x \in Suffix : committed[x][p] <= Len(topic[p])
      BY <2>2
    <2>5. /\ raw \in [Part -> SUBSET Batch] /\ staged \in [Part -> SUBSET Batch]
          /\ marts \in [Mart -> [Part -> SUBSET Batch]] /\ served \in [Mart -> [Part -> SUBSET Batch]]
      BY <2>1
    <2> QED
      BY <2>2, <2>3, <2>4, <2>5 DEF DataTypes
  <1>3. \A p \in Part : Nothing[p] = {}
    BY DEF Nothing
  <1>4. Contained
    BY <1>3 DEF Contained
  <1>5. OffsetsFollowRaw
    BY <1>2, LenProperties DEF OffsetsFollowRaw, DataTypes
  <1>6. Progress
    BY SizeRange, WorkIsSeq, SevenTasks DEF Progress, Published, Drained, IsStaged, Loaded
  <1>7. Accounted
    BY DEF Accounted, Tries
  <1>8. ServedIsTested
    <2>1. \A m \in Mart : Rows(served[m]) = {}
      BY <1>3 DEF Rows
    <2> QED
      BY <1>3, <2>1, TwoParts DEF ServedIsTested
  <1>9. FactsLead
    BY <1>3, SevenTasks, TwoParts DEF FactsLead, Mart, MARTS
  <1> QED
    BY <1>1, <1>2, <1>4, <1>5, <1>6, <1>7, <1>8, <1>9, TypeParts DEF PipeInv

\* An operation fell short, and the task carries on.
Short == silent' /\ Head(todo).what \in {"publish", "read"}

\* An operation ran, to its end or not, and the run goes on or gives up.
Step == /\ state = "running" /\ Works
        /\ \/ Advance /\ ~Raises(Head(todo)) /\ (Effect(Head(todo)) \/ Short)
           \/ Retry
        /\ silent \in BOOLEAN /\ silent' \in BOOLEAN /\ (silent => silent')
        /\ UNCHANGED <<runs, handvars>>

LEMMA StepControl ==
    ASSUME ControlTypes, Step, faults' \in Nat, hits' \in Nat
    PROVE  ControlTypes'
  <1>1. task \in 1..7 /\ try \in 1..2 /\ todo \in Rests(Work(Tasks[task]))
    BY SevenTasks DEF ControlTypes, Tries
  <1>2. /\ task' \in 1..7 /\ try' \in 1..2 /\ todo' \in Rests(Work(Tasks[task']))
        /\ params' = params /\ state' \in {"running", "success", "failed"}
    BY <1>1, Advances, Retries DEF Step
  <1> QED
    BY <1>2, SevenTasks DEF ControlTypes, Step, handvars, Tries

\* What the run has behind it stays true, and is true of what it does next.
LEMMA StepProgress ==
    ASSUME PipeInv, Step
    PROVE  Progress'
  <1>1. Data /\ ControlTypes /\ Works /\ state = "running" /\ params' = params /\ task \in 1..7
    BY TypeParts, SevenTasks DEF PipeInv, Data, Step, Advance, Retry, ControlTypes
  <1> DEFINE seed == params.seed
             op == Head(todo)
             goes == Advance /\ ~Raises(op) /\ (Effect(op) \/ Short)
  <1>2. \A p \in Part : /\ low[p] \in Nat /\ Len(topic[p]) \in Nat /\ Len(topic'[p]) \in Nat
                        /\ topic[p] \in Seq(Batch) /\ low[p] <= Len(topic[p])
    BY <1>1, WorksData DEF Data, DataTypes
  <1>3. goes \/ Retry
    BY DEF Step
  <1>4. /\ \A p \in Part :
             /\ Published(p)' => Published(p) \/ (goes /\ op = Op("publish", p))
             /\ Drained(p)' => Drained(p) \/ (goes /\ op = Op("read", p))
             /\ IsStaged(p)' => IsStaged(p) \/ (goes /\ op = Op("stage", p))
        /\ task' > 5 => task > 5 \/ (goes /\ op = Op("build", Null))
        /\ \A m \in Mart : Loaded(m)' => Loaded(m) \/ (goes /\ op = Op("load", m))
    <2>1. CASE goes
      BY <1>1, <2>1, NewlyDone
    <2>2. CASE Retry
      BY <1>1, <2>2, FallsBack
    <2> QED
      BY <1>3, <2>1, <2>2
  <1> HIDE DEF goes, op
  <1>5. ASSUME NEW p \in Part, ~params.skip, ~silent', Published(p)'
        PROVE  \E i \in low'[p] + 1 .. Len(topic'[p]) : topic'[p][i] = seed
    <2>1. CASE Published(p)
      <3>1. PICK i \in low[p] + 1 .. Len(topic[p]) : topic[p][i] = seed
        BY <1>1, <1>5, <2>1 DEF PipeInv, Progress, Step
      <3>2. i \in 1..Len(topic[p]) /\ i \in low[p] + 1 .. Len(topic'[p])
        BY <1>1, <1>2, WorksFrame
      <3> QED
        BY <1>1, <3>1, <3>2, WorksFrame
    <2>2. CASE goes /\ op = Op("publish", p)
      <3>1. Effect(op)
        BY <1>5, <2>2 DEF goes, Short
      <3>2. Publish(op)
        BY <2>2, <3>1 DEF Effect, Drain, Commit, Stage, Build, Load, Look, Op
      <3>3. topic'[p] = Append(topic[p], seed)
        BY <1>1, <1>5, <2>2, <3>2 DEF Publish, Op, Data, DataTypes
      <3>4. low'[p] = low[p]
        BY <1>1, WorksFrame
      <3>5. Len(topic'[p]) = Len(topic[p]) + 1 /\ topic'[p][Len(topic[p]) + 1] = seed
        BY <1>2, <3>3
      <3> QED
        BY <1>2, <3>4, <3>5
    <2> QED
      BY <1>4, <1>5, <2>1, <2>2
  <1>6. ASSUME NEW p \in Part, ~params.skip, ~silent', Drained(p)'
        PROVE  seed \in raw'[p]
    <2>1. CASE Drained(p)
      BY <1>1, <1>6, <2>1, WorksFrame DEF PipeInv, Progress, Step
    <2>2. CASE goes /\ op = Op("read", p)
      <3>1. Effect(op)
        BY <1>6, <2>2 DEF goes, Short
      <3>2. Drain(op, Len(topic[p]))
        BY <2>2, <3>1 DEF Effect, Publish, Commit, Stage, Build, Load, Look, Op
      <3>3. task = 3
        BY <1>1, <2>2, Where DEF ControlTypes, Op, op
      <3>4. PICK i \in low[p] + 1 .. Len(topic[p]) : topic[p][i] = seed
        BY <1>1, <1>6, <3>3 DEF PipeInv, Progress, Published, Step
      <3>5. /\ Position(p) \in Nat
            /\ Position(p) \in {low[p], committed[params.suffix][p]} /\ params.suffix \in Suffix
        BY <1>1, <1>2, PositionFacts DEF Data, ControlTypes, Params
      <3>6. CASE i \in Position(p) + 1 .. Len(topic[p])
        <4>1. raw'[p] = raw[p] \cup {topic[p][j] : j \in Position(p) + 1 .. Len(topic[p])}
          BY <1>1, <2>2, <3>2 DEF Drain, Copied, Op, Data, DataTypes
        <4> QED
          BY <3>4, <3>6, <4>1
      <3>7. CASE i <= Position(p)
        <4>1. i \in DOMAIN topic[p] /\ ~(i <= low[p])
          BY <1>2, <3>4, LenProperties
        <4>2. i <= committed[params.suffix][p]
          BY <3>5, <3>7, <4>1
        <4>3. seed \in raw[p]
          BY <3>4, <3>5, <4>1, <4>2 DEF PipeInv, OffsetsFollowRaw
        <4> QED
          BY <1>1, <4>3, WorksFrame
      <3> QED
        BY <1>2, <3>4, <3>5, <3>6, <3>7
    <2> QED
      BY <1>4, <1>6, <2>1, <2>2
  <1>7. ASSUME NEW p \in Part, IsStaged(p)' PROVE staged'[p] = raw'[p] /\ raw'[p] # {}
    <2>1. CASE IsStaged(p)
      <3>1. staged[p] = raw[p] /\ raw[p] # {}
        BY <2>1 DEF PipeInv, Progress
      <3>2. raw' = raw /\ staged'[p] = staged[p]
        BY <1>1, <2>1, WorksFrame DEF IsStaged
      <3> QED
        BY <3>1, <3>2
    <2>2. CASE goes /\ op = Op("stage", p)
      <3>1. ~Raises(op) /\ task = 4
        BY <1>1, <2>2, Where DEF goes, ControlTypes, Op, op
      <3>2. raw[p] # {} /\ raw' = raw
        BY <1>1, <2>2, <3>1, WorksFrame DEF Raises, Op
      <3>3. Stage(op, raw[p])
        <4>1. Effect(op)
          BY <2>2 DEF goes, Short, Op, op
        <4> QED
          BY <2>2, <4>1 DEF Effect, Publish, Drain, Commit, Build, Load, Look, Op
      <3> QED
        BY <1>1, <2>2, <3>2, <3>3 DEF Stage, Op, Data, DataTypes
    <2> QED
      BY <1>4, <1>7, <2>1, <2>2
  <1>8. ASSUME task' > 5 PROVE TestsPass' /\ \A m \in Mart : marts'[m] = Content(m)'
    <2>1. CASE task > 5
      <3>1. UNCHANGED <<staged, marts>>
        BY <1>1, <2>1, WorksFrame
      <3>2. TestsPass /\ \A m \in Mart : marts[m] = Content(m)
        BY <2>1 DEF PipeInv, Progress
      <3> QED
        BY <3>1, <3>2 DEF TestsPass, Orphans, Content, Rows
    <2>2. CASE goes /\ op = Op("build", Null)
      <3>1. ~Raises(op) /\ task = 5
        BY <1>1, <2>2, Where DEF goes, ControlTypes, Op, op
      <3>2. Build(op, Buildable)
        <4>1. Effect(op)
          BY <2>2 DEF goes, Short, Op, op
        <4> QED
          BY <2>2, <4>1 DEF Effect, Publish, Drain, Commit, Stage, Load, Look, Op
      <3>3. TestsPass /\ staged' = staged
        BY <1>1, <2>2, <3>1, WorksFrame DEF Raises, Op
      <3>4. Buildable = Mart
        BY <3>3 DEF Buildable, TestsPass
      <3>5. \A m \in Mart : marts'[m] = Content(m)
        BY <3>2, <3>4 DEF Build
      <3> QED
        BY <3>3, <3>5 DEF TestsPass, Orphans, Content, Rows
    <2> QED
      BY <1>4, <1>8, <2>1, <2>2
  <1>9. ASSUME NEW m \in Mart, Loaded(m)' PROVE served'[m] = marts'[m]
    <2>1. task >= 6 => marts' = marts
      BY <1>1, WorksFrame
    <2>2. CASE Loaded(m)
      <3>1. task >= 6 /\ served[m] = marts[m]
        BY <1>1, <2>2 DEF Loaded, PipeInv, Progress
      <3> QED
        BY <1>1, <2>1, <3>1, WorksFrame
    <2>3. CASE goes /\ op = Op("load", m)
      <3>1. task = 6
        BY <1>1, <2>3, Where DEF ControlTypes, Op, op
      <3>2. Load(op)
        <4>1. Effect(op)
          BY <2>3 DEF goes, Short, Op, op
        <4> QED
          BY <2>3, <4>1 DEF Effect, Publish, Drain, Commit, Stage, Build, Look, Op
      <3> QED
        BY <1>1, <2>1, <2>3, <3>1, <3>2 DEF Load, Op, Data, DataTypes
    <2> QED
      BY <1>4, <1>9, <2>2, <2>3
  <1>10. state' = "success" => task' = Len(Tasks)
    BY <1>1, <1>3, NewlyDone, SevenTasks DEF goes, Retry, Again, GiveUp
  <1> QED
    BY <1>1, <1>5, <1>6, <1>7, <1>8, <1>9, <1>10 DEF Progress

\* A run fails on its second attempt, and owes each attempt to something.
LEMMA StepAccounted ==
    ASSUME PipeInv, Step, faults' \in Nat, hits' \in Nat, hits' >= hits,
           Retry => hits' > hits \/ Raises(Head(todo))
    PROVE  Accounted'
  <1>1. /\ Data /\ ControlTypes /\ Works /\ state = "running" /\ params' = params
        /\ task \in 1..7 /\ try \in 1..2 /\ todo \in Rests(Work(Tasks[task])) /\ hits \in Nat
    BY TypeParts, SevenTasks DEF PipeInv, Data, Step, Advance, Retry, ControlTypes, Tries
  <1>2. try = 2 => hits >= 1 \/ Excuse
    BY DEF PipeInv, Accounted, Tries
  <1>3. ASSUME Excuse, task' = task PROVE Excuse'
    <2>1. CASE task = 3
      BY <1>1, <1>3, <2>1, WorksFrame DEF Excuse, Step
    <2>2. CASE task = 4
      BY <1>1, <1>3, <2>2, WorksFrame DEF Excuse
    <2>3. CASE task = 5
      BY <1>1, <1>3, <2>3, WorksFrame DEF Excuse, TestsPass, Orphans, Rows, Content
    <2> QED
      BY <1>3, <2>1, <2>2, <2>3 DEF Excuse
  <1>4. CASE Advance
    <2>1. task' = task \/ try' = 1
      BY <1>1, <1>4, Advances
    <2>2. try' = try \/ try' = 1
      BY <1>1, <1>4, Advances
    <2>3. state' # "failed"
      BY <1>1, <1>4, Advances
    <2> QED
      BY <1>1, <1>2, <1>3, <2>1, <2>2, <2>3 DEF Accounted, Tries
  <1>5. ASSUME Raises(Head(todo)) PROVE Excuse
    <2> DEFINE op == Head(todo)
    <2>1. CASE op.what = "total"
      <3>1. task = 3 /\ Len(todo) = 1
        BY <1>1, <2>1, Where DEF Op
      <3>2. params.skip \/ silent \/ \A p \in Part : params.seed \in raw[p]
        BY <3>1 DEF PipeInv, Progress, Drained
      <3> QED
        BY <3>1, <3>2 DEF Excuse
    <2>2. CASE op.what = "stage"
      <3>1. task = 4 /\ op.on \in Part
        BY <1>1, <2>2, Where, TwoParts DEF Op
      <3> QED
        BY <1>5, <2>2, <3>1 DEF Excuse, Raises
    <2>3. CASE op.what = "build"
      <3>1. task = 5
        BY <1>1, <2>3, Where DEF Op
      <3> QED
        BY <1>5, <2>3, <3>1 DEF Excuse, Raises
    <2>4. ASSUME task > 5, NEW m \in Mart
          PROVE  /\ marts[m] = Content(m) /\ marts[m] # Nothing
                 /\ \A p \in Needs(m) : marts[m][p] = staged[p]
      <3>1. marts[m] = Content(m) /\ staged["transactions"] # {}
        BY <1>1, <2>4, TwoParts DEF PipeInv, Progress, IsStaged
      <3>2. marts[m]["transactions"] = staged["transactions"] /\ Nothing["transactions"] = {}
        BY <3>1, TwoParts DEF Content, Needs, Nothing
      <3> QED
        BY <3>1, <3>2, TwoParts DEF Content, Needs
    <2>5. op.what # "load"
      <3> SUFFICES ASSUME op.what = "load" PROVE FALSE
        OBVIOUS
      <3>1. task = 6 /\ Len(todo) \in 1..5 /\ op.on = MARTS[6 - Len(todo)]
        BY <1>1, Where DEF Op
      <3>2. \A k \in 1..5 : 6 - k \in 1..5
        OBVIOUS
      <3>3. op.on \in Mart
        BY <3>1, <3>2, SevenTasks
      <3> QED
        BY <1>5, <2>4, <3>1, <3>3 DEF Raises
    <2>6. op.what # "check"
      <3> SUFFICES ASSUME op.what = "check" PROVE FALSE
        OBVIOUS
      <3>1. task = 7
        BY <1>1, Where DEF Op
      <3>2. \A m \in Mart : served[m] = marts[m]
        BY <3>1 DEF PipeInv, Progress, Loaded
      <3>3. {"fct_transactions", "fct_settlements", "mart_settlement_reconciliation"} \subseteq Mart
        BY SevenTasks DEF Mart, MARTS
      <3>4. ChecksPass
        BY <2>4, <3>1, <3>2, <3>3, TwoParts DEF ChecksPass, Needs
      <3> QED
        BY <1>5, <3>4 DEF Raises
    <2> QED
      BY <1>5, <2>1, <2>2, <2>3, <2>5, <2>6 DEF Raises
  <1>6. CASE Retry
    <2>1. task' = task /\ (try' = 2 \/ state' = "failed") /\ (state' = "failed" => try = 2 /\ try' = 2)
          /\ (state' # "failed" => state' = "running" /\ try = 1)
      BY <1>1, <1>6, Retries
    <2>2. hits' >= 1 \/ Excuse'
      BY <1>1, <1>3, <1>5, <1>6, <2>1
    <2>3. state' = "failed" => hits' >= 2 \/ Excuse'
      BY <1>1, <1>2, <1>3, <1>5, <1>6, <2>1
    <2> QED
      BY <2>2, <2>3 DEF Accounted
  <1> QED
    BY <1>4, <1>6 DEF Step

\* What a load does to readers: the mart is made of tested rows of all that raw has.
LEMMA LoadFacts ==
    ASSUME PipeInv, Works, NEW m \in Mart, served'[m] # served[m]
    PROVE  /\ task = 6 /\ m = MARTS[6 - Len(todo)] /\ raw' = raw
           /\ served'[m] = marts[m] /\ marts[m] = Content(m) /\ TestsPass
           /\ \A p \in Part : served'[m][p] = IF p \in Needs(m) THEN raw[p] ELSE {}
           /\ \A p \in Part : staged[p] = raw[p]
  <1>1. Data /\ ControlTypes
    BY TypeParts DEF PipeInv, Data
  <1>2. task = 6 /\ m = MARTS[6 - Len(todo)] /\ served'[m] = marts[m] /\ raw' = raw
    BY <1>1, WorksFrame
  <1>3. TestsPass /\ marts[m] = Content(m) /\ \A p \in Part : staged[p] = raw[p]
    BY <1>2 DEF PipeInv, Progress, IsStaged
  <1> QED
    BY <1>2, <1>3 DEF Content

LEMMA StepReaders ==
    ASSUME PipeInv, Works
    PROVE  ServedIsTested' /\ FactsLead'
  <1> DEFINE tx == "transactions"
             se == "settlements"
  <1>1. Data /\ ControlTypes
    BY TypeParts DEF PipeInv, Data
  <1>2. \A m \in Mart : Needs(m) = Part <=> m \in {"fct_settlements", "mart_settlement_reconciliation"}
    BY TwoParts DEF Needs
  <1>3. ServedIsTested'
    <2> SUFFICES ASSUME NEW m \in Mart
                 PROVE  /\ Rows(served'[m]) \cap Refused[m] = {}
                        /\ Needs(m) = Part => served'[m][se] \subseteq served'[m][tx]
      BY DEF ServedIsTested, Rows, Needs
    <2>1. CASE served'[m] = served[m]
      BY <2>1 DEF PipeInv, ServedIsTested
    <2>2. CASE served'[m] # served[m]
      BY <2>2, LoadFacts, TwoParts DEF TestsPass, Orphans
    <2> QED
      BY <2>1, <2>2
  <1>4. FactsLead'
    <2> DEFINE re == "mart_settlement_reconciliation"
               ft == "fct_transactions"
               fs == "fct_settlements"
    <2>1. {re, ft, fs} \subseteq Mart /\ {tx, se} = Part
      BY SevenTasks, TwoParts DEF Mart, MARTS
    <2>2. tx \in Needs(ft) /\ se \in Needs(fs)
      BY TwoParts DEF Needs
    <2>3. CASE served'[re] = served[re]
      <3>1. served[re][tx] \subseteq raw[tx] /\ served[re][se] \subseteq raw[se]
        BY <2>1 DEF PipeInv, Contained
      <3>2. served[re][tx] \subseteq served'[ft][tx]
        <4>1. CASE served'[ft] = served[ft]
          BY <4>1 DEF PipeInv, FactsLead
        <4>2. CASE served'[ft] # served[ft]
          BY <2>1, <2>2, <3>1, <4>2, LoadFacts
        <4> QED
          BY <4>1, <4>2
      <3>3. served[re][se] \subseteq served'[fs][se]
        <4>1. CASE served'[fs] = served[fs]
          BY <4>1 DEF PipeInv, FactsLead
        <4>2. CASE served'[fs] # served[fs]
          BY <2>1, <2>2, <3>1, <4>2, LoadFacts
        <4> QED
          BY <4>1, <4>2
      <3> QED
        BY <2>3, <3>2, <3>3 DEF FactsLead
    <2>4. CASE served'[re] # served[re]
      <3>1. /\ task = 6 /\ re = MARTS[6 - Len(todo)] /\ served'[re] = marts[re] /\ marts[re] = Content(re)
            /\ Len(todo) \in 1..5
        BY <1>1, <2>1, <2>4, LoadFacts, Where, SevenTasks DEF ControlTypes
      <3>2. Len(todo) = 3
        <4>1. \A n \in 1..5 : \E k \in {1, 2, 3, 4, 5} : 6 - n = k /\ n = 6 - k
          OBVIOUS
        <4>2. PICK k \in {1, 2, 3, 4, 5} : 6 - Len(todo) = k /\ Len(todo) = 6 - k
          BY <3>1, <4>1
        <4>3. MARTS[k] = re
          BY <3>1, <4>2
        <4>4. k = 3
          BY <4>3 DEF MARTS
        <4> QED
          BY <4>2, <4>4
      <3>3. Loaded(ft) /\ Loaded(fs)
        <4>1. 1 \in 1 .. 5 - Len(todo) /\ 2 \in 1 .. 5 - Len(todo)
          BY <3>2
        <4> QED
          BY <3>1, <4>1 DEF Loaded, MARTS
      <3>4. served[ft] = Content(ft) /\ served[fs] = Content(fs)
        BY <2>1, <3>1, <3>3 DEF PipeInv, Progress
      <3>5. served' [ft] = served[ft] /\ served'[fs] = served[fs]
        BY <2>1, <3>1, LoadFacts
      <3> QED
        BY <2>1, <2>2, <3>1, <3>4, <3>5 DEF FactsLead, Content, Needs
    <2> QED
      BY <2>3, <2>4
  <1> QED
    BY <1>3, <1>4

LEMMA StepInv ==
    ASSUME PipeInv, Step, faults' \in Nat, hits' \in Nat, hits' >= hits,
           Retry => hits' > hits \/ Raises(Head(todo))
    PROVE  PipeInv'
  <1>1. Data /\ ControlTypes /\ Works
    BY TypeParts DEF PipeInv, Data, Step
  <1>2. DataTypes' /\ Contained' /\ OffsetsFollowRaw'
    BY <1>1, WorksData DEF Data
  <1>3. TypeOK'
    BY <1>1, <1>2, StepControl, TypePartsNext
  <1> QED
    BY <1>1, <1>2, <1>3, StepProgress, StepAccounted, StepReaders DEF PipeInv

\* A step of the DAG run, as the lemmas above describe it.
LEMMA RunSteps ==
    ASSUME PipeInv, Proceed \/ Raise \/ Die \/ FlushTimeout \/ IdleEarly
    PROVE  /\ Step /\ faults' \in Nat /\ hits' \in Nat /\ hits' >= hits
           /\ Retry => hits' > hits \/ Raises(Head(todo))
  <1>1. /\ ControlTypes /\ faults \in Nat /\ hits \in Nat /\ silent \in BOOLEAN
        /\ task \in 1..7 /\ try \in 1..2 /\ todo \in Rests(Work(Tasks[task]))
    BY TypeParts, SevenTasks DEF PipeInv, ControlTypes, Tries
  <1>2. ~(Advance /\ Retry)
    BY <1>1, Advances, Retries
  <1>3. ASSUME NEW b \in BOOLEAN, Fault(b)
        PROVE  /\ state = "running" /\ faults' \in Nat /\ hits' \in Nat /\ hits' > hits
               /\ silent' \in BOOLEAN /\ (silent => silent') /\ (b => silent')
               /\ UNCHANGED <<runs, handvars>>
    BY <1>1, <1>3 DEF Fault
  <1>4. ASSUME Head(todo).what \in {"publish", "read"} PROVE ~Raises(Head(todo))
    BY <1>4 DEF Raises
  <1>5. CASE Proceed
    BY <1>1, <1>2, <1>5 DEF Proceed, Step, Works, history
  <1>6. CASE Raise
    BY <1>1, <1>6 DEF Raise, Step, Works, history
  <1>7. CASE Die
    <2>1. Fault(FALSE) /\ Retry
      BY <1>7 DEF Die
    <2>2. /\ state = "running" /\ faults' \in Nat /\ hits' \in Nat /\ hits' > hits
          /\ silent' \in BOOLEAN /\ (silent => silent')
          /\ UNCHANGED <<runs, handvars>>
      BY <1>3, <2>1
    <2>3. Works
      BY <1>7 DEF Die, Works
    <2>4. hits' >= hits
      BY <1>1, <2>2
    <2> QED
      BY <1>1, <2>1, <2>2, <2>3, <2>4 DEF Step
  <1>8. CASE FlushTimeout
    <2>1. Fault(TRUE) /\ Advance /\ Head(todo).what \in {"publish", "read"}
      BY <1>8 DEF FlushTimeout
    <2>2. /\ state = "running" /\ faults' \in Nat /\ hits' \in Nat /\ hits' > hits
          /\ silent' \in BOOLEAN /\ (silent => silent') /\ silent'
          /\ UNCHANGED <<runs, handvars>>
      BY <1>3, <2>1
    <2>3. Works
      BY <1>8 DEF FlushTimeout, Works
    <2>4. hits' >= hits
      BY <1>1, <2>2
    <2> QED
      BY <1>1, <1>2, <1>4, <2>1, <2>2, <2>3, <2>4 DEF Step, Short
  <1>9. CASE IdleEarly
    <2>1. Fault(TRUE) /\ Advance /\ Head(todo).what \in {"publish", "read"}
      BY <1>9 DEF IdleEarly
    <2>2. /\ state = "running" /\ faults' \in Nat /\ hits' \in Nat /\ hits' > hits
          /\ silent' \in BOOLEAN /\ (silent => silent') /\ silent'
          /\ UNCHANGED <<runs, handvars>>
      BY <1>3, <2>1
    <2>3. Works
      BY <1>9 DEF IdleEarly, Works
    <2>4. hits' >= hits
      BY <1>1, <2>2
    <2> QED
      BY <1>1, <1>2, <1>4, <2>1, <2>2, <2>3, <2>4 DEF Step, Short
  <1> QED
    BY <1>5, <1>6, <1>7, <1>8, <1>9

\* A new run: what it has behind it is nothing.
LEMMA TriggerInv == PipeInv /\ Trigger => PipeInv'
  <1> SUFFICES ASSUME PipeInv, Trigger PROVE PipeInv'
    OBVIOUS
  <1>1. ControlTypes /\ DataTypes
    BY TypeParts DEF PipeInv
  <1>2. ControlTypes'
    <2>1. 1 \in 1..7 /\ Len(Work(Tasks[1])) # 0
      BY WorkIsSeq, SizeRange
    <2>2. todo' \in Rests(Work(Tasks[task'])) /\ task' \in DOMAIN Tasks
      BY <2>1, SevenTasks, WorkIsSeq, WholeIsRest DEF Trigger
    <2>3. params' \in Params /\ state' = "running" /\ try' = 1 /\ silent' = FALSE
      BY DEF Trigger
    <2>4. hand' \in Batch \cup {Null} /\ {runs', hands', faults', hits'} \subseteq Nat
      BY <1>1 DEF ControlTypes, Trigger, handvars
    <2>5. try' \in 1..Tries
      BY <2>3 DEF Tries
    <2> QED
      BY <2>2, <2>3, <2>4, <2>5 DEF ControlTypes
  <1>3. DataTypes' /\ Contained' /\ OffsetsFollowRaw' /\ ServedIsTested' /\ FactsLead'
    BY <1>1 DEF PipeInv, DataTypes, Contained, OffsetsFollowRaw, ServedIsTested, FactsLead,
                Trigger, logvars, datavars, Rows, Needs
  <1>4. Progress' /\ Accounted'
    BY SevenTasks DEF Progress, Published, Drained, IsStaged, Loaded, Accounted, Trigger, Tries
  <1> QED
    BY <1>2, <1>3, <1>4, TypePartsNext DEF PipeInv

\* A generator run by hand only adds to the topics.
LEMMA ByHandInv == PipeInv /\ ByHand => PipeInv'
  <1> SUFFICES ASSUME PipeInv, ByHand PROVE PipeInv'
    OBVIOUS
  <1>1. ControlTypes /\ Data
    BY TypeParts DEF PipeInv, Data
  <1>2. PICK p \in Part, b \in Batch : topic' = [topic EXCEPT ![p] = Append(@, b)]
    BY <1>1, TwoParts DEF ByHand, ControlTypes
  <1>3. Data'
    BY <1>1, <1>2, AppendData DEF ByHand
  <1>4. ControlTypes'
    BY <1>1 DEF ByHand, ControlTypes, dagvars, history
  <1>5. \A q \in Part : /\ Len(topic[q]) \in Nat /\ Len(topic'[q]) \in Nat /\ low[q] \in Nat
                        /\ Len(topic[q]) <= Len(topic'[q])
                        /\ \A i \in 1..Len(topic[q]) : topic'[q][i] = topic[q][i]
    BY <1>1, <1>2 DEF Data, DataTypes
  <1>6. UNCHANGED <<params, state, task, try, todo, low, raw, staged, marts, served, hits, silent>>
    BY DEF ByHand, dagvars, datavars, history
  <1>7. ASSUME NEW q \in Part, \E i \in low[q] + 1 .. Len(topic[q]) : topic[q][i] = params.seed
        PROVE  \E i \in low[q] + 1 .. Len(topic'[q]) : topic'[q][i] = params.seed
    <2>1. PICK i \in low[q] + 1 .. Len(topic[q]) : topic[q][i] = params.seed
      BY <1>7
    <2>2. i \in low[q] + 1 .. Len(topic'[q]) /\ i \in 1..Len(topic[q])
      BY <1>5, <2>1
    <2> QED
      BY <1>5, <2>1, <2>2
  <1>8. Progress'
    <2>1. \A q \in Part : Published(q)' = Published(q) /\ Drained(q)' = Drained(q) /\ IsStaged(q)' = IsStaged(q)
      BY <1>6 DEF Published, Drained, IsStaged
    <2>2. \A m \in Mart : Loaded(m)' = Loaded(m) /\ Content(m)' = Content(m)
      BY <1>6 DEF Loaded, Content
    <2>3. TestsPass' = TestsPass
      BY <1>6 DEF TestsPass, Orphans, Content, Rows
    <2> QED
      BY <1>6, <1>7, <2>1, <2>2, <2>3 DEF PipeInv, Progress
  <1>9. Accounted' /\ ServedIsTested' /\ FactsLead'
    BY <1>6 DEF PipeInv, Accounted, Excuse, TestsPass, Orphans, Content, Rows, ServedIsTested, FactsLead
  <1> QED
    BY <1>3, <1>4, <1>8, <1>9, TypePartsNext DEF PipeInv, Data

\* Retention only reaches what a run has no use for: none is active.
LEMMA ExpireInv == ASSUME PipeInv, NEW p \in Part, Expire(p) PROVE PipeInv'
  <1>1. ControlTypes /\ Data
    BY TypeParts DEF PipeInv, Data
  <1>2. PICK to \in low[p] + 1 .. Len(topic[p]) : low' = [low EXCEPT ![p] = to]
    BY DEF Expire
  <1>3. \A q \in Part : low[q] \in Nat /\ low'[q] \in Nat /\ low[q] <= low'[q] /\ low'[q] <= Len(topic[q])
    BY <1>1, <1>2 DEF Data, DataTypes
  <1>4. /\ UNCHANGED <<params, state, task, try, todo, topic, committed, read, raw, staged, marts>>
        /\ UNCHANGED <<wrote, served, hand, runs, hands, faults, hits, silent>> /\ state # "running"
    BY DEF Expire, dagvars, datavars, handvars, history
  <1>5. ControlTypes'
    BY <1>1, <1>4 DEF ControlTypes
  <1>6. DataTypes' /\ Contained'
    BY <1>1, <1>2, <1>3, <1>4 DEF Data, DataTypes, Contained, Needs
  <1>7. OffsetsFollowRaw'
    <2> SUFFICES ASSUME NEW q \in Part, NEW i \in DOMAIN topic[q],
                        i <= read[q] \/ \E x \in Suffix : i <= committed[x][q]
                 PROVE  topic[q][i] \in raw[q] \/ i <= low'[q]
      BY <1>4 DEF OffsetsFollowRaw
    <2>1. i \in Nat
      BY <1>1, LenProperties DEF Data, DataTypes
    <2>2. topic[q][i] \in raw[q] \/ i <= low[q]
      BY DEF PipeInv, OffsetsFollowRaw
    <2> QED
      BY <1>3, <2>1, <2>2
  <1>8. Progress'
    <2>1. \A q \in Part : Drained(q)' = Drained(q) /\ IsStaged(q)' = IsStaged(q)
      BY <1>4 DEF Drained, IsStaged
    <2>2. \A m \in Mart : Loaded(m)' = Loaded(m) /\ Content(m)' = Content(m)
      BY <1>4 DEF Loaded, Content
    <2>3. TestsPass' = TestsPass
      BY <1>4 DEF TestsPass, Orphans, Content, Rows
    <2> QED
      BY <1>4, <2>1, <2>2, <2>3 DEF PipeInv, Progress
  <1>9. Accounted' /\ ServedIsTested' /\ FactsLead'
    BY <1>4 DEF PipeInv, Accounted, Excuse, TestsPass, Orphans, Content, Rows, ServedIsTested, FactsLead
  <1> QED
    BY <1>5, <1>6, <1>7, <1>8, <1>9, TypePartsNext DEF PipeInv

LEMMA InvStutter == PipeInv /\ UNCHANGED vars => PipeInv'
  <1> SUFFICES ASSUME PipeInv, UNCHANGED vars PROVE PipeInv'
    OBVIOUS
  <1> USE DEF vars, dagvars, logvars, datavars, handvars, history
  <1>1. ControlTypes' /\ DataTypes'
    BY TypeParts DEF PipeInv, ControlTypes, DataTypes
  <1>2. Contained' /\ OffsetsFollowRaw' /\ ServedIsTested' /\ FactsLead' /\ Accounted'
    BY DEF PipeInv, Contained, OffsetsFollowRaw, ServedIsTested, FactsLead, Accounted, Excuse,
           TestsPass, Orphans, Content, Rows, Needs
  <1>3. Progress'
    BY DEF PipeInv, Progress, Published, Drained, IsStaged, Loaded, TestsPass, Orphans, Content, Rows, Needs
  <1> QED
    BY <1>1, <1>2, <1>3, TypePartsNext DEF PipeInv

LEMMA InvStep == PipeInv /\ [Next]_vars => PipeInv'
  <1> SUFFICES ASSUME PipeInv, [Next]_vars PROVE PipeInv'
    OBVIOUS
  <1>1. CASE Proceed \/ Raise \/ Die \/ FlushTimeout \/ IdleEarly
    BY <1>1, RunSteps, StepInv
  <1>2. CASE Trigger
    BY <1>2, TriggerInv
  <1>3. CASE ByHand
    BY <1>3, ByHandInv
  <1>4. CASE \E p \in Part : Expire(p)
    BY <1>4, ExpireInv
  <1>5. CASE UNCHANGED vars
    BY <1>5, InvStutter
  <1> QED
    BY <1>1, <1>2, <1>3, <1>4, <1>5 DEF Next

------------------------------------------------------------------------------
\* The inductive invariant holds of every DAG run, whatever fails in it.
THEOREM Invariance == Spec => []PipeInv
  BY InvInit, InvStep, PTL DEF Spec

\* The run, its topics, its layers and its offsets stay within their types.
THEOREM TypeCorrectness == Spec => []TypeOK
  <1>1. PipeInv => TypeOK
    BY DEF PipeInv
  <1> QED
    BY Invariance, <1>1, PTL

\* Readers only get rows that the tests accept, and no settlement without its
\* transaction, although dbt writes a mart before it tests it.
THEOREM OnlyTestedIsServed == Spec => []ServedIsTested
  <1>1. PipeInv => ServedIsTested
    BY DEF PipeInv
  <1> QED
    BY Invariance, <1>1, PTL

\* Wherever a load stops, run after run, the facts are not behind the reconciliation.
THEOREM FactsAreAhead == Spec => []FactsLead
  <1>1. PipeInv => FactsLead
    BY DEF PipeInv
  <1> QED
    BY Invariance, <1>1, PTL

\* A run that succeeds has put all of raw, its own batch included, before readers.
THEOREM SuccessIsComplete == Spec => []SuccessServesAll
  <1>1. PipeInv => SuccessServesAll
    <2> SUFFICES ASSUME PipeInv, state = "success", NEW m \in Mart, NEW p \in Needs(m)
                 PROVE  /\ served[m][p] = raw[p]
                        /\ ~params.skip /\ ~silent => params.seed \in served[m][p]
      BY DEF SuccessServesAll
    <2>1. task = 7 /\ p \in Part
      BY SevenTasks, TwoParts DEF PipeInv, Progress, Needs
    <2>2. served[m] = marts[m] /\ marts[m] = Content(m) /\ staged[p] = raw[p]
      BY <2>1 DEF PipeInv, Progress, Loaded, IsStaged
    <2>3. ~params.skip /\ ~silent => params.seed \in raw[p]
      BY <2>1 DEF PipeInv, Progress, Drained
    <2> QED
      BY <2>1, <2>2, <2>3 DEF Content
  <1> QED
    BY Invariance, <1>1, PTL

\* One fault does not fail a run, but for data that the tests refuse, an empty
\* data set, or a retried ingest that finds nothing left to read.
THEOREM OneFaultIsHealed == Spec => []OneFaultHeals
  <1>1. PipeInv => OneFaultHeals
    <2> SUFFICES ASSUME PipeInv, state = "failed", hits < 2
                 PROVE  \/ Tasks[task] = "ingest_to_raw"
                           /\ (params.skip \/ silent \/ \A p \in Part : params.seed \in raw[p])
                        \/ Tasks[task] = "spark_raw_to_staged" /\ \E p \in Part : raw[p] = {}
                        \/ Tasks[task] = "dbt_build" /\ ~TestsPass
      BY DEF OneFaultHeals
    <2>1. hits \in Nat
      BY DEF PipeInv, TypeOK
    <2>2. Excuse
      BY <2>1 DEF PipeInv, Accounted
    <2> QED
      BY <2>2 DEF Excuse, Tasks
  <1> QED
    BY Invariance, <1>1, PTL

\* No run takes back what an earlier one has shown to readers.
THEOREM ReadersKeepTheirs == Spec => ServedOnlyGrows
  <1>1. ASSUME PipeInv, [Next]_vars, NEW m \in Mart, NEW p \in Part
        PROVE  served[m][p] \subseteq served'[m][p]
    <2>1. CASE served'[m] = served[m]
      BY <2>1
    <2>2. CASE served'[m] # served[m]
      <3>1. Works
        BY <1>1, <2>2, RunSteps DEF Next, Trigger, ByHand, Expire, vars, datavars, Step
      <3>2. served'[m][p] = IF p \in Needs(m) THEN raw[p] ELSE {}
        BY <1>1, <2>2, <3>1, LoadFacts
      <3> QED
        BY <1>1, <3>2 DEF PipeInv, Contained
    <2> QED
      BY <2>1, <2>2
  <1>2. PipeInv /\ [Next]_vars =>
            [\A m \in Mart, p \in Part : served[m][p] \subseteq served'[m][p]]_vars
    BY <1>1
  <1> QED
    BY Invariance, <1>2, PTL DEF Spec, ServedOnlyGrows

\* No group commits past a message that it could have read and raw has not.
THEOREM RawBeforeCommit == Spec => CommitsFollowRaw
  <1>1. ASSUME PipeInv, PipeInv', [Next]_vars, NEW x \in Suffix, NEW p \in Part,
               NEW i \in committed[x][p] + 1 .. committed'[x][p]
        PROVE  topic[p][i] \in raw'[p] \/ i <= low[p]
    <2>1. /\ committed[x][p] \in Nat /\ committed'[x][p] \in Nat /\ Len(topic'[p]) \in Nat
          /\ committed'[x][p] <= Len(topic'[p])
      <3>1. DataTypes /\ DataTypes'
        BY <1>1, TypeParts, TypePartsNext DEF PipeInv
      <3> QED
        BY <3>1 DEF DataTypes
    <2>2. i \in 1..Len(topic'[p]) /\ i <= committed'[x][p] /\ committed' # committed
      BY <2>1
    <2>3. UNCHANGED <<topic, low>>
      <3>1. Works
        BY <1>1, <2>2, RunSteps DEF Next, Trigger, ByHand, Expire, vars, logvars, Step
      <3>2. \/ Publish(Head(todo)) \/ Commit(Head(todo)) \/ Look(Head(todo))
            \/ \E to : Drain(Head(todo), to) \/ \E done : DrainSome(Head(todo), to, done)
            \/ \E z : Stage(Head(todo), z) \/ Build(Head(todo), z)
            \/ Load(Head(todo)) \/ UNCHANGED <<logvars, datavars>>
        BY <3>1 DEF Works, Effect, HalfDone
      <3> QED
        BY <2>2, <3>2 DEF Publish, Commit, Look, Drain, DrainSome, Stage, Build, Load, logvars
    <2>4. DOMAIN topic'[p] = 1..Len(topic'[p])
      <3>1. DataTypes'
        BY <1>1, TypePartsNext DEF PipeInv
      <3> QED
        BY <3>1, LenProperties DEF DataTypes
    <2> QED
      BY <1>1, <2>2, <2>3, <2>4 DEF PipeInv, OffsetsFollowRaw
  <1>2. PipeInv /\ PipeInv' /\ [Next]_vars =>
            [\A x \in Suffix, p \in Part : \A i \in committed[x][p] + 1 .. committed'[x][p] :
                topic[p][i] \in raw'[p] \/ i <= low[p]]_vars
    BY <1>1
  <1> QED
    BY Invariance, <1>2, PTL DEF Spec, CommitsFollowRaw
===============================================================================
