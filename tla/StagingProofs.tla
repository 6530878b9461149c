---------------------------- MODULE StagingProofs ----------------------------
(***************************************************************************)
(* Proofs about Staging: when the delete before an upload succeeds, a job  *)
(* that succeeds leaves one row per charge and line of its input.          *)
(***************************************************************************)
EXTENDS CollapseProofs, WellFoundedInduction, TLAPS

------------------------------------------------------------------------------
\* One row for each charge and line.

\* The transforms make one row per charge or line of their input.
LEMMA RowsAreOneEach ==
    ASSUME ds \in Dataset, NEW copies, NEW kept \in Deduped(copies)
    PROVE  OneRowEach(ds, Rows(kept), copies)
<1>1. CASE ds = "transactions"
  <2>1. Keys(ds, copies) = {e.ref : e \in DOMAIN kept}
    <3>1. Keys(ds, copies) = {c[1].ref : c \in copies}
      BY <1>1 DEF Keys
    <3>2. DOMAIN kept = {c[1] : c \in copies}
      BY DedupedDomain
    <3> QED BY <3>1, <3>2
  <2>2. Rows(kept) = {TransactionRow(r, kept) : r \in Keys(ds, copies)}
    BY <1>1, <2>1 DEF Rows
  <2> QED BY <2>2, TransactionKey DEF OneRowEach
<1>2. CASE ds = "settlements"
  <2>1. Keys(ds, copies) = DOMAIN kept
    BY <1>2, DedupedDomain DEF Keys
  <2>2. Rows(kept) = {SettlementRow(l, kept) : l \in Keys(ds, copies)}
    BY <1>2, <2>1 DEF Rows
  <2> QED BY <2>2, SettlementKey DEF OneRowEach
<1> QED BY <1>1, <1>2 DEF Dataset

------------------------------------------------------------------------------
\* The upload.

\* When the last file is uploaded, what is staged is what was computed.
LEMMA LastUpload ==
    ASSUME OneRowInv, Upload, pc = "upload", ToUpload = {Min(ToUpload)}
    PROVE  UNION {f.rows : f \in staged'[ds]} = out
<1> DEFINE part == Min(ToUpload)
           file == [job |-> job, part |-> part, rows |-> {row \in out : row.part = part}]
<1>1. staged'[ds] = staged[ds] \cup {file}
  BY DEF OneRowInv, Upload
<1>2. \A f \in staged'[ds] : f.job = job /\ f.rows = {row \in out : row.part = f.part}
  BY <1>1 DEF OneRowInv
<1>3. ASSUME NEW row \in out PROVE \E f \in staged'[ds] : row \in f.rows
  <2>1. CASE row.part \in ToUpload
    <3>1. row.part = part
      BY <2>1
    <3>2. row \in file.rows
      BY <3>1
    <3> QED BY <1>1, <3>2
  <2>2. CASE row.part \notin ToUpload
    <3>1. PICK f \in staged[ds] : row.part = f.part
      BY <2>2 DEF ToUpload
    <3> QED BY <1>1, <1>2, <3>1
  <2> QED BY <2>1, <2>2
<1> HIDE DEF file, part
<1> QED BY <1>2, <1>3

\* An upload preserves the invariant.
LEMMA UploadStep == OneRowInv /\ Upload => OneRowInv'
<1> SUFFICES ASSUME OneRowInv, Upload PROVE OneRowInv'
  OBVIOUS
<1> DEFINE part == Min(ToUpload)
           file == [job |-> job, part |-> part, rows |-> {row \in out : row.part = part}]
<1>1. /\ pc = "upload" /\ staged' = [staged EXCEPT ![ds] = @ \cup {file}]
      /\ out' = IF ToUpload = {part} THEN {} ELSE out
      /\ UNCHANGED <<raw, job, input, faults>>
  BY DEF Upload
<1>2. /\ staged'[ds] = staged[ds] \cup {file} /\ DOMAIN staged' = Dataset
      /\ \A d \in Dataset : d # ds => staged'[d] = staged[d]
  BY <1>1 DEF OneRowInv
<1>3. CASE ToUpload # {part}
  <2>1. UNCHANGED <<pc, ds, seen, view, out>>
    BY <1>1, <1>3 DEF Upload
  <2>2. \A f \in staged'[ds] : f.job = job /\ f.rows = {row \in out : row.part = f.part}
    BY <1>1, <1>2 DEF OneRowInv
  <2>3. ds = "settlements" => staged'["transactions"] = staged["transactions"]
    BY <1>2 DEF Dataset
  <2> HIDE DEF file, part
  <2> QED BY <1>1, <1>2, <2>1, <2>2, <2>3 DEF OneRowInv, StagedRows
<1>4. CASE ToUpload = {part} /\ ds = "transactions"
  <2>1. pc' = "download" /\ ds' = "settlements" /\ UNCHANGED <<seen, view>>
    BY <1>4 DEF Upload
  <2>2. StagedRows("transactions")' = out
    BY <1>1, <1>4, LastUpload DEF StagedRows
  <2>3. OneRowEach("transactions", StagedRows("transactions"), input["transactions"])'
    BY <1>1, <1>4, <2>2 DEF OneRowInv
  <2> HIDE DEF file, part
  <2> QED BY <1>1, <1>2, <2>1, <2>3 DEF OneRowInv, Dataset
<1>5. CASE ToUpload = {part} /\ ds = "settlements"
  <2>1. /\ pc' = "idle" /\ seen' = input /\ UNCHANGED ds
        /\ view' = [d \in Dataset |-> UNION {f.rows : f \in staged'[d]}]
    BY <1>5 DEF Upload
  <2>2. view'["settlements"] = out
    BY <1>1, <1>5, <2>1, LastUpload DEF Dataset
  <2>3. view'["transactions"] = StagedRows("transactions")
    BY <1>2, <1>5, <2>1 DEF Dataset, StagedRows
  <2>4. \A d \in Dataset : OneRowEach(d, view[d], seen[d])'
    BY <1>1, <1>5, <2>1, <2>2, <2>3 DEF OneRowInv, Dataset
  <2> HIDE DEF file, part
  <2> QED BY <1>1, <1>2, <2>1, <2>4 DEF OneRowInv
<1> QED BY <1>3, <1>4, <1>5 DEF OneRowInv, Dataset

------------------------------------------------------------------------------
\* The invariant.

\* The initial state satisfies it.
LEMMA Initially == Init => OneRowInv
BY DEF Init, OneRowInv, Dataset, OneRowEach, Keys

\* Every step preserves it.
LEMMA Inductive == ASSUME ~DeleteFails PROVE OneRowInv /\ [Next]_vars => OneRowInv'
<1> SUFFICES ASSUME OneRowInv, [Next]_vars PROVE OneRowInv'
  OBVIOUS
<1> USE DEF StagedRows
<1>1. ASSUME NEW d \in Dataset, NEW c \in Copy[d], Arrive(d, c) PROVE OneRowInv'
  BY <1>1 DEF OneRowInv, Arrive, local
<1>2. CASE Start
  BY <1>2 DEF OneRowInv, Start, Dataset
<1>3. CASE Download
  <2>1. DOMAIN input' = Dataset /\ (ds = "settlements" => input'["transactions"] = input["transactions"])
    BY <1>3 DEF Download, OneRowInv, Dataset
  <2> QED BY <1>3, <2>1 DEF OneRowInv, Download
<1>4. CASE Transform
  <2>1. OneRowEach(ds, out', input[ds])
    BY <1>4, RowsAreOneEach DEF Transform, OneRowInv
  <2> QED BY <1>4, <2>1 DEF OneRowInv, Transform
<1>5. CASE Delete
  <2>1. staged' = [staged EXCEPT ![ds] = {}]
    BY <1>5 DEF Delete, Remaining
  <2>2. /\ DOMAIN staged' = Dataset /\ staged'[ds] = {}
        /\ ds = "settlements" => staged'["transactions"] = staged["transactions"]
    BY <2>1 DEF OneRowInv, Dataset
  <2> QED BY <1>5, <2>2 DEF OneRowInv, Delete
<1>6. CASE Upload
  BY <1>6, UploadStep
<1>7. CASE Fail
  BY <1>7 DEF OneRowInv, Fail
<1>8. CASE UNCHANGED vars
  BY <1>8 DEF OneRowInv, vars, local
<1> QED BY <1>1, <1>2, <1>3, <1>4, <1>5, <1>6, <1>7, <1>8 DEF Next

------------------------------------------------------------------------------
\* The type of the variables, and the jobs that have something to do.

\* What is left to upload is a set of dates.
LEMMA PartsAreNumbers == JobInv => ToUpload \subseteq Nat
<1> SUFFICES ASSUME JobInv, NEW row \in out PROVE row.part \in Nat
  BY DEF ToUpload
<1>1. row \in TransactionRows \/ row \in SettlementRows
  BY DEF JobInv, TypeOK, RowsOf
<1> QED BY <1>1 DEF TransactionRows, SettlementRows

\* The first file of a job has rows.
LEMMA FirstUpload ==
  ASSUME JobInv, pc = "delete", NEW files \in SUBSET staged[ds]
  PROVE  {row.part : row \in out} \ {f.part : f \in {g \in files : g.job = job}} # {}
<1>1. \A f \in staged[ds] : f.job < job /\ f.job \in Nat /\ job \in Nat
  BY DEF JobInv, NotReached, TypeOK
<1>2. \A f \in files : f.job # job
  BY <1>1
<1>3. out # {}
  BY DEF JobInv
<1> QED BY <1>2, <1>3

LEMMA JobInitially == Init => JobInv
<1> SUFFICES ASSUME Init PROVE JobInv
  OBVIOUS
<1>1. TypeOK
  BY DEF Init, TypeOK, Dataset
<1> QED BY <1>1 DEF Init, JobInv, Dataset, Downloaded

LEMMA JobUpload == JobInv /\ Upload => JobInv'
<1> SUFFICES ASSUME JobInv, Upload PROVE JobInv'
  OBVIOUS
<1> DEFINE part == Min(ToUpload)
           file == [job |-> job, part |-> part, rows |-> {row \in out : row.part = part}]
<1>1. /\ pc = "upload" /\ staged' = [staged EXCEPT ![ds] = @ \cup {file}]
      /\ out' = IF ToUpload = {part} THEN {} ELSE out
      /\ UNCHANGED <<raw, job, input, faults>>
  BY DEF Upload
<1>2. /\ TypeOK /\ ds \in Dataset /\ job \in Nat /\ DOMAIN staged = Dataset /\ ToUpload # {}
      /\ \A d \in Dataset : \A f \in staged[d] : f.job <= job /\ (NotReached(d) => f.job < job)
  BY <1>1 DEF JobInv, TypeOK
<1>3. part \in ToUpload /\ part \in Nat
  BY <1>2, PartsAreNumbers, LeastNumber
<1>4. file.job = job /\ file.part = part /\ file.rows \subseteq RowsOf(ds)
  BY <1>2 DEF TypeOK
<1>5. /\ staged'[ds] = staged[ds] \cup {file} /\ DOMAIN staged' = Dataset
      /\ \A d \in Dataset : d # ds => staged'[d] = staged[d]
  BY <1>1, <1>2
<1> HIDE DEF file, part
<1>6. \A d \in Dataset : \A f \in staged'[d] :
         f.job \in Nat /\ f.part \in Nat /\ f.rows \subseteq RowsOf(d) /\ f.job <= job
  BY <1>2, <1>3, <1>4, <1>5 DEF TypeOK
<1>7. CASE ToUpload # {part}
  <2>1. UNCHANGED <<pc, ds, seen, view, out>>
    BY <1>1, <1>7 DEF Upload, part
  <2>2. ToUpload' # {}
    <3>1. PICK other \in ToUpload : other # part
      BY <1>3, <1>7
    <3>2. other \in ToUpload'
      BY <1>1, <1>4, <1>5, <2>1, <3>1 DEF ToUpload
    <3> QED BY <3>2
  <2>3. TypeOK'
    BY <1>1, <1>2, <1>6, <2>1 DEF TypeOK
  <2>4. \A d \in Dataset : \A f \in staged'[d] : NotReached(d)' => f.job < job
    BY <1>1, <1>2, <1>5, <2>1 DEF NotReached
  <2> QED BY <1>1, <1>5, <1>6, <2>1, <2>2, <2>3, <2>4 DEF JobInv, Downloaded
<1>8. CASE ToUpload = {part} /\ ds = "transactions"
  <2>1. pc' = "download" /\ ds' = "settlements" /\ UNCHANGED <<seen, view>> /\ out' = {}
    BY <1>1, <1>8 DEF Upload, part
  <2>2. TypeOK'
    BY <1>1, <1>2, <1>6, <2>1 DEF TypeOK, Dataset
  <2>3. \A d \in Dataset : \A f \in staged'[d] : NotReached(d)' => f.job < job
    BY <1>1, <1>2, <1>5, <1>8, <2>1 DEF NotReached, Dataset
  <2>4. seen["transactions"] \subseteq input["transactions"]
    BY <1>1 DEF JobInv, Downloaded
  <2> QED BY <1>1, <1>5, <1>6, <2>1, <2>2, <2>3, <2>4 DEF JobInv, Downloaded
<1>9. CASE ToUpload = {part} /\ ds = "settlements"
  <2>1. /\ pc' = "idle" /\ seen' = input /\ UNCHANGED ds /\ out' = {}
        /\ view' = [d \in Dataset |-> UNION {f.rows : f \in staged'[d]}]
    BY <1>1, <1>9 DEF Upload, part
  <2>2. \A d \in Dataset : view'[d] \subseteq RowsOf(d)
    BY <1>6, <2>1
  <2>3. TypeOK'
    BY <1>1, <1>2, <1>6, <2>1, <2>2 DEF TypeOK
  <2>4. \A d \in Dataset : ~NotReached(d)'
    BY <2>1 DEF NotReached
  <2> QED BY <1>1, <1>5, <1>6, <2>1, <2>3, <2>4 DEF JobInv, Downloaded
<1> QED BY <1>2, <1>7, <1>8, <1>9 DEF Dataset

LEMMA JobStep == JobInv /\ [Next]_vars => JobInv'
<1> SUFFICES ASSUME JobInv, [Next]_vars PROVE JobInv'
  OBVIOUS
<1>0. TypeOK /\ ds \in Dataset /\ job \in Nat
  BY DEF JobInv, TypeOK
<1>1. ASSUME NEW d \in Dataset, NEW c \in Copy[d], Arrive(d, c) PROVE JobInv'
  <2>1. /\ DOMAIN raw' = Dataset
        /\ \A k \in Dataset : raw[k] \subseteq raw'[k] /\ raw'[k] \subseteq raw[k] \cup (IF k = d THEN {c} ELSE {})
    BY <1>1 DEF Arrive, JobInv
  <2>2. TypeOK'
    BY <1>0, <1>1, <2>1 DEF Arrive, TypeOK, local
  <2> QED BY <1>1, <2>1, <2>2 DEF JobInv, Arrive, local, ToUpload, NotReached, Downloaded
<1>2. CASE Start
  <2>1. \A d \in Dataset : input'[d] = {}
    BY <1>2 DEF Start
  <2>2. TypeOK'
    BY <1>0, <1>2, <2>1 DEF Start, TypeOK, Dataset
  <2>3. \A d \in Dataset : \A f \in staged'[d] : f.job <= job' /\ f.job < job'
    BY <1>0, <1>2 DEF Start, JobInv, TypeOK
  <2> QED BY <1>2, <2>2, <2>3 DEF Start, JobInv, Downloaded
<1>3. CASE Download
  <2>1. /\ DOMAIN input' = Dataset /\ input'[ds] = raw[ds]
        /\ \A d \in Dataset : d # ds => input'[d] = input[d]
    BY <1>0, <1>3 DEF Download, Listed, JobInv
  <2>2. /\ pc = "download" /\ pc' = IF raw[ds] = {} THEN "idle" ELSE "transform"
        /\ UNCHANGED <<raw, staged, ds, job, out, seen, view, faults>>
    BY <1>3 DEF Download, Listed
  <2>3. TypeOK'
    BY <1>0, <2>1, <2>2 DEF TypeOK
  <2>4. \A d \in Dataset : NotReached(d)' => NotReached(d)
    BY <2>2 DEF NotReached
  <2>5. Downloaded' => seen["transactions"] \subseteq input'["transactions"]
    <3>1. CASE ds = "transactions"
      BY <1>0, <2>1, <3>1 DEF TypeOK
    <3>2. CASE ds # "transactions"
      BY <1>0, <2>1, <2>2, <3>2 DEF JobInv, Downloaded, Dataset
    <3> QED BY <3>1, <3>2
  <2> QED BY <1>0, <2>1, <2>2, <2>3, <2>4, <2>5 DEF JobInv
<1>4. CASE Transform
  <2>1. /\ pc = "transform" /\ pc' = "delete" /\ input[ds] # {}
        /\ UNCHANGED <<raw, staged, ds, job, input, seen, view, faults>>
    BY <1>4 DEF Transform, JobInv
  <2>2. PICK kept \in Deduped(input[ds]) : out' = Rows(kept)
    BY <1>4 DEF Transform
  <2>3. input[ds] \in SUBSET Copy[ds]
    BY <1>0 DEF TypeOK
  <2>4. out' \subseteq RowsOf(ds) /\ out' # {}
    BY <1>0, <2>1, <2>2, <2>3, RowsType
  <2>5. TypeOK'
    BY <1>0, <2>1, <2>4 DEF TypeOK
  <2>6. \A d \in Dataset : NotReached(d)' => NotReached(d)
    BY <2>1 DEF NotReached
  <2> QED BY <2>1, <2>4, <2>5, <2>6 DEF JobInv, Downloaded
<1>5. CASE Delete
  <2>1. PICK files \in Remaining : staged' = [staged EXCEPT ![ds] = files]
    BY <1>5 DEF Delete
  <2>2. files \in SUBSET staged[ds]
    BY <2>1 DEF Remaining
  <2>3. /\ pc = "delete" /\ pc' = "upload"
        /\ UNCHANGED <<raw, ds, job, input, out, seen, view, faults>>
    BY <1>5 DEF Delete
  <2>4. /\ DOMAIN staged' = Dataset /\ staged'[ds] = files
        /\ \A d \in Dataset : staged'[d] \subseteq staged[d]
    BY <1>0, <2>1, <2>2 DEF JobInv
  <2>5. ToUpload' # {}
    BY <2>2, <2>3, <2>4, FirstUpload DEF ToUpload
  <2>6. TypeOK'
    BY <1>0, <2>3, <2>4 DEF TypeOK
  <2>7. \A d \in Dataset : NotReached(d)' => NotReached(d)
    BY <2>3 DEF NotReached
  <2> QED BY <2>3, <2>4, <2>5, <2>6, <2>7 DEF JobInv, Downloaded
<1>6. CASE Upload
  BY <1>6, JobUpload
<1>7. CASE Fail
  <2>1. TypeOK'
    BY <1>0, <1>7 DEF Fail, TypeOK
  <2> QED BY <1>7, <2>1 DEF Fail, JobInv, NotReached, Downloaded
<1>8. CASE UNCHANGED vars
  <2>1. TypeOK'
    BY <1>0, <1>8 DEF TypeOK, vars, local
  <2> QED BY <1>8, <2>1 DEF JobInv, vars, local, ToUpload, NotReached, Downloaded
<1> QED BY <1>1, <1>2, <1>3, <1>4, <1>5, <1>6, <1>7, <1>8 DEF Next

------------------------------------------------------------------------------
\* What the staged charges say.

\* IsCollapse, without the job that a row comes from.
Collapses(rows, copies) ==
    \E kept \in Deduped(copies) :
        {Charge(row) : row \in rows} = {ChargeRow(r, kept) : r \in {e.ref : e \in DOMAIN kept}}

CollapseInv ==
    /\ pc \in {"delete", "upload"} /\ ds = "transactions" => Collapses(out, input["transactions"])
    /\ pc # "idle" /\ ds = "settlements" =>
          Collapses(StagedRows("transactions"), input["transactions"])
    /\ Collapses(view["transactions"], seen["transactions"])

LEMMA CollapseForm == StageInv <=> OneRowInv /\ CollapseInv
<1>1. \A rows, copies : IsCollapse(rows, copies) <=> Collapses(rows, copies)
  <2> TAKE rows, copies
  <2>1. \A kept : {Charge(TransactionRow(r, kept)) : r \in {e.ref : e \in DOMAIN kept}}
                    = {ChargeRow(r, kept) : r \in {e.ref : e \in DOMAIN kept}}
    BY ChargeOfRow
  <2> QED BY <2>1, Zenon DEF IsCollapse, Collapses
<1> QED BY <1>1 DEF StageInv, CollapseInv

LEMMA CollapseInitially == Init => CollapseInv
<1> SUFFICES ASSUME Init PROVE CollapseInv
  OBVIOUS
<1>1. view["transactions"] = {} /\ seen["transactions"] = {} /\ pc = "idle"
  BY DEF Init, Dataset
<1> DEFINE none == [e \in {} |-> e]
<1>2. none \in Deduped({}) /\ DOMAIN none = {}
  BY DEF Deduped
<1> HIDE DEF none
<1>3. Collapses({}, {})
  BY <1>2 DEF Collapses
<1> QED BY <1>1, <1>3 DEF CollapseInv

LEMMA CollapseStep == ASSUME ~DeleteFails PROVE OneRowInv /\ CollapseInv /\ [Next]_vars => CollapseInv'
<1> SUFFICES ASSUME OneRowInv, CollapseInv, [Next]_vars PROVE CollapseInv'
  OBVIOUS
<1> USE DEF StagedRows
<1>1. ASSUME NEW d \in Dataset, NEW c \in Copy[d], Arrive(d, c) PROVE CollapseInv'
  BY <1>1 DEF CollapseInv, Arrive, local
<1>2. CASE Start
  BY <1>2 DEF CollapseInv, Start
<1>3. CASE Download
  <2>1. ds = "settlements" => input'["transactions"] = input["transactions"]
    BY <1>3 DEF Download, OneRowInv, Dataset
  <2> QED BY <1>3, <2>1 DEF CollapseInv, Download
<1>4. CASE Transform
  <2>1. PICK kept \in Deduped(input[ds]) : out' = Rows(kept)
    BY <1>4 DEF Transform
  <2>2. ASSUME ds = "transactions" PROVE Collapses(out', input["transactions"])
    <3>1. out' = {TransactionRow(r, kept) : r \in {e.ref : e \in DOMAIN kept}}
      BY <2>1, <2>2 DEF Rows
    <3>2. {Charge(row) : row \in out'} = {ChargeRow(r, kept) : r \in {e.ref : e \in DOMAIN kept}}
      BY <3>1, ChargeOfRow
    <3> QED BY <2>1, <2>2, <3>2 DEF Collapses
  <2> QED BY <1>4, <2>2 DEF CollapseInv, Transform
<1>5. CASE Delete
  <2>1. /\ pc = "delete" /\ UNCHANGED <<raw, ds, job, input, out, seen, view, faults>>
        /\ ds = "settlements" => staged'["transactions"] = staged["transactions"]
    BY <1>5 DEF Delete, OneRowInv, Dataset
  <2> QED BY <2>1 DEF CollapseInv
<1>6. CASE Upload
  <2> DEFINE part == Min(ToUpload)
             file == [job |-> job, part |-> part, rows |-> {row \in out : row.part = part}]
  <2>1. /\ pc = "upload" /\ staged' = [staged EXCEPT ![ds] = @ \cup {file}]
        /\ out' = IF ToUpload = {part} THEN {} ELSE out
        /\ UNCHANGED <<raw, job, input, faults>>
    BY <1>6 DEF Upload
  <2>2. /\ ds \in Dataset /\ DOMAIN staged = Dataset
        /\ ds = "settlements" => staged'["transactions"] = staged["transactions"]
    BY <2>1 DEF OneRowInv, Dataset
  <2>3. CASE ToUpload # {part}
    <3>1. UNCHANGED <<pc, ds, seen, view, out>>
      BY <1>6, <2>1, <2>3 DEF Upload
    <3> HIDE DEF file, part
    <3> QED BY <2>1, <2>2, <3>1 DEF CollapseInv
  <2>4. CASE ToUpload = {part} /\ ds = "transactions"
    <3>1. pc' = "download" /\ ds' = "settlements" /\ UNCHANGED <<seen, view>>
      BY <1>6, <2>4 DEF Upload
    <3>2. UNION {f.rows : f \in staged'["transactions"]} = out
      BY <1>6, <2>1, <2>4, LastUpload
    <3> HIDE DEF file, part
    <3> QED BY <2>1, <2>4, <3>1, <3>2 DEF CollapseInv
  <2>5. CASE ToUpload = {part} /\ ds = "settlements"
    <3>1. /\ pc' = "idle" /\ seen' = input
          /\ view' = [d \in Dataset |-> UNION {f.rows : f \in staged'[d]}]
      BY <1>6, <2>5 DEF Upload
    <3>2. view'["transactions"] = UNION {f.rows : f \in staged["transactions"]}
      BY <2>2, <2>5, <3>1 DEF Dataset
    <3> HIDE DEF file, part
    <3> QED BY <2>1, <2>5, <3>1, <3>2 DEF CollapseInv
  <2> QED BY <2>2, <2>3, <2>4, <2>5 DEF Dataset
<1>7. CASE Fail
  BY <1>7 DEF CollapseInv, Fail
<1>8. CASE UNCHANGED vars
  BY <1>8 DEF CollapseInv, vars, local
<1> QED BY <1>1, <1>2, <1>3, <1>4, <1>5, <1>6, <1>7, <1>8 DEF Next

\* The charges that are published, and the collapse they are.
PublishedRows(kept) ==
    /\ kept \in Deduped(seen["transactions"]) /\ DOMAIN kept = Events("transactions")
    /\ seen["transactions"] \in SUBSET Copy["transactions"]
    /\ {row.key : row \in view["transactions"]} = {e.ref : e \in DOMAIN kept}
    /\ \A row \in view["transactions"] : Charge(row) = ChargeRow(row.key, kept)
    /\ \A row1, row2 \in view["transactions"] : row1.key = row2.key => row1 = row2
IsPublished == \E kept \in Deduped(seen["transactions"]) : PublishedRows(kept)

LEMMA ViewIsCollapse == JobInv /\ OneRowInv /\ CollapseInv => IsPublished
<1> SUFFICES ASSUME JobInv, OneRowInv, CollapseInv PROVE IsPublished
  OBVIOUS
<1>1. PICK kept \in Deduped(seen["transactions"]) :
          {Charge(row) : row \in view["transactions"]} = {ChargeRow(r, kept) : r \in {e.ref : e \in DOMAIN kept}}
  BY DEF CollapseInv, Collapses
<1>2. seen["transactions"] \in SUBSET Copy["transactions"]
  BY DEF JobInv, TypeOK, Dataset
<1>3. DOMAIN kept = Events("transactions")
  BY DedupedDomain DEF Events
<1>4. /\ {row.key : row \in view["transactions"]} = {c[1].ref : c \in seen["transactions"]}
      /\ \A row1, row2 \in view["transactions"] : row1.key = row2.key => row1 = row2
  BY DEF OneRowInv, OneRowEach, Keys, Dataset
<1>5. {c[1].ref : c \in seen["transactions"]} = {e.ref : e \in DOMAIN kept}
  BY <1>3 DEF Events
<1>6. ASSUME NEW row \in view["transactions"] PROVE Charge(row) = ChargeRow(row.key, kept)
  <2>1. PICK r \in {e.ref : e \in DOMAIN kept} : Charge(row) = ChargeRow(r, kept)
    BY <1>1
  <2>2. Charge(row).key = row.key /\ ChargeRow(r, kept).key = r
    BY DEF Charge, ChargeRow
  <2> QED BY <2>1, <2>2
<1> QED BY <1>1, <1>2, <1>3, <1>4, <1>5, <1>6 DEF IsPublished, PublishedRows

------------------------------------------------------------------------------
\* What follows for a generator that emits each charge once.

\* The row of a charge says how far it has come.
LEMMA RowIsFurthest ==
  ASSUME GeneratedOnce, NEW kept, PublishedRows(kept), NEW row \in view["transactions"]
  PROVE  /\ row.status = Latest(row.key, kept).status
         /\ row.successful = SuccessfulAt(row.key, kept)
         /\ row.expected = ChargeRow(row.key, kept).expected
         /\ Latest(row.key, kept) \in Events("transactions") /\ Latest(row.key, kept).ref = row.key
         /\ \A e \in Events("transactions") : e.ref = row.key =>
              STATUS_RANK[e.status] <= STATUS_RANK[row.status]
<1>1. Charge(row) = ChargeRow(row.key, kept)
  BY DEF PublishedRows
<1>2. /\ row.status = Latest(row.key, kept).status
      /\ row.successful = SuccessfulAt(row.key, kept)
      /\ row.expected = ChargeRow(row.key, kept).expected
  BY <1>1 DEF Charge, ChargeRow
<1>3. row.key \in {e.ref : e \in DOMAIN kept}
  BY DEF PublishedRows
<1>4. Latest(row.key, kept) \in Events("transactions") /\ Latest(row.key, kept).ref = row.key
  BY <1>3, LatestFacts DEF PublishedRows
<1>5. ASSUME NEW e \in Events("transactions"), e.ref = row.key
      PROVE  STATUS_RANK[e.status] <= STATUS_RANK[row.status]
  BY <1>2, <1>3, <1>5, LatestIsFurthest DEF PublishedRows
<1> QED BY <1>2, <1>4, <1>5

LEMMA TerminalRight == GeneratedOnce /\ IsPublished => TerminalWins
<1> SUFFICES ASSUME GeneratedOnce, IsPublished, NEW row \in view["transactions"], row.status = "pending",
                    NEW e \in Events("transactions"), e.ref = row.key
             PROVE  e.status = "pending"
  BY DEF TerminalWins
<1>1. PICK kept : PublishedRows(kept)
  BY DEF IsPublished
<1>2. STATUS_RANK[e.status] <= STATUS_RANK["pending"]
  BY <1>1, RowIsFurthest
<1>3. e \in Event
  BY <1>1 DEF PublishedRows, Events, Event
<1> QED BY <1>2, <1>3, EventFacts, Ranks

\* A step leaves what is published as it is, or publishes the input of a job.
LEMMA PublishStep ==
  ASSUME JobInv, [Next]_vars
  PROVE  \/ UNCHANGED <<seen, view>>
         \/ seen["transactions"] \subseteq seen'["transactions"]
<1>1. CASE Upload
  <2>1. CASE pc' # "idle"
    BY <1>1, <2>1 DEF Upload, JobInv, TypeOK, Dataset
  <2>2. CASE seen' = input
    BY <1>1, <2>2 DEF Upload, JobInv, Downloaded
  <2> QED BY <1>1, <2>1, <2>2 DEF Upload, JobInv, TypeOK, Dataset
<1>2. CASE ~Upload
  BY <1>2 DEF Next, Arrive, Start, Download, Transform, Delete, Fail, vars, local
<1> QED BY <1>1, <1>2

LEMMA DateIsStable ==
  ASSUME GeneratedOnce, IsPublished, IsPublished',
         UNCHANGED <<seen, view>> \/ seen["transactions"] \subseteq seen'["transactions"]
  PROVE  \A old \in view["transactions"], new \in view'["transactions"] :
            old.key = new.key /\ old.successful # Null => new.expected = old.expected
<1> SUFFICES ASSUME NEW old \in view["transactions"], NEW new \in view'["transactions"],
                    old.key = new.key, old.successful # Null
             PROVE  new.expected = old.expected
  OBVIOUS
<1>1. PICK keptA : PublishedRows(keptA)
  BY DEF IsPublished
<1>2. PICK keptB : PublishedRows(keptB)'
  BY DEF IsPublished
<1>3. CASE UNCHANGED <<seen, view>>
  BY <1>1, <1>3 DEF PublishedRows
<1>4. CASE seen["transactions"] \subseteq seen'["transactions"]
  <2>1. /\ keptA \in Deduped(seen["transactions"]) /\ seen["transactions"] \in SUBSET Copy["transactions"]
        /\ keptB \in Deduped(seen'["transactions"]) /\ seen'["transactions"] \in SUBSET Copy["transactions"]
    BY <1>1, <1>2 DEF PublishedRows
  <2>2. DOMAIN keptA \subseteq DOMAIN keptB
    <3>1. /\ DOMAIN keptA = {c[1] : c \in seen["transactions"]}
          /\ DOMAIN keptB = {c[1] : c \in seen'["transactions"]}
      BY <2>1, DedupedDomain
    <3> QED BY <1>4, <3>1
  <2>3. old.successful = SuccessfulAt(old.key, keptA) /\ old.expected = ChargeRow(old.key, keptA).expected
    BY <1>1, RowIsFurthest
  <2>4. Charge(new) = ChargeRow(new.key, keptB)
    BY <1>2 DEF PublishedRows
  <2>5. new.expected = ChargeRow(new.key, keptB).expected
    <3>1. Charge(new).expected = new.expected
      BY DEF Charge
    <3> QED BY <2>4, <3>1
  <2>6. ChargeRow(old.key, keptA).expected = ChargeRow(old.key, keptB).expected
    BY <2>1, <2>2, <2>3, SuccessIsFixed
  <2> QED BY <2>3, <2>5, <2>6
<1> QED BY <1>3, <1>4

LEMMA RerunAgrees ==
  ASSUME GeneratedOnce, IsPublished, IsPublished', seen' = seen
  PROVE  Charges' = Charges
<1>1. PICK keptA : PublishedRows(keptA)
  BY DEF IsPublished
<1>2. PICK keptB : PublishedRows(keptB)'
  BY DEF IsPublished
<1> DEFINE refs == {e.ref : e \in DOMAIN keptA}
<1>3. /\ keptA \in Deduped(seen["transactions"]) /\ keptB \in Deduped(seen["transactions"])
      /\ seen["transactions"] \in SUBSET Copy["transactions"]
      /\ {row.key : row \in view["transactions"]} = refs
      /\ \A row \in view["transactions"] : Charge(row) = ChargeRow(row.key, keptA)
      /\ {row.key : row \in view'["transactions"]} = {e.ref : e \in DOMAIN keptB}
      /\ \A row \in view'["transactions"] : Charge(row) = ChargeRow(row.key, keptB)
  BY <1>1, <1>2 DEF PublishedRows
<1>4. DOMAIN keptA = DOMAIN keptB
  BY <1>3, DedupedDomain
<1>5. \A r \in refs : ChargeRow(r, keptA) = ChargeRow(r, keptB)
  BY <1>3, <1>4, CollapseIsFunction
<1> HIDE DEF refs
<1>6. Charges = {ChargeRow(r, keptA) : r \in refs}
  <2>1. ASSUME NEW row \in view["transactions"] PROVE row.key \in refs /\ Charge(row) = ChargeRow(row.key, keptA)
    BY <1>3
  <2>2. ASSUME NEW r \in refs PROVE \E row \in view["transactions"] : Charge(row) = ChargeRow(r, keptA)
    <3>1. PICK row \in view["transactions"] : row.key = r
      BY <1>3
    <3> QED BY <1>3, <3>1
  <2> QED BY <2>1, <2>2 DEF Charges
<1>7. Charges' = {ChargeRow(r, keptB) : r \in refs}
  <2>1. ASSUME NEW row \in view'["transactions"] PROVE row.key \in refs /\ Charge(row) = ChargeRow(row.key, keptB)
    BY <1>3, <1>4 DEF refs
  <2>2. ASSUME NEW r \in refs PROVE \E row \in view'["transactions"] : Charge(row) = ChargeRow(r, keptB)
    <3>1. PICK row \in view'["transactions"] : row.key = r
      BY <1>3, <1>4 DEF refs
    <3> QED BY <1>3, <3>1
  <2> QED BY <2>1, <2>2 DEF Charges
<1> QED BY <1>5, <1>6, <1>7

\* The refinement mapping: the status published for each charge.
PublishedStatus ==
    [r \in {e.ref : e \in Event} |->
        LET rows == {row \in view["transactions"] : row.key = r}
        IN  IF rows = {} THEN Null ELSE (CHOOSE row \in rows : TRUE).status]

IsFurthest ==
    PublishedStatus = [r \in {e.ref : e \in Event} |-> Published!Furthest(r, Events("transactions"))]

LEMMA StatusIsFurthest == GeneratedOnce /\ IsPublished => IsFurthest
<1> SUFFICES ASSUME GeneratedOnce, IsPublished, NEW r \in {e.ref : e \in Event}
             PROVE  PublishedStatus[r] = Published!Furthest(r, Events("transactions"))
  BY DEF IsFurthest, PublishedStatus
<1> DEFINE rows == {row \in view["transactions"] : row.key = r}
           own == {e \in Events("transactions") : e.ref = r}
<1>1. PICK kept : PublishedRows(kept)
  BY DEF IsPublished
<1>2. {row.key : row \in view["transactions"]} = {e.ref : e \in Events("transactions")}
  BY <1>1 DEF PublishedRows
<1>3. rows = {} <=> own = {}
  <2>1. rows = {} <=> r \notin {row.key : row \in view["transactions"]}
    OBVIOUS
  <2>2. own = {} <=> r \notin {e.ref : e \in Events("transactions")}
    OBVIOUS
  <2> QED BY <1>2, <2>1, <2>2
<1>4. Published!Furthest(r, Events("transactions")) =
        IF own = {} THEN Null
        ELSE (CHOOSE e \in own : \A d \in own : STATUS_RANK[d.status] <= STATUS_RANK[e.status]).status
  BY DEF Published!Furthest
<1>5. PublishedStatus[r] = IF rows = {} THEN Null ELSE (CHOOSE row \in rows : TRUE).status
  BY DEF PublishedStatus
<1>6. CASE rows = {}
  BY <1>3, <1>4, <1>5, <1>6
<1>7. CASE rows # {}
  <2> DEFINE row == CHOOSE row \in rows : TRUE
             far == CHOOSE e \in own : \A d \in own : STATUS_RANK[d.status] <= STATUS_RANK[e.status]
             last == Latest(r, kept)
  <2>1. row \in view["transactions"] /\ row.key = r
    BY <1>7
  <2> HIDE DEF row
  <2>2. /\ last \in own /\ row.status = last.status
        /\ \A e \in own : STATUS_RANK[e.status] <= STATUS_RANK[last.status]
    BY <1>1, <2>1, RowIsFurthest
  <2> HIDE DEF last
  <2>3. far \in own /\ \A e \in own : STATUS_RANK[e.status] <= STATUS_RANK[far.status]
    BY <2>2
  <2> HIDE DEF far
  <2>4. Events("transactions") \subseteq Event
    BY <1>1 DEF PublishedRows, Events, Event
  <2>5. last.status \in Status /\ far.status \in Status
    BY <2>2, <2>3, <2>4, EventFacts
  <2>6. STATUS_RANK[far.status] <= STATUS_RANK[last.status] /\ STATUS_RANK[last.status] <= STATUS_RANK[far.status]
    BY <2>2, <2>3
  <2>7. far.status = last.status
    BY <2>5, <2>6, Ranks
  <2>8. PublishedStatus[r] = row.status
    BY <1>5, <1>7 DEF row
  <2>9. Published!Furthest(r, Events("transactions")) = far.status
    BY <1>3, <1>4, <1>7 DEF far
  <2> QED BY <2>2, <2>7, <2>8, <2>9
<1> QED BY <1>6, <1>7

LEMMA LifecycleInit == Init => Published!Init
<1> SUFFICES ASSUME Init PROVE Published!Init
  OBVIOUS
<1>1. Events("transactions") = {} /\ view["transactions"] = {}
  BY DEF Init, Events, Dataset
<1> QED BY <1>1 DEF Published!Init, Published!Ref

LEMMA LifecycleStep ==
  ASSUME GeneratedOnce, IsPublished', IsFurthest',
         UNCHANGED <<seen, view>> \/ seen["transactions"] \subseteq seen'["transactions"]
  PROVE  [Published!Publish]_(Published!vars)
<1>1. CASE UNCHANGED <<seen, view>>
  BY <1>1 DEF Published!vars, Events
<1>2. CASE seen["transactions"] \subseteq seen'["transactions"]
  <2>1. Events("transactions") \subseteq Events("transactions")'
    BY <1>2 DEF Events
  <2>2. Events("transactions")' \subseteq Event
    BY DEF IsPublished, PublishedRows, Events, Event
  <2>3. PublishedStatus' = [r \in {e.ref : e \in Event} |-> Published!Furthest(r, Events("transactions")')]
    BY DEF IsFurthest, Published!Furthest
  <2> QED BY <2>1, <2>2, <2>3 DEF Published!Publish, Published!Ref, PublishedStatus
<1> QED BY <1>1, <1>2

------------------------------------------------------------------------------
\* Theorems.

\* A job is never stuck with nothing to transform or upload, whatever fails: each
\* file it writes has a date, and what it publishes has read all that the job
\* before it did.
THEOREM JobsAreSound == Spec => []JobInv
BY JobInitially, JobStep, PTL DEF Spec

\* Every variable has its type, and so every row that is written.
THEOREM TypeCorrectness == Spec => []TypeOK
<1>1. JobInv => TypeOK
  BY DEF JobInv
<1> QED BY <1>1, JobsAreSound, PTL

\* When deletes succeed, what a job has staged is one row for each charge and line
\* of its input, and one collapse of it, for any events, copies, jobs and crashes.
THEOREM InvariantHolds == ASSUME ~DeleteFails PROVE Spec => []StageInv
<1>1. Init => OneRowInv /\ CollapseInv
  BY Initially, CollapseInitially
<1>2. OneRowInv /\ CollapseInv /\ [Next]_vars => OneRowInv' /\ CollapseInv'
  BY Inductive, CollapseStep
<1>3. OneRowInv /\ CollapseInv => StageInv
  BY CollapseForm
<1> QED BY <1>1, <1>2, <1>3, PTL DEF Spec

\* A job that succeeds leaves staged exactly one row per charge and per line of its
\* input, whatever the jobs before it left and wherever they died.
THEOREM OneRowPerCharge == ASSUME ~DeleteFails PROVE Spec => []ViewIsInput
<1>1. StageInv => ViewIsInput
  <2> SUFFICES ASSUME StageInv PROVE ViewIsInput
    OBVIOUS
  <2>1. \A d \in Dataset : OneRowEach(d, view[d], seen[d])
    BY DEF StageInv, OneRowInv
  <2>2. {row.key : row \in view["transactions"]} = {c[1].ref : c \in seen["transactions"]}
    BY <2>1 DEF OneRowEach, Keys, Dataset
  <2>3. {e.ref : e \in Events("transactions")} = {c[1].ref : c \in seen["transactions"]}
    BY DEF Events
  <2>4. {row.key : row \in view["settlements"]} = Events("settlements")
    BY <2>1 DEF OneRowEach, Keys, Events, Dataset
  <2> QED BY <2>1, <2>2, <2>3, <2>4 DEF ViewIsInput, OneRowEach
<1> QED BY <1>1, InvariantHolds, PTL

\* What is published is one collapse of what was read.
LEMMA AlwaysPublished == ASSUME ~DeleteFails PROVE Spec => []IsPublished
<1>1. StageInv /\ JobInv => IsPublished
  BY CollapseForm, ViewIsCollapse
<1> QED BY <1>1, InvariantHolds, JobsAreSound, PTL

\* No late pending event wins over a terminal one, in whatever order the copies
\* arrive: under the two conditions without which it fails.
THEOREM TerminalStatesWin == ASSUME ~DeleteFails, GeneratedOnce PROVE Spec => []TerminalWins
<1>1. IsPublished => TerminalWins
  BY TerminalRight
<1> QED BY <1>1, AlwaysPublished, PTL

\* The expected settlement date of a charge that has succeeded does not move.
THEOREM ExpectedDatesStay == ASSUME ~DeleteFails, GeneratedOnce PROVE Spec => ExpectedDateStable
<1> DEFINE Stays == \A old \in view["transactions"], new \in view'["transactions"] :
                       old.key = new.key /\ old.successful # Null => new.expected = old.expected
<1>1. ASSUME JobInv, IsPublished, IsPublished', [Next]_vars PROVE Stays
  BY <1>1, PublishStep, DateIsStable
<1>2. JobInv /\ IsPublished /\ IsPublished' /\ [Next]_vars => [Stays]_vars
  BY <1>1
<1>3. ExpectedDateStable <=> [][Stays]_vars
  BY DEF ExpectedDateStable
<1> HIDE DEF Stays
<1> QED BY <1>2, <1>3, AlwaysPublished, JobsAreSound, PTL DEF Spec

\* A rerun on the same input publishes the same charges.
THEOREM RerunsAgree == ASSUME ~DeleteFails, GeneratedOnce PROVE Spec => RerunStable
<1> DEFINE Same == SameInput => Charges' = Charges
<1>1. ASSUME IsPublished, IsPublished' PROVE Same
  BY <1>1, RerunAgrees DEF SameInput
<1>2. IsPublished /\ IsPublished' => [Same]_vars
  BY <1>1
<1>3. RerunStable <=> [][Same]_vars
  BY DEF RerunStable
<1> HIDE DEF Same
<1> QED BY <1>2, <1>3, AlwaysPublished, PTL DEF Spec

\* The job implements Lifecycle: it publishes the furthest status of each charge.
THEOREM ImplementsLifecycle == ASSUME ~DeleteFails, GeneratedOnce PROVE Spec => FurthestStatus
<1>1. Init => Published!Init
  BY LifecycleInit
<1>2. IsPublished => IsFurthest
  BY StatusIsFurthest
<1>3. JobInv /\ IsPublished' /\ IsFurthest' /\ [Next]_vars => [Published!Publish]_(Published!vars)
  BY PublishStep, LifecycleStep
<1> QED BY <1>1, <1>2, <1>3, AlwaysPublished, JobsAreSound, PTL DEF Spec, FurthestStatus, Published!Spec
=============================================================================
