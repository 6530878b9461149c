----------------------------- MODULE ServeProofs -----------------------------
(***************************************************************************)
(* Theorems about the serving load (Serve), for every number of loaders,   *)
(* marts, generations and failed statements.  ReadersKeepTheirTable holds  *)
(* even while loads overlap; the others are about loads that do not.       *)
(***************************************************************************)
EXTENDS Serve, TLAPS

LEMMA EmptyTable ==
    /\ <<>> \in Table
    /\ <<>> # Absent
    /\ ~Complete(<<>>)
  <1>1. <<>> \in Seq(Piece)
    OBVIOUS
  <1>2. <<>> # Absent
    BY <1>1, AbsentAssumption
  <1>3. ~Complete(<<>>)
    BY DEF Complete
  <1> QED
    BY <1>1, <1>2, <1>3 DEF Table

\* INSERT into an existing table gives a table; into an empty one, one piece.
LEMMA AppendPiece ==
    ASSUME NEW t \in Table, t # Absent, NEW p \in Piece
    PROVE  /\ Append(t, p) \in Table
           /\ Append(t, p) # Absent
           /\ Append(t, p) # <<>>
           /\ t = <<>> => Len(Append(t, p)) = 1 /\ Append(t, p)[1] = p
  BY AbsentAssumption DEF Table

LEMMA Words ==
    /\ Running = {"drop", "create", "insert", "count", "refuse", "exists", "exchange",
                  "dropold", "rename"}
    /\ PC = {"drop", "create", "insert", "count", "refuse", "exists", "exchange",
             "dropold", "rename", "idle", "done", "failed"}
  BY DEF Running, PC

\* The statement leaves well-typed tables.
LEMMA EffectType ==
    ASSUME TypeOK, NEW l \in Loader, pc[l] \in Running, Accepted(l), Effect(l)
    PROVE  live' \in [Mart -> Table] /\ shadow' \in [Mart -> Table]
  <1>0. at[l] \in Mart /\ source[at[l]].gen \in Nat /\ Absent \in Table
    BY DEF TypeOK, Table
  <1>1. CASE pc[l] \in {"drop", "refuse", "dropold"}
    BY <1>0, <1>1 DEF Effect, SetShadow, TypeOK
  <1>2. CASE pc[l] = "create"
    BY <1>0, <1>2, EmptyTable DEF Effect, SetShadow, TypeOK
  <1>3. CASE pc[l] = "insert"
    <2>1. shadow[at[l]] # Absent /\ shadow[at[l]] \in Table
      BY <1>0, <1>3 DEF Accepted, TypeOK
    <2>2. Inserted(l) \in Table
      BY <1>0, <2>1, AppendPiece DEF Inserted, Piece
    <2>3. SetShadow(l, Inserted(l)) /\ UNCHANGED live
      BY <1>3 DEF Effect
    <2> QED
      BY <1>0, <2>2, <2>3 DEF SetShadow, TypeOK
  <1>4. CASE pc[l] \in {"count", "exists"}
    BY <1>4 DEF Effect, TypeOK
  <1>5. CASE pc[l] = "exchange"
    BY <1>0, <1>5 DEF Effect, Exchange, SetShadow, SetLive, TypeOK
  <1>6. CASE pc[l] = "rename"
    BY <1>0, <1>6 DEF Effect, SetShadow, SetLive, TypeOK
  <1> QED
    BY <1>1, <1>2, <1>3, <1>4, <1>5, <1>6, Words

LEMMA NextType ==
    ASSUME NEW l \in Loader, pc[l] \in Running
    PROVE  NextStatement(l) \in PC
  BY Words DEF NextStatement, WhenEmpty

LEMMA TypeStep == TypeOK /\ [Next]_vars => TypeOK'
  <1> SUFFICES ASSUME TypeOK, [Next]_vars PROVE TypeOK'
    OBVIOUS
  <1>1. ASSUME NEW m \in Mart, Rewrite(m) PROVE TypeOK'
    BY <1>1 DEF Rewrite, TypeOK
  <1>2. ASSUME NEW l \in Loader, Begin(l) PROVE TypeOK'
    <2>1. pc' \in [Loader -> PC]
      BY <1>2, Words DEF Begin, TypeOK
    <2>2. at' \in [Loader -> Mart] /\ todo' \in [Loader -> SUBSET Mart]
      BY <1>2 DEF Begin, TypeOK
    <2>3. began' \in [Loader -> [Mart -> Nat]]
      BY <1>2 DEF Begin, TypeOK
    <2> QED
      BY <1>2, <2>1, <2>2, <2>3 DEF Begin, TypeOK
  <1>3. ASSUME NEW l \in Loader, Statement(l) PROVE TypeOK'
    <2>1. live' \in [Mart -> Table] /\ shadow' \in [Mart -> Table]
      BY <1>3, EffectType DEF Statement
    <2>2. pc' \in [Loader -> PC]
      BY <1>3, NextType DEF Statement, TypeOK
    <2>3. at' \in [Loader -> Mart]
      BY <1>3 DEF Statement, HasNext, TypeOK
    <2> QED
      BY <1>3, <2>1, <2>2, <2>3 DEF Statement, TypeOK
  <1>4. ASSUME NEW l \in Loader, Refused(l) PROVE TypeOK'
    BY <1>4, Words DEF Refused, TypeOK
  <1>5. ASSUME NEW l \in Loader, Broken(l) PROVE TypeOK'
    <2>1. live' \in [Mart -> Table] /\ shadow' \in [Mart -> Table]
      <3>1. CASE Effect(l)
        BY <1>5, <3>1, EffectType DEF Broken
      <3>2. CASE UNCHANGED <<live, shadow>>
        BY <3>2 DEF TypeOK
      <3>3. CASE /\ pc[l] = "insert" /\ UNCHANGED live
                 /\ SetShadow(l, Append(shadow[at[l]], [gen |-> source[at[l]].gen, whole |-> FALSE]))
        <4>1. [gen |-> source[at[l]].gen, whole |-> FALSE] \in Piece
          BY DEF TypeOK, Piece
        <4>2. shadow[at[l]] # Absent /\ shadow[at[l]] \in Table /\ at[l] \in Mart
          BY <1>5, <3>3 DEF Broken, Accepted, TypeOK
        <4>3. Append(shadow[at[l]], [gen |-> source[at[l]].gen, whole |-> FALSE]) \in Table
          BY <4>1, <4>2, AppendPiece
        <4> QED
          BY <3>3, <4>3 DEF SetShadow, TypeOK
      <3> QED
        BY <1>5, <3>1, <3>2, <3>3 DEF Broken
    <2>2. pc' \in [Loader -> PC] /\ faults' \in Nat
      BY <1>5, Words DEF Broken, TypeOK
    <2> QED
      BY <1>5, <2>1, <2>2 DEF Broken, TypeOK
  <1>6. CASE UNCHANGED vars
    BY <1>6 DEF vars, TypeOK
  <1> QED
    BY <1>1, <1>2, <1>3, <1>4, <1>5, <1>6 DEF Next

\* At most one loader runs at a time.
LEMMA AloneStep == ASSUME ~Overlap PROVE TypeOK /\ Alone /\ [Next]_vars => Alone'
  <1> SUFFICES ASSUME TypeOK, Alone, [Next]_vars PROVE Alone'
    OBVIOUS
  <1>1. ASSUME NEW l \in Loader, Begin(l) PROVE Alone'
    BY <1>1 DEF Begin, Alone, TypeOK
  <1>2. ASSUME NEW l \in Loader, Statement(l) \/ Refused(l) \/ Broken(l) PROVE Alone'
    <2>1. pc[l] \in Running /\ \A k \in Loader : k # l => pc'[k] = pc[k]
      BY <1>2 DEF Statement, Refused, Broken, TypeOK
    <2> QED
      BY <2>1 DEF Alone
  <1>3. CASE UNCHANGED vars \/ \E m \in Mart : Rewrite(m)
    BY <1>3 DEF Rewrite, vars, Alone
  <1> QED
    BY <1>1, <1>2, <1>3 DEF Next

------------------------------------------------------------------------------
\* The generations of a table and of the parquet are numbers.
LEMMA GenType ==
    ASSUME TypeOK, NEW m \in Mart
    PROVE  /\ source[m].gen \in Nat
           /\ \A t \in Table : t # Absent /\ Complete(t) => t[1].gen \in Nat
  <1>1. ASSUME NEW t \in Table, t # Absent, Complete(t) PROVE t[1].gen \in Nat
    <2>1. t \in Seq(Piece) /\ Len(t) = 1
      BY <1>1 DEF Table, Complete
    <2>2. t[1] \in Piece
      BY <2>1
    <2> QED
      BY <2>2 DEF Piece
  <1> QED
    BY <1>1 DEF TypeOK

\* What load_mart puts into an empty shadow table is loadable.
LEMMA InsertedLoadable ==
    ASSUME TypeOK, LiveInv, NEW l \in Loader, shadow[at[l]] = <<>>, source[at[l]].rows
    PROVE  /\ Inserted(l) # Absent
           /\ Complete(Inserted(l))
           /\ Inserted(l)[1].gen = source[at[l]].gen
           /\ GenOf(live[at[l]]) <= source[at[l]].gen
  <1> DEFINE p == [gen |-> source[at[l]].gen, whole |-> TRUE]
  <1>1. at[l] \in Mart /\ p \in Piece /\ source[at[l]].gen \in Nat
    BY DEF TypeOK, Piece
  <1>2. Inserted(l) = Append(<<>>, p)
    BY DEF Inserted
  <1>3. p.gen = source[at[l]].gen /\ p.whole
    OBVIOUS
  <1> HIDE DEF p
  <1>4. Inserted(l) # Absent /\ Len(Inserted(l)) = 1 /\ Inserted(l)[1] = p
    <2>1. Append(<<>>, p) \in Seq(Piece) /\ Len(Append(<<>>, p)) = 1 /\ Append(<<>>, p)[1] = p
      BY <1>1
    <2> QED
      BY <1>2, <2>1, AbsentAssumption
  <1>5. GenOf(live[at[l]]) <= source[at[l]].gen
    BY <1>1 DEF LiveInv, GenOf
  <1> QED
    BY <1>3, <1>4, <1>5 DEF Complete

\* A successful statement of the only running loader.
LEMMA StatementStep ==
    ASSUME SInv, NEW l \in Loader, Statement(l)
    PROVE  ShadowInv' /\ LiveInv'
  <1> USE DEF SInv
  <1> SUFFICES ASSUME NEW m \in Mart, m = at[l]
               PROVE  ShadowInv' /\ LiveInv'
    BY DEF TypeOK
  <1>1. m \in Mart /\ pc[l] \in Running /\ source' = source
    BY DEF Statement, TypeOK
  <1>2. \A k \in Loader : k # l => pc'[k] = pc[k] /\ pc'[k] \notin Running
    BY DEF Statement, Alone, TypeOK
  <1>3. pc'[l] = NextStatement(l)
    BY DEF Statement, TypeOK
  <1>4. pc'[l] \in {"insert", "count", "exists", "exchange", "rename"} => at'[l] = m
    BY <1>1, <1>3, Words DEF Statement, NextStatement, WhenEmpty, TypeOK
  <1>5. SUFFICES /\ pc'[l] = "create" => shadow'[at'[l]] = Absent
                 /\ pc'[l] = "insert" => shadow'[m] = <<>>
                 /\ pc'[l] = "count" => shadow'[m] = <<>> \/ Loadable(m)'
                 /\ pc'[l] \in {"exists", "exchange", "rename"} => Loadable(m)'
                 /\ pc'[l] = "exchange" => live'[m] # Absent
                 /\ pc'[l] = "rename" => live'[m] = Absent
                 /\ LiveInv'
    BY <1>2, <1>4, Words DEF ShadowInv, Loadable
  <1>6. CASE pc[l] \in {"drop", "refuse", "dropold"}
    <2>1. shadow'[m] = Absent /\ live' = live
      BY <1>1, <1>6 DEF Statement, Effect, SetShadow, TypeOK
    <2>2. pc'[l] \in {"create", "failed", "drop", "done"}
      BY <1>3, <1>6 DEF NextStatement
    <2>3. pc'[l] = "create" => at'[l] = m
      BY <1>3, <1>6 DEF Statement, NextStatement, TypeOK
    <2> QED
      BY <1>1, <2>1, <2>2, <2>3 DEF LiveInv
  <1>7. CASE pc[l] = "create"
    <2>1. shadow'[m] = <<>> /\ live' = live /\ pc'[l] = "insert"
      BY <1>1, <1>3, <1>7 DEF Statement, Effect, SetShadow, NextStatement, TypeOK
    <2> QED
      BY <1>1, <2>1 DEF LiveInv
  <1>8. CASE pc[l] = "insert"
    <2>1. shadow'[m] = Inserted(l) /\ live' = live /\ pc'[l] = "count"
      BY <1>1, <1>3, <1>8 DEF Statement, Effect, SetShadow, NextStatement, TypeOK
    <2>2. shadow[m] = <<>>
      BY <1>8 DEF ShadowInv
    <2>3. CASE ~source[m].rows
      BY <1>1, <2>1, <2>2, <2>3 DEF Inserted, LiveInv
    <2>4. CASE source[m].rows
      <3>1. source[m].gen \in Nat
        BY <1>1, GenType
      <3>2. /\ shadow'[m] # Absent
            /\ Complete(shadow'[m])
            /\ shadow'[m][1].gen = source[m].gen
            /\ GenOf(live[m]) <= source[m].gen
        BY <2>1, <2>2, <2>4, InsertedLoadable
      <3>3. GenOf(live[m])' = GenOf(live[m])
        BY <2>1 DEF GenOf
      <3>4. Loadable(m)'
        BY <1>1, <3>1, <3>2, <3>3 DEF Loadable
      <3> QED
        BY <1>1, <2>1, <3>4 DEF LiveInv
    <2> QED
      BY <2>3, <2>4
  <1>9. CASE pc[l] \in {"count", "exists"}
    <2>1. UNCHANGED <<live, shadow>>
      BY <1>9 DEF Statement, Effect
    <2>2. pc'[l] \in {"refuse", "exists", "exchange", "rename"}
      BY <1>3, <1>9 DEF NextStatement, WhenEmpty
    <2>3. pc'[l] # "refuse" => Loadable(m)
      BY <1>3, <1>9 DEF NextStatement, ShadowInv, IsEmpty, WhenEmpty
    <2>4. /\ pc'[l] = "exchange" => live[m] # Absent
          /\ pc'[l] = "rename" => live[m] = Absent
      BY <1>3, <1>9 DEF NextStatement, WhenEmpty
    <2> QED
      <3>1. LiveInv'
        BY <1>1, <2>1 DEF LiveInv
      <3>2. Loadable(m) => Loadable(m)'
        BY <1>1, <2>1 DEF Loadable, GenOf
      <3> QED
        BY <2>1, <2>2, <2>3, <2>4, <3>1, <3>2
  <1>10. CASE pc[l] \in {"exchange", "rename"}
    <2>1. live' = [live EXCEPT ![m] = shadow[m]]
      BY <1>10 DEF Statement, Effect, Exchange, SetLive
    <2>2. Loadable(m)
      BY <1>10 DEF ShadowInv
    <2>3. pc'[l] \in {"dropold", "drop", "done"}
      BY <1>3, <1>10 DEF NextStatement
    <2>4. LiveInv'
      BY <1>1, <2>1, <2>2 DEF LiveInv, Loadable, TypeOK
    <2> QED
      BY <2>3, <2>4
  <1> QED
    BY <1>1, <1>6, <1>7, <1>8, <1>9, <1>10, Words

\* A failing or refused statement leaves no loader running; only an EXCHANGE or
\* RENAME that took effect shows to readers.
LEMMA BrokenStep ==
    ASSUME SInv, NEW l \in Loader, Broken(l) \/ Refused(l)
    PROVE  ShadowInv' /\ LiveInv'
  <1> USE DEF SInv
  <1>1. pc[l] \in Running /\ at[l] \in Mart /\ source' = source
    BY DEF Broken, Refused, TypeOK
  <1>2. \A k \in Loader : pc'[k] \notin Running
    BY <1>1, Words DEF Broken, Refused, Alone, TypeOK
  <1>3. ShadowInv'
    BY <1>2, Words DEF ShadowInv
  <1>4. live' = live \/ (pc[l] \in {"exchange", "rename"} /\ live' = [live EXCEPT ![at[l]] = shadow[at[l]]])
    BY Words DEF Broken, Refused, Effect, Exchange, SetLive, SetShadow
  <1>5. LiveInv'
    <2>1. CASE live' = live
      BY <1>1, <2>1 DEF LiveInv
    <2>2. CASE pc[l] \in {"exchange", "rename"} /\ live' = [live EXCEPT ![at[l]] = shadow[at[l]]]
      <3>1. Loadable(at[l])
        BY <2>2 DEF ShadowInv
      <3> QED
        BY <1>1, <2>2, <3>1 DEF LiveInv, Loadable, TypeOK
    <2> QED
      BY <1>4, <2>1, <2>2
  <1> QED
    BY <1>3, <1>5

LEMMA Inductive == ASSUME ~Overlap PROVE SInv /\ [Next]_vars => SInv'
  <1> SUFFICES ASSUME SInv, [Next]_vars PROVE SInv'
    OBVIOUS
  <1>1. TypeOK' /\ Alone'
    BY TypeStep, AloneStep DEF SInv
  <1>2. ShadowInv' /\ LiveInv'
    <2>1. ASSUME NEW m \in Mart, Rewrite(m) PROVE ShadowInv' /\ LiveInv'
      <3>1. \A n \in Mart : source[n].gen \in Nat /\ source'[n].gen \in Nat /\ source[n].gen <= source'[n].gen
        BY <2>1 DEF SInv, TypeOK, Rewrite
      <3>2. UNCHANGED <<live, shadow, pc, at>>
        BY <2>1 DEF Rewrite
      <3>3. \A n \in Mart : /\ live[n] # Absent /\ Complete(live[n]) => live[n][1].gen \in Nat
                            /\ shadow[n] # Absent /\ Complete(shadow[n]) => shadow[n][1].gen \in Nat
        BY GenType DEF SInv, TypeOK
      <3>4. \A n \in Mart : Loadable(n) => Loadable(n)'
        BY <3>1, <3>2, <3>3 DEF Loadable, GenOf
      <3>5. \A k \in Loader : at[k] \in Mart
        BY DEF SInv, TypeOK
      <3> QED
        BY <3>1, <3>2, <3>3, <3>4, <3>5 DEF SInv, ShadowInv, LiveInv
    <2>2. ASSUME NEW l \in Loader, Begin(l) PROVE ShadowInv' /\ LiveInv'
      <3>1. UNCHANGED <<live, shadow, source>> /\ pc'[l] = "drop"
        BY <2>2 DEF Begin, SInv, TypeOK
      <3>2. \A k \in Loader : k # l => pc'[k] = pc[k] /\ at'[k] = at[k]
        BY <2>2 DEF Begin, SInv, TypeOK
      <3> QED
        BY <3>1, <3>2 DEF SInv, ShadowInv, LiveInv, Loadable, GenOf
    <2>3. CASE UNCHANGED vars
      BY <2>3 DEF vars, SInv, ShadowInv, LiveInv, Loadable, GenOf
    <2> QED
      BY <2>1, <2>2, <2>3, StatementStep, BrokenStep DEF Next
  <1> QED
    BY <1>1, <1>2 DEF SInv

LEMMA InitType == Init => TypeOK
  <1> SUFFICES ASSUME Init PROVE TypeOK
    OBVIOUS
  <1>1. source \in [Mart -> [gen : Nat, rows : BOOLEAN]]
    <2>1. {[gen |-> 0, rows |-> FALSE], [gen |-> 1, rows |-> TRUE]} \subseteq [gen : Nat, rows : BOOLEAN]
      OBVIOUS
    <2> QED
      BY <2>1 DEF Init
  <1> QED
    BY <1>1, ConstantsAssumption DEF Init, TypeOK, Table, PC, Mart

\* The variables of the loaders keep their types, overlapping or not.
THEOREM TypeCorrect == Spec => []TypeOK
  <1>1. Init => TypeOK
    BY InitType
  <1> QED
    BY <1>1, TypeStep, PTL DEF Spec

\* A table readers can see never disappears (Serve!ServedStays), whatever number
\* of loads overlap: EXCHANGE and RENAME are refused without a shadow table.
THEOREM ReadersKeepTheirTable == Spec => ServedStays
  <1>1. TypeOK /\ [Next]_vars => [\A m \in Mart : live[m] # Absent => live'[m] # Absent]_vars
    <2> SUFFICES ASSUME TypeOK, [Next]_vars, NEW m \in Mart, live[m] # Absent
                 PROVE  live'[m] # Absent
      OBVIOUS
    <2>1. ASSUME NEW l \in Loader, Statement(l) \/ Broken(l) PROVE live'[m] # Absent
      <3>1. Accepted(l) /\ pc[l] \in Running /\ at[l] \in Mart
        BY <2>1 DEF Statement, Broken, TypeOK
      <3>2. \/ live' = live
            \/ pc[l] \in {"exchange", "rename"} /\ live' = [live EXCEPT ![at[l]] = shadow[at[l]]]
        BY <2>1, <3>1, Words DEF Statement, Broken, Effect, Exchange, SetLive
      <3> QED
        BY <3>1, <3>2 DEF Accepted, TypeOK
    <2>2. CASE \/ \E l \in Loader : Begin(l) \/ Refused(l)
               \/ \E n \in Mart : Rewrite(n)
               \/ UNCHANGED vars
      BY <2>2 DEF Begin, Refused, Rewrite, vars
    <2> QED
      BY <2>1, <2>2 DEF Next
  <1> QED
    BY <1>1, TypeCorrect, PTL DEF Spec, ServedStays

\* The invariant holds for every number of loaders, marts and failures, when
\* loads do not overlap (Serve!SInv).
THEOREM InvariantHolds == ASSUME ~Overlap PROVE Spec => []SInv
  <1>1. Init => SInv
    <2> SUFFICES ASSUME Init PROVE SInv
      OBVIOUS
    <2>1. TypeOK
      BY InitType
    <2>2. Alone /\ ShadowInv /\ LiveInv
      BY Words DEF Init, Alone, ShadowInv, LiveInv
    <2> QED
      BY <2>1, <2>2 DEF SInv
  <1> QED
    BY <1>1, Inductive, PTL DEF Spec

\* Readers never see a partial, doubled or empty table (Serve!ServedComplete).
THEOREM ReadersSeeWholeMarts == ASSUME ~Overlap PROVE Spec => []ServedComplete
  <1>1. SInv => ServedComplete
    BY DEF SInv, LiveInv, ServedComplete
  <1> QED
    BY <1>1, InvariantHolds, PTL

------------------------------------------------------------------------------
\* A step shows readers nothing new, or one loadable table in place of another.
LEMMA LiveStep ==
    ASSUME SInv, [Next]_vars
    PROVE  \/ live' = live
           \/ /\ source' = source
              /\ \E m \in Mart : Loadable(m) /\ live' = [live EXCEPT ![m] = shadow[m]]
  <1>1. ASSUME NEW l \in Loader, Statement(l) \/ Broken(l)
        PROVE  \/ live' = live
               \/ /\ source' = source
                  /\ \E m \in Mart : Loadable(m) /\ live' = [live EXCEPT ![m] = shadow[m]]
    <2>1. at[l] \in Mart /\ source' = source /\ pc[l] \in Running
      BY <1>1 DEF Statement, Broken, SInv, TypeOK
    <2>2. CASE pc[l] \in {"exchange", "rename"}
      <3>1. Loadable(at[l])
        BY <2>2 DEF SInv, ShadowInv
      <3>2. live' = live \/ live' = [live EXCEPT ![at[l]] = shadow[at[l]]]
        BY <1>1, <2>2 DEF Statement, Broken, Effect, Exchange, SetLive
      <3> QED
        BY <2>1, <3>1, <3>2
    <2>3. CASE pc[l] \notin {"exchange", "rename"}
      BY <1>1, <2>1, <2>3, Words DEF Statement, Broken, Effect
    <2> QED
      BY <2>2, <2>3
  <1>2. CASE \/ \E l \in Loader : Begin(l) \/ Refused(l)
             \/ \E m \in Mart : Rewrite(m)
             \/ UNCHANGED vars
    BY <1>2 DEF Begin, Refused, Rewrite, vars
  <1> QED
    BY <1>1, <1>2 DEF Next

\* A served mart stays served and its generation never goes back
\* (Serve!ServedOnlyAdvances).
THEOREM ServedAdvances == ASSUME ~Overlap PROVE Spec => ServedOnlyAdvances
  <1>1. SInv /\ [Next]_vars
           => [\A m \in Mart : live[m] # Absent =>
                  live'[m] # Absent /\ GenOf(live[m]) <= GenOf(live'[m])]_vars
    <2> SUFFICES ASSUME SInv, [Next]_vars, NEW m \in Mart, live[m] # Absent
                 PROVE  live'[m] # Absent /\ GenOf(live[m]) <= GenOf(live'[m])
      OBVIOUS
    <2>1. GenOf(live[m]) \in Nat
      BY GenType DEF SInv, TypeOK, LiveInv, GenOf
    <2>2. CASE live' = live
      BY <2>1, <2>2
    <2>3. CASE \E n \in Mart : Loadable(n) /\ live' = [live EXCEPT ![n] = shadow[n]]
      <3>1. PICK n \in Mart : Loadable(n) /\ live' = [live EXCEPT ![n] = shadow[n]]
        BY <2>3
      <3>2. CASE n = m
        <4>1. live'[m] = shadow[m]
          BY <3>1, <3>2 DEF SInv, TypeOK
        <4> QED
          BY <3>1, <3>2, <4>1 DEF Loadable, GenOf
      <3>3. CASE n # m
        BY <2>1, <3>1, <3>3 DEF SInv, TypeOK
      <3> QED
        BY <3>2, <3>3
    <2> QED
      BY <2>2, <2>3, LiveStep
  <1> QED
    BY <1>1, InvariantHolds, PTL DEF Spec, ServedOnlyAdvances

\* The loader implements whole-mart publication (Serve!WholeMarts): each step
\* builds, swaps a complete newer generation in, or shows readers nothing.
THEOREM Refinement == ASSUME ~Overlap PROVE Spec => WholeMarts
  <1>1. Init => Marts!Init
    BY DEF Init, Marts!Init, Generation
  <1>2. SInv /\ SInv' /\ [Next]_vars => [Marts!Next]_Marts!vars
    <2> SUFFICES ASSUME SInv, SInv', [Next]_vars PROVE [Marts!Next]_Marts!vars
      OBVIOUS
    <2> DEFINE built  == [m \in Mart |-> source[m].gen]
               served == [m \in Mart |-> Generation(m)]
    <2>1. \A m \in Mart : Generation(m) = GenOf(live[m])
      BY DEF SInv, LiveInv, Generation, GenOf
    <2>2. \A m \in Mart : Generation(m)' = GenOf(live'[m])
      BY DEF SInv, LiveInv, Generation, GenOf
    <2>3. \A m \in Mart : GenOf(live[m]) \in Nat /\ GenOf(live'[m]) \in Nat
      <3>1. ASSUME NEW m \in Mart PROVE GenOf(live[m]) \in Nat
        BY GenType DEF SInv, TypeOK, LiveInv, GenOf
      <3>2. ASSUME NEW m \in Mart PROVE GenOf(live'[m]) \in Nat
        <4>1. live'[m] = Absent \/ (live'[m] \in Table /\ Complete(live'[m]))
          BY DEF SInv, TypeOK, LiveInv
        <4> QED
          BY <4>1, GenType DEF SInv, GenOf
      <3> QED
        BY <3>1, <3>2
    <2>4. \A m \in Mart : source[m].gen \in Nat /\ source'[m].gen \in Nat
      BY DEF SInv, TypeOK
    <2>5. CASE live' = live
      <3>1. \A m \in Mart : Generation(m)' = Generation(m)
        BY <2>1, <2>2, <2>5
      <3>2. served' = served
        BY <3>1
      <3>3. \A m \in Mart : source[m].gen <= source'[m].gen
        <4>1. source' = source \/ \E m \in Mart : Rewrite(m)
          BY DEF Next, Begin, Statement, Refused, Broken, vars
        <4> QED
          BY <2>4, <4>1 DEF Rewrite, SInv, TypeOK
      <3> QED
        BY <2>4, <3>2, <3>3 DEF Marts!Next, Marts!Build
    <2>6. CASE /\ source' = source
               /\ \E m \in Mart : Loadable(m) /\ live' = [live EXCEPT ![m] = shadow[m]]
      <3>1. PICK n \in Mart : Loadable(n) /\ live' = [live EXCEPT ![n] = shadow[n]]
        BY <2>6
      <3>2. live'[n] = shadow[n] /\ \A m \in Mart : m # n => live'[m] = live[m]
        BY <3>1 DEF SInv, TypeOK
      <3>3. /\ GenOf(live[n]) <= GenOf(live'[n])
            /\ GenOf(live'[n]) <= source[n].gen
        BY <3>1, <3>2 DEF Loadable, GenOf
      <3>4. \A m \in Mart : GenOf(live[m]) <= source[m].gen
        BY <2>4 DEF SInv, LiveInv, GenOf
      <3>5. \A m \in Mart : /\ Generation(m) <= Generation(m)'
                            /\ Generation(m)' <= source[m].gen
        BY <2>1, <2>2, <2>3, <3>2, <3>3, <3>4
      <3>6. built' = built
        BY <2>6
      <3>7. \A m \in Mart : Generation(m)' \in Nat
        BY <2>2, <2>3
      <3> QED
        BY <3>5, <3>6, <3>7 DEF Marts!Next, Marts!Swap
    <2> QED
      BY <2>5, <2>6, LiveStep
  <1> QED
    BY <1>1, <1>2, InvariantHolds, PTL DEF Spec, WholeMarts, Marts!Spec

------------------------------------------------------------------------------
\* Success.

LEMMA MartNumbers == \A m \in Mart : m \in Nat
  BY ConstantsAssumption DEF Mart

\* Time passes in one direction: the bucket and the served tables get no older.
LEMMA GensAdvance ==
    ASSUME SInv, SInv', [Next]_vars, NEW m \in Mart
    PROVE  /\ source[m].gen \in Nat /\ source'[m].gen \in Nat /\ source[m].gen <= source'[m].gen
           /\ GenOf(live[m]) \in Nat /\ GenOf(live'[m]) \in Nat /\ GenOf(live[m]) <= GenOf(live'[m])
  <1>1. source[m].gen \in Nat /\ source'[m].gen \in Nat
    BY DEF SInv, TypeOK
  <1>2. source' = source \/ \E n \in Mart : Rewrite(n)
    BY DEF Next, Begin, Statement, Refused, Broken, vars
  <1>3. source[m].gen <= source'[m].gen
    BY <1>1, <1>2 DEF Rewrite, SInv, TypeOK
  <1>4. GenOf(live[m]) \in Nat
    BY GenType DEF SInv, TypeOK, LiveInv, GenOf
  <1>5. GenOf(live'[m]) \in Nat
    <2>1. live'[m] = Absent \/ (live'[m] \in Table /\ Complete(live'[m]))
      BY DEF SInv, TypeOK, LiveInv
    <2> QED
      BY <2>1, GenType DEF SInv, GenOf
  <1>6. GenOf(live[m]) <= GenOf(live'[m])
    <2>1. CASE live' = live
      BY <1>4, <2>1
    <2>2. CASE \E n \in Mart : Loadable(n) /\ live' = [live EXCEPT ![n] = shadow[n]]
      <3>1. PICK n \in Mart : Loadable(n) /\ live' = [live EXCEPT ![n] = shadow[n]]
        BY <2>2
      <3>2. CASE n = m
        BY <3>1, <3>2 DEF SInv, TypeOK, Loadable, GenOf
      <3>3. CASE n # m
        BY <1>4, <3>1, <3>3 DEF SInv, TypeOK
      <3> QED
        BY <3>2, <3>3
    <2> QED
      BY <2>1, <2>2, LiveStep
  <1> QED
    BY <1>1, <1>3, <1>4, <1>5, <1>6

\* A loader that another one's step leaves alone.
LEMMA OthersKeep ==
    ASSUME SInv, SInv', LoadInv, [Next]_vars, NEW l \in Loader, pc[l] \notin Running,
           UNCHANGED <<pc[l], at[l], todo[l], began[l]>>
    PROVE  /\ pc'[l] # "idle" => todo'[l] = Mart \/ \E m \in Mart : todo'[l] = {m}
           /\ pc'[l] \notin Running
           /\ \A m \in todo'[l] : GonePast(l, m)' => began'[l][m] <= GenOf(live'[m])
  <1>1. \A m \in todo[l] : m \in Mart /\ began[l][m] \in Nat
    BY DEF SInv, TypeOK
  <1>2. \A m \in todo[l] : GonePast(l, m)' => pc[l] = "done"
    BY Words DEF GonePast
  <1>3. \A m \in todo[l] : pc[l] = "done" => began[l][m] <= GenOf(live[m])
    BY DEF LoadInv, GonePast
  <1>4. \A m \in todo[l] : pc[l] = "done" => began[l][m] <= GenOf(live'[m])
    BY <1>1, <1>3, GensAdvance
  <1> QED
    BY <1>2, <1>4 DEF LoadInv

\* A statement that succeeds.
LEMMA StatementLoads ==
    ASSUME SInv, SInv', LoadInv, NEW l \in Loader, Statement(l)
    PROVE  /\ pc'[l] \in Running => at'[l] \in todo[l]
           /\ pc'[l] \in {"count", "exists", "exchange", "rename"} /\ shadow'[at'[l]] # <<>> =>
                began[l][at'[l]] <= shadow'[at'[l]][1].gen
           /\ \A m \in todo[l] : GonePast(l, m)' => began[l][m] <= GenOf(live'[m])
  <1> DEFINE m == at[l]
  <1>1. /\ m \in Mart /\ m \in Nat /\ pc[l] \in Running /\ m \in todo[l] /\ NMarts \in Nat
        /\ todo[l] \subseteq Mart /\ began[l][m] \in Nat /\ source[m].gen \in Nat
        /\ began[l][m] <= source[m].gen
        /\ todo[l] = Mart \/ \E n \in Mart : todo[l] = {n}
    <2>1. pc[l] \in Running /\ m \in Mart /\ todo[l] \subseteq Mart /\ NMarts \in Nat
      BY ConstantsAssumption DEF Statement, SInv, TypeOK
    <2>2. m \in todo[l] /\ began[l][m] <= source[m].gen
      BY <2>1 DEF LoadInv
    <2>3. todo[l] = Mart \/ \E n \in Mart : todo[l] = {n}
      BY <2>1, Words DEF LoadInv
    <2>4. began[l][m] \in Nat /\ source[m].gen \in Nat
      BY <2>1 DEF SInv, TypeOK
    <2> QED
      BY <2>1, <2>2, <2>3, <2>4, MartNumbers
  <1>2. /\ pc'[l] = NextStatement(l) /\ source' = source /\ Effect(l)
        /\ at'[l] = IF pc[l] \in {"dropold", "rename"} /\ HasNext(l) THEN m + 1 ELSE m
    BY DEF Statement, SInv, TypeOK
  <1>3. \A n \in todo[l] : /\ n \in Nat /\ began[l][n] \in Nat
                           /\ GenOf(live[n]) \in Nat /\ GenOf(live'[n]) \in Nat
                           /\ GenOf(live[n]) <= GenOf(live'[n])
    <2>1. [Next]_vars
      BY DEF Next
    <2>2. \A n \in todo[l] : n \in Mart /\ n \in Nat
      BY <1>1, MartNumbers
    <2>3. \A n \in todo[l] : began[l][n] \in Nat
      BY <2>2 DEF SInv, TypeOK
    <2> QED
      BY <2>1, <2>2, <2>3, GensAdvance
  <1>4. \A n \in todo[l] : n < m => began[l][n] <= GenOf(live'[n])
    BY <1>1, <1>3 DEF LoadInv, GonePast
  <1> HIDE DEF m
  <1>5. CASE pc[l] \in {"dropold", "rename"}
    <2>1. began[l][m] <= GenOf(live'[m])
      <3>1. CASE pc[l] = "dropold"
        BY <1>1, <1>3, <3>1 DEF LoadInv, GonePast, m
      <3>2. CASE pc[l] = "rename"
        <4>1. Loadable(m) /\ live'[m] = shadow[m]
          BY <1>1, <1>2, <3>2 DEF Effect, SetLive, SInv, ShadowInv, TypeOK, m
        <4>2. began[l][m] <= shadow[m][1].gen
          BY <1>1, <3>2, <4>1, EmptyTable DEF LoadInv, Loadable, m
        <4> QED
          BY <4>1, <4>2 DEF Loadable, GenOf
      <3> QED
        BY <1>5, <3>1, <3>2
    <2>2. \A n \in todo[l] : n < m + 1 => began[l][n] <= GenOf(live'[n])
      BY <1>1, <1>3, <1>4, <2>1
    <2>3. CASE HasNext(l)
      <3>1. pc'[l] = "drop" /\ at'[l] = m + 1 /\ m + 1 \in todo[l]
        BY <1>2, <1>5, <2>3 DEF NextStatement, HasNext, m
      <3> QED
        BY <2>2, <3>1 DEF GonePast
    <2>4. CASE ~HasNext(l)
      <3>1. pc'[l] = "done" /\ m + 1 \notin todo[l]
        BY <1>2, <1>5, <2>4 DEF NextStatement, HasNext, m
      <3>2. \A n \in todo[l] : n < m + 1
        <4>1. CASE todo[l] = Mart
          BY <1>1, <3>1, <4>1 DEF Mart
        <4>2. CASE \E n \in Mart : todo[l] = {n}
          BY <1>1, <4>2 DEF Mart
        <4> QED
          BY <1>1, <4>1, <4>2
      <3> QED
        BY <2>2, <3>1, <3>2, Words
    <2> QED
      BY <2>3, <2>4
  <1>6. CASE pc[l] \notin {"dropold", "rename"}
    <2>1. at'[l] = m /\ pc'[l] # "done" /\ (pc'[l] = "dropold" => pc[l] = "exchange")
      BY <1>1, <1>2, <1>6, Words DEF NextStatement, WhenEmpty
    <2>2. pc[l] = "exchange" => began[l][m] <= GenOf(live'[m])
      <3> SUFFICES ASSUME pc[l] = "exchange" PROVE began[l][m] <= GenOf(live'[m])
        OBVIOUS
      <3>1. Loadable(m) /\ live'[m] = shadow[m]
        BY <1>1, <1>2 DEF Effect, Exchange, SetLive, SInv, ShadowInv, TypeOK, m
      <3>2. began[l][m] <= shadow[m][1].gen
        BY <1>1, <3>1, EmptyTable DEF LoadInv, Loadable, m
      <3> QED
        BY <3>1, <3>2 DEF Loadable, GenOf
    <2>3. \A n \in todo[l] : GonePast(l, n)' => began[l][n] <= GenOf(live'[n])
      BY <1>4, <2>1, <2>2 DEF GonePast
    <2>4. pc'[l] \in {"count", "exists", "exchange", "rename"} /\ shadow'[m] # <<>> =>
                began[l][m] <= shadow'[m][1].gen
      <3>1. CASE pc[l] = "insert"
        <4>1. shadow[m] = <<>> /\ shadow'[m] = Inserted(l)
          BY <1>1, <1>2, <3>1 DEF Effect, SetShadow, SInv, ShadowInv, TypeOK, m
        <4>2. CASE source[m].rows
          <5>1. Inserted(l)[1].gen = source[m].gen
            BY <4>1, <4>2, InsertedLoadable DEF SInv, m
          <5> QED
            BY <1>1, <4>1, <5>1
        <4>3. CASE ~source[m].rows
          BY <4>1, <4>3 DEF Inserted, m
        <4> QED
          BY <4>2, <4>3
      <3>2. CASE pc[l] \in {"count", "exists"}
        BY <1>1, <1>2, <3>2 DEF Effect, LoadInv, m
      <3>3. CASE pc[l] \notin {"insert", "count", "exists"}
        BY <1>1, <1>2, <1>6, <3>3, Words DEF NextStatement, WhenEmpty
      <3> QED
        BY <3>1, <3>2, <3>3
    <2> QED
      BY <1>1, <2>1, <2>3, <2>4
  <1> QED
    BY <1>5, <1>6

LEMMA LoadStep == SInv /\ SInv' /\ LoadInv /\ [Next]_vars => LoadInv'
  <1> SUFFICES ASSUME SInv, SInv', LoadInv, [Next]_vars, NEW l \in Loader
               PROVE  /\ pc'[l] # "idle" => todo'[l] = Mart \/ \E m \in Mart : todo'[l] = {m}
                      /\ pc'[l] \in Running =>
                            at'[l] \in todo'[l] /\ \A m \in todo'[l] : began'[l][m] <= source'[m].gen
                      /\ pc'[l] \in {"count", "exists", "exchange", "rename"} /\ shadow'[at'[l]] # <<>> =>
                            began'[l][at'[l]] <= shadow'[at'[l]][1].gen
                      /\ \A m \in todo'[l] : GonePast(l, m)' => began'[l][m] <= GenOf(live'[m])
    BY DEF LoadInv
  <1>1. \A m \in todo[l] : /\ m \in Mart /\ began[l][m] \in Nat
                           /\ source[m].gen \in Nat /\ source'[m].gen \in Nat
                           /\ source[m].gen <= source'[m].gen
    BY GensAdvance DEF SInv, TypeOK
  <1>2. CASE Statement(l)
    <2>1. /\ pc[l] \in Running /\ UNCHANGED <<source, todo, began>>
          /\ \A m \in todo[l] : began[l][m] <= source[m].gen
          /\ todo[l] = Mart \/ \E m \in Mart : todo[l] = {m}
      BY <1>2, Words DEF Statement, LoadInv
    <2> QED
      BY <1>2, <2>1, StatementLoads
  <1>3. CASE Begin(l)
    <2>1. /\ pc'[l] = "drop" /\ began'[l] = [m \in Mart |-> source[m].gen] /\ source' = source
          /\ todo'[l] = Mart \/ \E m \in Mart : todo'[l] = {m}
          /\ at'[l] \in todo'[l] /\ \A m \in todo'[l] : at'[l] <= m
      BY <1>3 DEF Begin, SInv, TypeOK
    <2>2. \A m \in todo'[l] : m \in Nat /\ at'[l] \in Nat /\ m \in Mart
      BY <2>1, MartNumbers
    <2>3. \A m \in todo'[l] : ~GonePast(l, m)'
      BY <2>1, <2>2 DEF GonePast
    <2>4. \A m \in Mart : source[m].gen \in Nat
      BY DEF SInv, TypeOK
    <2> QED
      BY <2>1, <2>2, <2>3, <2>4, Words
  <1>4. CASE Refused(l) \/ Broken(l)
    <2>1. pc[l] \in Running /\ pc'[l] = "failed" /\ UNCHANGED <<todo, began>>
      BY <1>4 DEF Refused, Broken, SInv, TypeOK
    <2>2. todo[l] = Mart \/ \E m \in Mart : todo[l] = {m}
      BY <2>1, Words DEF LoadInv
    <2> QED
      BY <2>1, <2>2, Words DEF GonePast
  <1>5. CASE \E m \in Mart : Rewrite(m)
    <2>1. UNCHANGED <<live, shadow, pc, at, todo, began>>
      BY <1>5 DEF Rewrite
    <2> QED
      BY <1>1, <2>1 DEF LoadInv, GonePast
  <1>6. CASE UNCHANGED vars
    BY <1>6 DEF vars, LoadInv, GonePast
  <1>7. ASSUME NEW k \in Loader, k # l, Statement(k) \/ Refused(k) \/ Broken(k)
        PROVE  pc[l] \notin Running /\ UNCHANGED <<pc[l], at[l], todo[l], began[l]>>
    BY <1>7 DEF Statement, Refused, Broken, SInv, TypeOK, Alone
  <1>8. ASSUME NEW k \in Loader, k # l, Begin(k)
        PROVE  UNCHANGED <<pc[l], at[l], todo[l], began[l], live, shadow, source>>
    BY <1>8 DEF Begin, SInv, TypeOK
  <1>9. CASE \E k \in Loader : k # l /\ (Statement(k) \/ Refused(k) \/ Broken(k))
    BY <1>7, <1>9, OthersKeep, Words
  <1>10. CASE \E k \in Loader : k # l /\ Begin(k)
    BY <1>8, <1>10 DEF LoadInv, GonePast
  <1> QED
    BY <1>2, <1>3, <1>4, <1>5, <1>6, <1>9, <1>10 DEF Next

\* What a load has gone past is served as new as the bucket was (Serve!LoadInv).
THEOREM LoadsAreCurrent == ASSUME ~Overlap PROVE Spec => []LoadInv
  <1>1. Init => LoadInv
    BY Words DEF Init, LoadInv, GonePast
  <1> QED
    BY <1>1, LoadStep, InvariantHolds, PTL DEF Spec

\* A load that reports success serves, for every mart it was to load, data at least
\* as new as the bucket had when it began (Serve!SuccessMeansCurrent).
THEOREM SuccessIsCurrent == ASSUME ~Overlap PROVE Spec => []SuccessMeansCurrent
  <1>1. LoadInv => SuccessMeansCurrent
    BY DEF LoadInv, GonePast, SuccessMeansCurrent
  <1> QED
    BY <1>1, LoadsAreCurrent, PTL
==============================================================================
