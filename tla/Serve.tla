-------------------------------- MODULE Serve --------------------------------
(***************************************************************************)
(* src/settlement/serve.py: loading the marts into ClickHouse.             *)
(*                                                                         *)
(* A loader is one call of run or main: the load_clickhouse task, its      *)
(* retry, or a command-line run.  Each of its statements is a step of its  *)
(* own, so that a failure, the transform stage, and another loader may     *)
(* come between any two of them.                                           *)
(***************************************************************************)
EXTENDS Naturals, Sequences

CONSTANTS Loader,       \* calls of run / main
          NMarts,       \* MARTS, in loading order, are 1..NMarts
          Absent,       \* no such table
          Overlap,      \* may a loader begin while another one is running?
          MaxGen,       \* bound: generations of a mart
          MaxFaults     \* bound: statements that fail

ASSUME ConstantsAssumption ==
    /\ NMarts \in Nat \ {0}
    /\ Overlap \in BOOLEAN
    /\ MaxGen \in Nat
    /\ MaxFaults \in Nat

Mart == 1..NMarts

\* The rows one INSERT put into a table: of which generation of the mart, and
\* whether all of them.  A table is what was inserted into it since its creation.
Piece == [gen : Nat, whole : BOOLEAN]

ASSUME AbsentAssumption == Absent \notin Seq(Piece)

Table == Seq(Piece) \cup {Absent}

VARIABLES
    source,         \* source[m]: the parquet of m, its generation (0: not there) and whether it has rows
    live, shadow,   \* tables <mart> and <mart>__incoming
    pc,             \* the next statement of a loader
    at, todo,       \* the mart it is loading, and all it was to load
    began,          \* history: the generations in the bucket when it began
    faults          \* how many statements have failed

vars == <<source, live, shadow, pc, at, todo, began, faults>>

Running == {"drop", "create", "insert", "count", "refuse", "exists",
            "exchange", "dropold", "rename"}
PC      == Running \cup {"idle", "done", "failed"}

Init ==
    /\ source \in [Mart -> {[gen |-> 0, rows |-> FALSE], [gen |-> 1, rows |-> TRUE]}]
    /\ live = [m \in Mart |-> Absent]
    /\ shadow = [m \in Mart |-> Absent]
    /\ pc = [l \in Loader |-> "idle"]
    /\ at = [l \in Loader |-> 1]
    /\ todo = [l \in Loader |-> {}]
    /\ began = [l \in Loader |-> [m \in Mart |-> 0]]
    /\ faults = 0

\* The transform stage rewrites the parquet of a mart, perhaps with no rows.
Rewrite(m) ==
    /\ source[m].gen < MaxGen
    /\ \E rows \in BOOLEAN :
          source' = [source EXCEPT ![m] = [gen |-> source[m].gen + 1, rows |-> rows]]
    /\ UNCHANGED <<live, shadow, pc, at, todo, began, faults>>

\* run loads every mart; main --only loads one.
Begin(l) ==
    /\ pc[l] = "idle"
    /\ Overlap \/ \A k \in Loader : pc[k] \notin Running
    /\ \E specs \in {Mart} \cup {{m} : m \in Mart} :
          /\ todo' = [todo EXCEPT ![l] = specs]
          /\ \E first \in specs : /\ \A m \in specs : first <= m
                                 /\ at' = [at EXCEPT ![l] = first]
    /\ pc' = [pc EXCEPT ![l] = "drop"]
    /\ began' = [began EXCEPT ![l] = [m \in Mart |-> source[m].gen]]
    /\ UNCHANGED <<source, live, shadow, faults>>

------------------------------------------------------------------------------
\* load_mart, statement by statement.  Accepted(l) is what the server requires
\* of the next statement of l, and Effect(l) what the statement does.

Accepted(l) ==
    /\ pc[l] \in {"create", "insert"} => source[at[l]].gen > 0
    /\ pc[l] = "create" => shadow[at[l]] = Absent
    /\ pc[l] \in {"insert", "count", "exchange", "rename"} => shadow[at[l]] # Absent
    /\ pc[l] = "exchange" => live[at[l]] # Absent
    /\ pc[l] = "rename" => live[at[l]] = Absent

SetShadow(l, table) == shadow' = [shadow EXCEPT ![at[l]] = table]
SetLive(l, table)   == live' = [live EXCEPT ![at[l]] = table]

\* INSERT INTO ... SELECT * FROM s3(...): what the shadow table holds after it.
Inserted(l) ==
    LET file == source[at[l]]
    IN  IF file.rows THEN Append(shadow[at[l]], [gen |-> file.gen, whole |-> TRUE])
        ELSE shadow[at[l]]

\* Mutant: DROP and RENAME instead of one EXCHANGE, up to the DROP.
DropLive(l) == SetLive(l, Absent) /\ UNCHANGED shadow

Exchange(l) == SetLive(l, shadow[at[l]]) /\ SetShadow(l, live[at[l]])

Effect(l) ==
    CASE pc[l] \in {"drop", "refuse", "dropold"} ->
            SetShadow(l, Absent) /\ UNCHANGED live
      [] pc[l] = "create" ->
            SetShadow(l, <<>>) /\ UNCHANGED live
      [] pc[l] = "insert" ->
            SetShadow(l, Inserted(l)) /\ UNCHANGED live
      [] pc[l] \in {"count", "exists"} ->
            UNCHANGED <<live, shadow>>
      [] pc[l] = "exchange" ->
            Exchange(l)
      [] pc[l] = "rename" ->
            SetLive(l, shadow[at[l]]) /\ SetShadow(l, Absent)

\* Mutants: 0 rows are not checked for; the rows of the wrong table are counted.
CountIgnored(l) == FALSE
LiveIsEmpty(l)  == live[at[l]] = <<>>

IsEmpty(l) == shadow[at[l]] = <<>>

\* Mutant: an empty mart is skipped, and the load goes on.
SkipMart(l) == "dropold"

WhenEmpty(l) == "refuse"

\* Mutant: one mart too many.
HasCurrent(l) == at[l] \in todo[l]

HasNext(l) == at[l] + 1 \in todo[l]

\* The statement after a successful one; after the last one, the next mart.
NextStatement(l) ==
    CASE pc[l] = "drop"     -> "create"
      [] pc[l] = "create"   -> "insert"
      [] pc[l] = "insert"   -> "count"
      [] pc[l] = "count"    -> IF IsEmpty(l) THEN WhenEmpty(l) ELSE "exists"
      [] pc[l] = "refuse"   -> "failed"
      [] pc[l] = "exists"   -> IF live[at[l]] # Absent THEN "exchange" ELSE "rename"
      [] pc[l] = "exchange" -> "dropold"
      [] pc[l] \in {"dropold", "rename"} -> IF HasNext(l) THEN "drop" ELSE "done"

Statement(l) ==
    /\ pc[l] \in Running
    /\ Accepted(l)
    /\ Effect(l)
    /\ pc' = [pc EXCEPT ![l] = NextStatement(l)]
    /\ at' = [at EXCEPT ![l] = IF pc[l] \in {"dropold", "rename"} /\ HasNext(l) THEN @ + 1 ELSE @]
    /\ UNCHANGED <<source, todo, began, faults>>

\* The server refuses the statement, and the exception ends the loader.
Refused(l) ==
    /\ pc[l] \in Running
    /\ ~Accepted(l)
    /\ pc' = [pc EXCEPT ![l] = "failed"]
    /\ UNCHANGED <<source, live, shadow, at, todo, began, faults>>

\* The loader dies, or its statement fails, before or after taking effect; an
\* INSERT may have written some blocks only.
Broken(l) ==
    /\ pc[l] \in Running
    /\ Accepted(l)
    /\ faults < MaxFaults
    /\ \/ Effect(l)
       \/ UNCHANGED <<live, shadow>>
       \/ /\ pc[l] = "insert"
          /\ SetShadow(l, Append(shadow[at[l]], [gen |-> source[at[l]].gen, whole |-> FALSE]))
          /\ UNCHANGED live
    /\ pc' = [pc EXCEPT ![l] = "failed"]
    /\ faults' = faults + 1
    /\ UNCHANGED <<source, at, todo, began>>

Next ==
    \/ \E m \in Mart : Rewrite(m)
    \/ \E l \in Loader : Begin(l) \/ Statement(l) \/ Refused(l) \/ Broken(l)

Spec == Init /\ [][Next]_vars

------------------------------------------------------------------------------
\* Properties.

\* The type of every variable.
TypeOK ==
    /\ source \in [Mart -> [gen : Nat, rows : BOOLEAN]]
    /\ live \in [Mart -> Table]
    /\ shadow \in [Mart -> Table]
    /\ pc \in [Loader -> PC]
    /\ at \in [Loader -> Mart]
    /\ todo \in [Loader -> SUBSET Mart]
    /\ began \in [Loader -> [Mart -> Nat]]
    /\ faults \in Nat

\* Exactly the rows of one generation, all of them, once.
Complete(table) == Len(table) = 1 /\ table[1].whole

GenOf(table) == IF table = Absent THEN 0 ELSE table[1].gen

\* Whatever statement fails, and whatever the last attempt left behind, a table
\* readers can see holds one complete generation: never part of a load, never
\* two of them, never nothing (serve.py:20-23; docs/project_explainer.md:153).
ServedComplete == \A m \in Mart : live[m] # Absent => Complete(live[m])

\* "Readers see either the old table or the new one, never an empty one"
\* (serve.py:133-134).
ServedNotEmpty == \A m \in Mart : live[m] # <<>>

\* A table that is served stays served, and no later load brings an older
\* generation back: EXCHANGE puts in what this loader inserted, and the drop
\* after it removes the old table and not the new one.
ServedOnlyAdvances ==
    [][\A m \in Mart : live[m] # Absent =>
          live'[m] # Absent /\ GenOf(live[m]) <= GenOf(live'[m])]_vars

\* A table that is served never disappears, even while loads overlap: none of
\* the statements of two loaders, in any order, leaves readers without it.
ServedStays == [][\A m \in Mart : live[m] # Absent => live'[m] # Absent]_vars

\* A load that reports success serves, for every mart it was to load, data at
\* least as new as the bucket had when it began; marts it did not reach, or
\* whose parquet was empty, never pass for loaded.
SuccessMeansCurrent ==
    \A l \in Loader : pc[l] = "done" =>
        \A m \in todo[l] : began[l][m] <= GenOf(live[m])

------------------------------------------------------------------------------
\* Why readers see complete tables only, when loads do not overlap: what every
\* step preserves.

Alone == \A k, l \in Loader : pc[k] \in Running /\ pc[l] \in Running => k = l

\* What a loader may put in the place of the served table.
Loadable(m) ==
    /\ shadow[m] # Absent
    /\ Complete(shadow[m])
    /\ GenOf(live[m]) <= shadow[m][1].gen
    /\ shadow[m][1].gen <= source[m].gen

ShadowInv ==
    \A l \in Loader :
        /\ pc[l] = "create" => shadow[at[l]] = Absent
        /\ pc[l] = "insert" => shadow[at[l]] = <<>>
        /\ pc[l] = "count" => shadow[at[l]] = <<>> \/ Loadable(at[l])
        /\ pc[l] \in {"exists", "exchange", "rename"} => Loadable(at[l])
        /\ pc[l] = "exchange" => live[at[l]] # Absent
        /\ pc[l] = "rename" => live[at[l]] = Absent

LiveInv ==
    \A m \in Mart : live[m] # Absent =>
        Complete(live[m]) /\ live[m][1].gen <= source[m].gen

SInv == TypeOK /\ Alone /\ ShadowInv /\ LiveInv

\* And why a load that reports success has served what it was to load: the marts
\* it has gone past, and what it is about to put in the place of the present one,
\* are as new as the bucket was when it began.
GonePast(l, m) ==
    \/ pc[l] = "done"
    \/ pc[l] \in Running /\ m < at[l]
    \/ pc[l] = "dropold" /\ m = at[l]

LoadInv ==
    \A l \in Loader :
        /\ pc[l] # "idle" => todo[l] = Mart \/ \E m \in Mart : todo[l] = {m}
        /\ pc[l] \in Running =>
              at[l] \in todo[l] /\ \A m \in todo[l] : began[l][m] <= source[m].gen
        /\ pc[l] \in {"count", "exists", "exchange", "rename"} /\ shadow[at[l]] # <<>> =>
              began[l][at[l]] <= shadow[at[l]][1].gen
        /\ \A m \in todo[l] : GonePast(l, m) => began[l][m] <= GenOf(live[m])

------------------------------------------------------------------------------
\* The loader implements whole-mart publication.  A table that is not complete
\* is a generation nobody built.
Generation(m) ==
    CASE live[m] = Absent -> 0
      [] live[m] # Absent /\ Complete(live[m]) -> live[m][1].gen
      [] OTHER -> source[m].gen + 1

Marts == INSTANCE ServedMarts WITH
    built  <- [m \in Mart |-> source[m].gen],
    served <- [m \in Mart |-> Generation(m)]

WholeMarts == Marts!Spec
==============================================================================
