------------------------------ MODULE MCStaging ------------------------------
(***************************************************************************)
(* Small instances of Staging for TLC.                                     *)
(***************************************************************************)
EXTENDS Staging

\* r1 is charged and succeeds in one tick, and is reversed on another day; r2
\* was charged the day before and fails.
MCLag == [r1 |-> 1, r2 |-> 2]

Pending1  == [id |-> 5, ref |-> "r1", status |-> "pending",  at |-> 3, created |-> 3]
Success1  == [id |-> 3, ref |-> "r1", status |-> "success",  at |-> 3, created |-> 3]
Reversed1 == [id |-> 4, ref |-> "r1", status |-> "reversed", at |-> 7, created |-> 3]
Pending2  == [id |-> 2, ref |-> "r2", status |-> "pending",  at |-> 0, created |-> 0]
Failed2   == [id |-> 1, ref |-> "r2", status |-> "failed",   at |-> 2, created |-> 0]
Line1     == [id |-> 0, ref |-> "r1", date |-> 2]

On(day, batch) == [day |-> day, batch |-> batch]

\* Each event once, and the success and the settlement line again in a second drain.
Redelivered ==
    [transactions |-> {Pending1, Success1, Reversed1, Pending2, Failed2} \X {On(0, 0)}
                          \cup {<<Success1, On(0, 1)>>},
     settlements  |-> {Line1} \X {On(0, 0), On(0, 1)}]

\* A pending charge that succeeds, drained once, or generated again the next day.
Once  == [transactions |-> {Pending1, Success1} \X {On(0, 0)}, settlements |-> {Line1} \X {On(0, 0)}]
Twice == [transactions |-> {Pending1, Success1} \X {On(0, 0), On(1, 0)},
          settlements  |-> {Line1} \X {On(0, 0), On(1, 0)}]
==============================================================================
