------------------------------- MODULE Publish --------------------------------
(***************************************************************************)
(* publish of src/settlement/generate.py, and the two calls main and the   *)
(* generate_events task make of it: transactions, then settlements.        *)
(*                                                                         *)
(* A call queues its events in a producer of its own.  librdkafka sends    *)
(* them in the background, the broker appends them, and each ends with one *)
(* delivery report, which the callback sees only inside poll or flush; a   *)
(* message holds its place in the queue until then.  Partitions and order  *)
(* in the log are left out: nothing that reads the topics relies on them.  *)
(***************************************************************************)
EXTENDS Naturals, FiniteSets

CONSTANTS Count,        \* Count[c]: how many events call c is given
          MaxMessages,  \* queue.buffering.max.messages
          PollEvery     \* the loop polls once in so many messages: 100

ASSUME ConstantsAssumption ==
    /\ Count \in [1..2 -> Nat]
    /\ MaxMessages \in Nat \ {0}
    /\ PollEvery \in Nat \ {0}

Event == UNION {{c} \X (1..Count[c]) : c \in 1..2}
Of(c) == {e \in Event : e[1] = c}

VARIABLES
    at,         \* where the process is
    call, next, \* the call it is in, and the event its loop has come to
    ready,      \* has the producer of this call its producer ID?
    msg,        \* msg[e]: what the producer, or its callback, knows of event e
    log,        \* events the broker has appended
    cut         \* history: the calls whose flush timed out

vars == <<at, call, next, ready, msg, log, cut>>

Running  == {"prewarm", "produce", "flush"}
Reported == {"acked", "expired"}        \* reports no callback has seen
Message  == {"new", "queued", "delivered", "failed"} \cup Reported

Init ==
    /\ at = "prewarm" /\ call = 1 /\ next = 1 /\ ready = FALSE
    /\ msg = [e \in Event |-> "new"]
    /\ log = {} /\ cut = {}

------------------------------------------------------------------------------
\* The messages that hold a place in the queue.
Held == {e \in Of(call) : msg[e] \in {"queued"} \cup Reported}

\* Without a producer ID the capacity is zero (generate.py:332-336).
Room == ready /\ Cardinality(Held) < MaxMessages

\* Mutant of Polled: a failed delivery is counted like any other.
AllDelivered(m) == [e \in Event |-> IF e \in Of(call) /\ m[e] \in Reported THEN "delivered" ELSE m[e]]

\* poll and flush call _cb for every report there is.
Polled(m) ==
    [e \in Event |-> IF e \notin Of(call) \/ m[e] \notin Reported THEN m[e]
                     ELSE IF m[e] = "acked" THEN "delivered" ELSE "failed"]

\* The first poll, with a time-out: the producer ID may have come, or not yet.
Prewarm ==
    /\ at = "prewarm" /\ at' = "produce"
    /\ UNCHANGED <<call, next, ready, msg, log, cut>>

Produce ==
    /\ at = "produce" /\ next <= Count[call] /\ Room
    /\ LET queued == [msg EXCEPT ![<<call, next>>] = "queued"]
       IN  msg' = IF (next - 1) % PollEvery = 0 THEN Polled(queued) ELSE queued
    /\ next' = next + 1
    /\ UNCHANGED <<at, call, ready, log, cut>>

\* Mutant of Full: wait and try again, without a poll.
JustRetry == at = "produce" /\ next <= Count[call] /\ ~Room /\ UNCHANGED vars

\* BufferError: poll, and produce again.
Full ==
    /\ at = "produce" /\ next <= Count[call] /\ ~Room
    /\ msg' = Polled(msg)
    /\ UNCHANGED <<at, call, next, ready, log, cut>>

LoopEnds ==
    /\ at = "produce" /\ next > Count[call] /\ at' = "flush"
    /\ UNCHANGED <<call, next, ready, msg, log, cut>>

\* Mutant of Return: no look at the failures, and no end to the calls.
OneCallMore ==
    at' = "prewarm" /\ call' = call + 1 /\ next' = 1 /\ ready' = FALSE /\ UNCHANGED <<msg, log>>

\* The last lines of publish; main goes on to the settlements.
Return ==
    /\ IF \E e \in Of(call) : msg[e] = "failed"
       THEN at' = "raised" /\ UNCHANGED <<call, next, ready>>
       ELSE IF call = 2
       THEN at' = "done" /\ UNCHANGED <<call, next, ready>>
       ELSE at' = "prewarm" /\ call' = 2 /\ next' = 1 /\ ready' = FALSE
    /\ UNCHANGED <<msg, log>>

\* flush(300) serves reports until no message is left, or its time is up; which
\* of the two it was, publish does not ask.
Flush ==
    /\ at = "flush" /\ Held # {}
    /\ msg' = Polled(msg)
    /\ UNCHANGED <<at, call, next, ready, log, cut>>
Flushed      == at = "flush" /\ Held = {} /\ Return /\ UNCHANGED cut
FlushTimeout == at = "flush" /\ Held # {} /\ Return /\ cut' = cut \cup {call}

\* The execution time-out of the task, or a crash.
Kill ==
    /\ at \in Running /\ at' = "killed"
    /\ UNCHANGED <<call, next, ready, msg, log, cut>>

------------------------------------------------------------------------------
\* librdkafka and the broker.

Handshake ==
    /\ at \in Running /\ ~ready /\ ready' = TRUE
    /\ UNCHANGED <<at, call, next, msg, log, cut>>

\* The broker appends a message it was sent, perhaps long after the producer has
\* given it up or is gone; with idempotence on, once.
Persist(e) ==
    /\ msg[e] # "new" /\ e \notin log
    /\ log' = log \cup {e}
    /\ UNCHANGED <<at, call, next, ready, msg, cut>>

Report(e, outcome) ==
    /\ at \in Running /\ e \in Of(call) /\ msg[e] = "queued"
    /\ msg' = [msg EXCEPT ![e] = outcome]
    /\ UNCHANGED <<at, call, next, ready, log, cut>>

Ack(e) == e \in log /\ Report(e, "acked")

\* message.timeout.ms has passed, or the broker refuses the message.  A message
\* whose acknowledgement is lost is in the log all the same.
Expire(e) == Report(e, "expired")

------------------------------------------------------------------------------
Process == Prewarm \/ Produce \/ Full \/ LoopEnds \/ Flush \/ Flushed

Next ==
    \/ Process \/ FlushTimeout \/ Kill
    \/ Handshake
    \/ \E e \in Event : Persist(e) \/ Ack(e) \/ Expire(e)

\* The process runs, and the timers of librdkafka are local; of the broker
\* nothing is assumed, and no time-out but message.timeout.ms need ever come.
Fairness == WF_vars(Process) /\ WF_vars(\E e \in Event : Expire(e))

Spec == Init /\ [][Next]_vars /\ Fairness

------------------------------------------------------------------------------
\* The type of every variable.
TypeOK ==
    /\ at \in Running \cup {"done", "raised", "killed"}
    /\ call \in 1..2 /\ next \in Nat \ {0}
    /\ ready \in BOOLEAN
    /\ msg \in [Event -> Message]
    /\ log \subseteq Event
    /\ cut \subseteq 1..2

\* A call that has returned has put every event into the topic, whatever became
\* of queue, acknowledgements and callbacks on the way, unless its flush timed
\* out: "if failures: raise" (generate.py:380-381) sees every loss but that one.
\* So settlements are published only when their transactions are in the log.
Returned == {c \in 1..2 : c < call \/ at = "done"}
ReturnIsComplete == \A c \in Returned \ cut : Of(c) \subseteq log

\* What every step preserves: events before next, and those of earlier calls,
\* have been queued; what _cb counted as delivered is in the log; and the
\* producer of an earlier call has nothing failed, and nothing left unless its
\* flush timed out.
PInv ==
    /\ TypeOK
    /\ at = "flush" => next > Count[call]
    /\ \A e \in Of(call) : msg[e] = "new" => e[2] >= next
    /\ \A e \in Event : msg[e] \in {"acked", "delivered"} => e \in log
    /\ \A c \in Returned \ cut : \A e \in Of(c) : msg[e] = "delivered"

\* publish ends although nothing bounds its retries of produce: reports free the
\* queue, and a message nobody acknowledges expires.  It needs one thing from
\* the broker, a producer ID: without it the loop goes on until the task is
\* killed.
Handshaken  == (at \in Running /\ ~ready) ~> (ready \/ at \notin Running)
PublishEnds == Handshaken => <>(at \notin Running)
==============================================================================
