---------------------------- MODULE PublishProofs -----------------------------
(***************************************************************************)
(* Theorems about publish (Publish), for every number of events, queue     *)
(* length and poll period.                                                 *)
(***************************************************************************)
EXTENDS Publish, TLAPS

LEMMA EventFields ==
    ASSUME NEW e \in Event
    PROVE  e[1] \in 1..2 /\ e[2] \in 1..Count[e[1]] /\ e = <<e[1], e[2]>>
  BY DEF Event

\* What a poll does to a message of the running call, and to the others.
LEMMA PolledMessage ==
    ASSUME NEW m \in [Event -> Message]
    PROVE  /\ Polled(m) \in [Event -> Message]
           /\ \A e \in Event :
                /\ Polled(m)[e] = "new" <=> m[e] = "new"
                /\ Polled(m)[e] \in {"acked", "delivered"} => m[e] \in {"acked", "delivered"}
                /\ e \notin Of(call) => Polled(m)[e] = m[e]
  BY DEF Polled, Message, Reported

\* A step on the messages of the running call: those of the calls that have
\* returned are not touched, and only what is in the log is acknowledged.
LEMMA CallStep ==
    ASSUME PInv, at \in Running, UNCHANGED <<at, call, log, cut>>,
           msg' \in [Event -> Message], next' \in Nat \ {0}, ready' \in BOOLEAN,
           at = "flush" => next' = next,
           \A e \in Of(call) : msg'[e] = "new" => e[2] >= next',
           \A e \in Event :
               /\ msg'[e] \in {"acked", "delivered"} => msg[e] \in {"acked", "delivered"} \/ e \in log
               /\ e \notin Of(call) => msg'[e] = msg[e]
    PROVE  PInv'
  <1>1. TypeOK'
    BY DEF PInv, TypeOK
  <1>2. Returned' = Returned /\ \A c \in Returned : Of(c) \cap Of(call) = {}
    BY DEF Returned, Of, Running, PInv, TypeOK
  <1> QED
    BY <1>1, <1>2 DEF PInv, Of

LEMMA InvInit == Init => PInv
  <1> SUFFICES ASSUME Init PROVE PInv
    OBVIOUS
  <1>1. TypeOK
    <2>1. msg \in [Event -> Message]
      BY DEF Init, Message
    <2>2. ready \in BOOLEAN
      BY DEF Init
    <2>3. /\ at \in Running /\ call \in 1..2 /\ next \in Nat \ {0}
          /\ log \subseteq Event /\ cut \subseteq 1..2
      BY DEF Init, Running
    <2> QED
      BY <2>1, <2>2, <2>3 DEF TypeOK
  <1>2. \A e \in Event : msg[e] = "new"
    BY DEF Init
  <1>3. Returned = {}
    BY DEF Init, Returned
  <1>4. \A e \in Event : e[2] >= next
    BY EventFields, ConstantsAssumption DEF Init
  <1> QED
    BY <1>1, <1>2, <1>3, <1>4 DEF PInv, Init, Of

\* A call returns: nothing of it has failed, is left unreported, or unqueued.
LEMMA ReturnStep ==
    ASSUME PInv, at = "flush", Return, cut' \in SUBSET (1..2), cut \subseteq cut',
           Held = {} \/ call \in cut'
    PROVE  PInv'
  <1> USE DEF PInv, TypeOK
  <1>1. \A e \in Of(call) : msg[e] # "new"
    BY EventFields, ConstantsAssumption DEF Of
  <1>2. TypeOK' /\ msg' = msg /\ log' = log /\ at' # "flush"
    <2>1. ready' \in BOOLEAN /\ msg' = msg /\ log' = log
      BY DEF Return
    <2>2. at' \in {"raised", "done", "prewarm"} /\ call' \in 1..2 /\ next' \in Nat \ {0}
      BY DEF Return
    <2> QED
      BY <2>1, <2>2 DEF Running
  <1>3. CASE \E e \in Of(call) : msg[e] = "failed"
    <2>1. at' = "raised" /\ call' = call /\ next' = next /\ Returned' = Returned
      BY <1>3 DEF Return, Returned
    <2> QED
      BY <1>2, <2>1 DEF Of
  <1>4. CASE ~\E e \in Of(call) : msg[e] = "failed"
    <2>1. Returned' \subseteq Returned \cup {call}
      BY <1>4 DEF Return, Returned
    <2>2. ASSUME Held = {} PROVE \A e \in Of(call) : msg[e] = "delivered"
      BY <1>1, <1>4, <2>2 DEF Held, Message, Reported, Of
    <2>3. \A c \in Returned' \ cut' : \A e \in Of(c) : msg'[e] = "delivered"
      BY <1>2, <2>1, <2>2
    <2>4. \A e \in Of(call)' : msg'[e] = "new" => e[2] >= next'
      <3>1. CASE call = 2
        BY <1>1, <1>2, <1>4, <3>1 DEF Return, Of
      <3>2. CASE call # 2
        BY <1>4, <3>2, EventFields, ConstantsAssumption DEF Return, Of
      <3> QED
        BY <3>1, <3>2
    <2> QED
      BY <1>2, <2>3, <2>4 DEF Of
  <1> QED
    BY <1>3, <1>4

LEMMA InvStep == PInv /\ [Next]_vars => PInv'
  <1> SUFFICES ASSUME PInv, [Next]_vars PROVE PInv'
    OBVIOUS
  <1> USE DEF PInv, TypeOK
  <1>1. CASE Prewarm \/ LoopEnds \/ Kill
    <2>1. TypeOK' /\ UNCHANGED <<call, next, ready, msg, log, cut>>
      BY <1>1 DEF Prewarm, LoopEnds, Kill, Running
    <2>2. Returned' = Returned
      BY <1>1 DEF Prewarm, LoopEnds, Kill, Running, Returned
    <2>3. at' = "flush" => next' > Count[call']
      BY <1>1 DEF Prewarm, LoopEnds, Kill
    <2> QED
      BY <2>1, <2>2, <2>3 DEF Of
  <1>2. CASE Produce
    <2> DEFINE e0 == <<call, next>>
               queued == [msg EXCEPT ![e0] = "queued"]
    <2>1. e0 \in Event /\ e0 \in Of(call)
      BY <1>2, ConstantsAssumption DEF Produce, Event, Of
    <2>2. queued \in [Event -> Message] /\ msg' \in {queued, Polled(queued)}
      BY <1>2, <2>1 DEF Produce, Message
    <2>3. \A e \in Event : /\ queued[e] = "new" <=> msg[e] = "new" /\ e # e0
                           /\ queued[e] \in {"acked", "delivered"} => msg[e] \in {"acked", "delivered"}
                           /\ e \notin Of(call) => queued[e] = msg[e]
      BY <2>1
    <2> HIDE DEF queued
    <2>4. /\ msg' \in [Event -> Message]
          /\ \A e \in Event : /\ msg'[e] = "new" <=> queued[e] = "new"
                              /\ msg'[e] \in {"acked", "delivered"} => queued[e] \in {"acked", "delivered"}
                              /\ e \notin Of(call) => msg'[e] = queued[e]
      BY <2>2, PolledMessage
    <2>5. \A e \in Of(call) : e # e0 /\ e[2] >= next => e[2] >= next + 1
      BY EventFields, ConstantsAssumption DEF Of
    <2>6. \A e \in Of(call) : msg'[e] = "new" => e[2] >= next + 1
      BY <2>3, <2>4, <2>5 DEF Of
    <2>7. at \in Running /\ at # "flush" /\ UNCHANGED <<at, call, log, cut>>
      BY <1>2 DEF Produce, Running
    <2>8. next' \in Nat \ {0} /\ next' = next + 1
      BY <1>2 DEF Produce
    <2>9. ready' \in BOOLEAN
      BY <1>2 DEF Produce
    <2>10. \A e \in Event :
              /\ msg'[e] \in {"acked", "delivered"} => msg[e] \in {"acked", "delivered"} \/ e \in log
              /\ e \notin Of(call) => msg'[e] = msg[e]
      BY <2>3, <2>4
    <2> HIDE DEF PInv, TypeOK
    <2> QED
      BY <2>4, <2>6, <2>7, <2>8, <2>9, <2>10, CallStep
  <1>3. CASE Full \/ Flush
    <2>1. msg' = Polled(msg) /\ at \in Running /\ UNCHANGED <<at, call, next, ready, log, cut>>
      BY <1>3 DEF Full, Flush, Running
    <2> QED
      BY <2>1, PolledMessage, CallStep DEF Of
  <1>4. CASE Flushed \/ FlushTimeout
    BY <1>4, ReturnStep DEF Flushed, FlushTimeout
  <1>5. CASE Handshake
    BY <1>5 DEF Handshake, Returned, Of
  <1>6. ASSUME NEW e \in Event, Persist(e) PROVE PInv'
    BY <1>6 DEF Persist, Returned, Of
  <1>7. ASSUME NEW e \in Event, Ack(e) \/ Expire(e) PROVE PInv'
    <2>1. PICK outcome \in Reported : Report(e, outcome) /\ (outcome = "acked" => e \in log)
      BY <1>7 DEF Ack, Expire, Reported
    <2> QED
      BY <2>1, CallStep DEF Report, Message, Reported, Of
  <1>8. CASE UNCHANGED vars
    BY <1>8 DEF vars, Returned, Of
  <1> QED
    BY <1>1, <1>2, <1>3, <1>4, <1>5, <1>6, <1>7, <1>8 DEF Next, Process

------------------------------------------------------------------------------
\* The inductive invariant: unqueued events are ahead of the loop, what was
\* acknowledged is in the log, and calls that returned have left nothing open.
THEOREM InvariantHolds == Spec => []PInv
  BY InvInit, InvStep, PTL DEF Spec

\* The variables of the publisher keep their types.
THEOREM TypeCorrect == Spec => []TypeOK
  <1>1. PInv => TypeOK
    BY DEF PInv
  <1> QED
    BY <1>1, InvariantHolds, PTL

\* A call of publish that returns without a flush time-out has put each of its
\* events into the topic.
THEOREM ReturnsComplete == Spec => []ReturnIsComplete
  <1>1. PInv => ReturnIsComplete
    BY DEF PInv, ReturnIsComplete, Of
  <1> QED
    BY <1>1, InvariantHolds, PTL
==============================================================================
