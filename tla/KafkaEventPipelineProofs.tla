----------------------- MODULE KafkaEventPipelineProofs -----------------------
(***************************************************************************)
(* Proofs about KafkaEventPipeline, for every set of events, every number  *)
(* of retries and every bound.                                             *)
(***************************************************************************)
EXTENDS KafkaEventPipeline, TLAPS

USE DEF group

(***************************************************************************)
(* Lemmas about the operators of the pipeline.                             *)
(***************************************************************************)

\* The partitions and the key of an event are partitions and a key: topic and
\* aggregate of a domain event are the registry's.
LEMMA EventNames ==
    ASSUME NEW e \in Event
    PROVE  /\ MainPartition(e) \in Partition
           /\ RetryPartition(e) \in Partition
           /\ IdempotencyKey(e) \in Key
BY EventAssumption
   DEF MainPartition, RetryPartition, Partition, IdempotencyKey, Key

\* Appending message m to partition p changes nothing before it: the other
\* messages keep their offsets.
LEMMA AppendKeepsOffsets ==
    ASSUME log \in [Partition -> Seq(Message)],
           NEW p \in Partition, NEW m \in Message,
           log' = [log EXCEPT ![p] = Append(@, m)]
    PROVE  /\ log' \in [Partition -> Seq(Message)]
           /\ \A q \in Partition :
                 /\ Len(log'[q]) = IF q = p THEN Len(log[q]) + 1 ELSE Len(log[q])
                 /\ \A i \in 1 .. Len(log[q]) : log'[q][i] = log[q][i]
           /\ log'[p][Len(log[p]) + 1] = m
<1>1. log[p] \in Seq(Message)
  OBVIOUS
<1>2. Append(log[p], m) \in Seq(Message)
  BY <1>1
<1>3. log'[p] = Append(log[p], m)
  OBVIOUS
<1>4. \A q \in Partition : q # p => log'[q] = log[q]
  OBVIOUS
<1>5. log' \in [Partition -> Seq(Message)]
  BY <1>2
<1>6. /\ Len(log'[p]) = Len(log[p]) + 1
      /\ \A i \in 1 .. Len(log[p]) : log'[p][i] = log[p][i]
      /\ log'[p][Len(log[p]) + 1] = m
  BY <1>1, <1>3
<1>7. QED
  BY <1>4, <1>5, <1>6

\* The next message of a pending partition is a message.
LEMMA NextIsMessage ==
    ASSUME TypeOK, NEW p \in Partition, Pending(p)
    PROVE  /\ Next1(p) \in Message
           /\ Next1(p).event \in Event
           /\ Next1(p).retryCount \in 0 .. MaxRetries
           /\ position[p] \in Nat
           /\ position[p] + 1 \in 1 .. Len(log[p])
<1>1. log[p] \in Seq(Message) /\ position[p] \in Nat /\ Len(log[p]) \in Nat
  BY DEF TypeOK
<1>2. position[p] + 1 \in 1 .. Len(log[p])
  BY <1>1 DEF Pending
<1>3. Next1(p) \in Message
  BY <1>1, <1>2 DEF Next1
<1>4. QED
  BY <1>1, <1>2, <1>3 DEF Message

(***************************************************************************)
(* Type correctness.                                                       *)
(***************************************************************************)

\* A read message moves the position of its partition by one, within the log.
LEMMA AdvanceInRange ==
    ASSUME TypeOK, NEW p \in Partition, Pending(p), Advance(p)
    PROVE  /\ position' \in [Partition -> Nat]
           /\ \A q \in Partition :
                 /\ committed[q] # None => committed[q] =< position'[q]
                 /\ position'[q] =< Len(log[q])
<1>1. position' = [position EXCEPT ![p] = position[p] + 1]
  BY DEF Advance
<1>2. /\ position \in [Partition -> Nat]
      /\ committed \in [Partition -> Nat \union {None}]
      /\ \A q \in Partition : Len(log[q]) \in Nat
  BY DEF TypeOK
<1>3. position[p] + 1 =< Len(log[p])
  BY <1>2 DEF Pending
<1>4. QED
  BY <1>1, <1>2, <1>3 DEF TypeOK, OffsetsOrdered

\* An append to the log leaves the offsets in order.
LEMMA AppendKeepsOrder ==
    ASSUME TypeOK, NEW p \in Partition, NEW m \in Message,
           log' = [log EXCEPT ![p] = Append(@, m)],
           \/ UNCHANGED position
           \/ \E q \in Partition : Pending(q) /\ Advance(q),
           UNCHANGED group
    PROVE  /\ log' \in [Partition -> Seq(Message)]
           /\ position' \in [Partition -> Nat]
           /\ OffsetsOrdered'
<1>1. /\ log' \in [Partition -> Seq(Message)]
      /\ \A q \in Partition : Len(log'[q]) >= Len(log[q])
  BY AppendKeepsOffsets DEF TypeOK
<1>2. \A q \in Partition : Len(log'[q]) \in Nat /\ Len(log[q]) \in Nat
  BY <1>1 DEF TypeOK
<1>3. /\ position' \in [Partition -> Nat]
      /\ \A q \in Partition :
            /\ committed[q] # None => committed[q] =< position'[q]
            /\ position'[q] =< Len(log[q])
  BY AdvanceInRange DEF TypeOK, OffsetsOrdered
<1>4. QED
  BY <1>1, <1>2, <1>3 DEF TypeOK, OffsetsOrdered

\* A consumer that joins starts within the log, and not behind what the group
\* committed.
LEMMA StartInRange ==
    ASSUME TypeOK, NEW p \in Partition
    PROVE  /\ StartOffset(p) \in Nat
           /\ committed[p] # None => StartOffset(p) = committed[p]
           /\ StartOffset(p) =< Len(log[p])
<1>1. /\ committed[p] \in Nat \union {None} /\ position[p] \in Nat
      /\ Len(log[p]) \in Nat
  BY DEF TypeOK
<1>2. QED
  BY <1>1 DEF StartOffset, TypeOK, OffsetsOrdered

\* TypeOK is inductive: one case per action.
LEMMA TypeStep == TypeOK /\ [Next]_vars => TypeOK'
<1> SUFFICES ASSUME TypeOK, [Next]_vars PROVE TypeOK'
  OBVIOUS
<1> USE BoundAssumption
<1>1. ASSUME NEW e \in Event, Publish(e) PROVE TypeOK'
  BY <1>1 DEF Publish, TypeOK, OffsetsOrdered
<1>2. ASSUME NEW e \in Event, SendMessage(e) PROVE TypeOK'
  <2>1. [event |-> e, retryCount |-> 0] \in Message
    BY DEF Message
  <2>2. log' \in [Partition -> Seq(Message)] /\ OffsetsOrdered'
    BY <1>2, <2>1, EventNames, AppendKeepsOrder DEF SendMessage
  <2>3. QED
    BY <1>2, <2>2 DEF SendMessage, TypeOK, history
<1>3. ASSUME NEW e \in Event, SendRepeated(e) PROVE TypeOK'
  <2>1. [event |-> e, retryCount |-> 0] \in Message
    BY DEF Message
  <2>2. log' \in [Partition -> Seq(Message)] /\ OffsetsOrdered'
    BY <1>3, <2>1, EventNames, AppendKeepsOrder DEF SendRepeated
  <2>3. QED
    BY <1>3, <2>2 DEF SendRepeated, TypeOK
<1>4. ASSUME NEW p \in Partition, IgnoreUntrusted(p) PROVE TypeOK'
  <2>1. position' \in [Partition -> Nat] /\ OffsetsOrdered'
    BY <1>4, AdvanceInRange DEF IgnoreUntrusted, OffsetsOrdered
  <2>2. outcome' \in [Event -> SUBSET Outcome]
    BY <1>4, NextIsMessage DEF IgnoreUntrusted, Settled, TypeOK, Outcome
  <2>3. QED
    BY <1>4, <2>1, <2>2 DEF IgnoreUntrusted, TypeOK
<1>5. ASSUME NEW p \in Partition, SkipDuplicate(p) PROVE TypeOK'
  <2>1. position' \in [Partition -> Nat] /\ OffsetsOrdered'
    BY <1>5, AdvanceInRange DEF SkipDuplicate, OffsetsOrdered
  <2>2. outcome' \in [Event -> SUBSET Outcome]
    BY <1>5, NextIsMessage DEF SkipDuplicate, Settled, TypeOK, Outcome
  <2>3. QED
    BY <1>5, <2>1, <2>2 DEF SkipDuplicate, TypeOK
<1>6. ASSUME NEW p \in Partition, RouteExternalEvent(p) PROVE TypeOK'
  <2>1. position' \in [Partition -> Nat] /\ OffsetsOrdered'
    BY <1>6, AdvanceInRange DEF RouteExternalEvent, OffsetsOrdered
  <2>2. outcome' \in [Event -> SUBSET Outcome]
    BY <1>6, NextIsMessage DEF RouteExternalEvent, Settled, TypeOK, Outcome
  <2>3. routes' \in [Key -> Nat] /\ processed' \subseteq Key
    BY <1>6, NextIsMessage, EventNames DEF RouteExternalEvent, TypeOK
  <2>4. QED
    BY <1>6, <2>1, <2>2, <2>3 DEF RouteExternalEvent, TypeOK
<1>7. ASSUME NEW p \in Partition, Throws(p)
      PROVE  /\ failures' \in [Event -> Nat]
             /\ position' \in [Partition -> Nat]
             /\ Next1(p) \in Message /\ Next1(p).event \in Event
  <2>1. Pending(p) /\ Advance(p)
    BY <1>7 DEF Throws
  <2>2. failures' = [failures EXCEPT ![Next1(p).event] = @ + 1]
    BY <1>7 DEF Throws
  <2>3. Next1(p) \in Message /\ Next1(p).event \in Event
    BY <2>1, NextIsMessage
  <2>4. failures' \in [Event -> Nat]
    BY <2>2, <2>3 DEF TypeOK
  <2>5. QED
    BY <2>1, <2>3, <2>4, AdvanceInRange
<1>8. ASSUME NEW p \in Partition, SendToRetry(p) PROVE TypeOK'
  <2>1. Throws(p) /\ Pending(p) /\ Advance(p) /\ UNCHANGED group
    BY <1>8 DEF SendToRetry, Throws
  <2>2. [event |-> Next1(p).event, retryCount |-> Next1(p).retryCount + 1]
            \in Message
    BY <1>8, <2>1, NextIsMessage DEF SendToRetry, Message
  <2>3. log' \in [Partition -> Seq(Message)] /\ OffsetsOrdered'
    BY <1>7, <1>8, <2>1, <2>2, EventNames, AppendKeepsOrder DEF SendToRetry
  <2>4. QED
    BY <1>7, <1>8, <2>1, <2>3 DEF SendToRetry, Throws, TypeOK
<1>9. ASSUME NEW p \in Partition, SendToDeadLetter(p) PROVE TypeOK'
  <2>1. Throws(p) /\ Pending(p) /\ Advance(p)
    BY <1>9 DEF SendToDeadLetter, Throws
  <2>2. OffsetsOrdered'
    BY <1>9, <2>1, AdvanceInRange DEF SendToDeadLetter, Throws, OffsetsOrdered
  <2>3. dlq' \subseteq DeadLetter
    <3>1. dlq \subseteq DeadLetter
      BY DEF TypeOK
    <3>2. Next1(p).retryCount + 1 = MaxRetries + 1
      BY <1>9, <2>1, NextIsMessage DEF SendToDeadLetter
    <3>3. QED
      BY <1>9, <2>1, <3>1, <3>2, NextIsMessage DEF SendToDeadLetter, DeadLetter
  <2>4. outcome' \in [Event -> SUBSET Outcome]
    BY <1>7, <1>9, <2>1 DEF SendToDeadLetter, Settled, TypeOK, Outcome
  <2>5. QED
    BY <1>7, <1>9, <2>1, <2>2, <2>3, <2>4 DEF SendToDeadLetter, Throws, TypeOK
<1>10. ASSUME NEW p \in Partition, FailureSendRejected(p) PROVE TypeOK'
  <2>1. Throws(p) /\ Pending(p) /\ Advance(p)
    BY <1>10 DEF FailureSendRejected, Throws
  <2>2. OffsetsOrdered'
    BY <1>10, <2>1, AdvanceInRange
       DEF FailureSendRejected, Throws, OffsetsOrdered
  <2>3. outcome' \in [Event -> SUBSET Outcome]
    BY <1>7, <1>10, <2>1 DEF FailureSendRejected, Settled, TypeOK, Outcome
  <2>4. QED
    BY <1>7, <1>10, <2>1, <2>2, <2>3 DEF FailureSendRejected, Throws, TypeOK
<1>11. ASSUME NEW p \in Partition, CommitOffset(p) PROVE TypeOK'
  BY <1>11 DEF CommitOffset, TypeOK, OffsetsOrdered, history
<1>12. ASSUME NEW k \in Key, ExpireKey(k) PROVE TypeOK'
  BY <1>12 DEF ExpireKey, TypeOK, OffsetsOrdered
<1>13. CASE Restart
  <2>1. outcome' \in [Event -> SUBSET Outcome]
    BY <1>13 DEF Restart, TypeOK, Outcome
  <2>2. OffsetsOrdered'
    BY <1>13 DEF Restart, TypeOK, OffsetsOrdered
  <2>3. /\ outbox' = {} /\ processed' = {} /\ joined' = FALSE
        /\ forgets' = forgets + 1
        /\ UNCHANGED <<log, position, committed, fresh, dlq, announced, failures,
                       routes, duplicates>>
    BY <1>13 DEF Restart
  <2>4. /\ log' \in [Partition -> Seq(Message)]
        /\ position' \in [Partition -> Nat]
        /\ committed' \in [Partition -> Nat \union {None}]
        /\ fresh' \subseteq Partition /\ joined' \in BOOLEAN
    BY <2>3 DEF TypeOK
  <2>5. /\ dlq' \subseteq DeadLetter /\ announced' \subseteq Event
        /\ failures' \in [Event -> Nat] /\ routes' \in [Key -> Nat]
        /\ forgets' \in Nat /\ duplicates' \in Nat
    BY <2>3 DEF TypeOK
  <2>6. outbox' \subseteq announced' /\ processed' \subseteq Key
    BY <2>3
  <2>7. QED
    BY <2>1, <2>2, <2>4, <2>5, <2>6 DEF TypeOK
<1>14. CASE Join
  <2>1. outcome' \in [Event -> SUBSET Outcome]
    BY <1>14 DEF Join, TypeOK, Outcome
  <2>2. position' \in [Partition -> Nat] /\ OffsetsOrdered'
    BY <1>14, StartInRange DEF Join, OffsetsOrdered
  <2>3. QED
    BY <1>14, <2>1, <2>2 DEF Join, TypeOK
<1>15. CASE UNCHANGED vars
  BY <1>15 DEF vars, history, TypeOK, OffsetsOrdered
<1>16. QED
  BY <1>1, <1>2, <1>3, <1>4, <1>5, <1>6, <1>8, <1>9, <1>10, <1>11, <1>12,
     <1>13, <1>14, <1>15 DEF Next, Consume

\* Every reachable state is well typed, and a consumer has neither read nor
\* committed past what the broker holds.
THEOREM TypeCorrect == Spec => []TypeOK
<1>1. Init => TypeOK
  <2> SUFFICES ASSUME Init PROVE TypeOK
    OBVIOUS
  <2>1. committed \in [Partition -> Nat \union {None}]
    BY DEF Init
  <2>2. OffsetsOrdered
    BY DEF Init, OffsetsOrdered
  <2>3. /\ log \in [Partition -> Seq(Message)]
        /\ position \in [Partition -> Nat]
    BY DEF Init
  <2>4. /\ failures \in [Event -> Nat]
        /\ outcome \in [Event -> SUBSET Outcome]
        /\ routes \in [Key -> Nat]
    BY DEF Init
  <2>5. QED
    BY <2>1, <2>2, <2>3, <2>4 DEF Init, TypeOK
<1>2. QED
  BY <1>1, TypeStep, PTL DEF Spec

(***************************************************************************)
(* Dead letters.  The retry count travels in the message, the attempts are *)
(* a history: the invariant ties the two at every offset of every log.     *)
(***************************************************************************)

\* What a throwing attempt does to the counts: one more failure of its event,
\* whose message had no more retries than failures.
LEMMA ThrowCounts ==
    ASSUME TypeOK, DeadLettersExhausted, NEW p \in Partition, Throws(p)
    PROVE  /\ \A e \in Event : failures'[e] \in Nat /\ failures[e] =< failures'[e]
           /\ Next1(p).retryCount + 1 =< failures'[Next1(p).event]
<1>1. /\ Next1(p).event \in Event
      /\ Next1(p).retryCount \in 0 .. MaxRetries
      /\ position[p] + 1 \in 1 .. Len(log[p])
  BY NextIsMessage DEF Throws
<1>2. Next1(p).retryCount =< failures[Next1(p).event]
  BY <1>1 DEF DeadLettersExhausted, RetriesCounted, Next1
<1>3. failures' = [failures EXCEPT ![Next1(p).event] = @ + 1]
  BY DEF Throws
<1>4. QED
  BY <1>1, <1>2, <1>3, BoundAssumption DEF TypeOK

\* An appended message whose retry count is covered keeps every message covered.
LEMMA AppendKeepsCounts ==
    ASSUME TypeOK, TypeOK', RetriesCounted, NEW p \in Partition, NEW m \in Message,
           log' = [log EXCEPT ![p] = Append(@, m)],
           \A e \in Event : failures[e] =< failures'[e],
           m.retryCount =< failures'[m.event]
    PROVE  RetriesCounted'
<1> SUFFICES ASSUME NEW q \in Partition, NEW i \in 1 .. Len(log'[q])
             PROVE  log'[q][i].retryCount =< failures'[log'[q][i].event]
  BY DEF RetriesCounted
<1>1. CASE i \in 1 .. Len(log[q])
  <2>1. log'[q][i] = log[q][i]
    BY <1>1, AppendKeepsOffsets DEF TypeOK
  <2>2. log[q] \in Seq(Message)
    BY DEF TypeOK
  <2>3. log[q][i] \in Message
    BY <1>1, <2>2
  <2>4. /\ log[q][i].event \in Event
        /\ log[q][i].retryCount \in Nat
        /\ log[q][i].retryCount =< failures[log[q][i].event]
    BY <1>1, <2>3, BoundAssumption DEF RetriesCounted, Message
  <2>5. failures[log[q][i].event] \in Nat /\ failures'[log[q][i].event] \in Nat
    BY <2>4 DEF TypeOK
  <2>6. QED
    BY <2>1, <2>4, <2>5
<1>2. CASE i \notin 1 .. Len(log[q])
  <2>1. q = p /\ i = Len(log[p]) + 1
    BY <1>2, AppendKeepsOffsets DEF TypeOK
  <2>2. log'[q][i] = m
    BY <2>1, AppendKeepsOffsets DEF TypeOK
  <2>3. QED
    BY <2>2
<1>3. QED
  BY <1>1, <1>2

\* With the log unchanged, failures only grow: every message stays covered.
LEMMA FailuresKeepCounts ==
    ASSUME TypeOK, TypeOK', DeadLettersExhausted, UNCHANGED log,
           \A e \in Event : failures[e] =< failures'[e]
    PROVE  RetriesCounted' /\ \A m \in dlq : failures'[m.event] > MaxRetries
<1>1. \A e \in Event : failures[e] \in Nat /\ failures'[e] \in Nat
  BY DEF TypeOK
<1>2. \A p \in Partition : \A i \in 1 .. Len(log[p]) :
          log[p][i].event \in Event /\ log[p][i].retryCount \in Nat
  <2> TAKE p \in Partition
  <2> TAKE i \in 1 .. Len(log[p])
  <2>1. log[p] \in Seq(Message)
    BY DEF TypeOK
  <2>2. log[p][i] \in Message
    BY <2>1
  <2>3. QED
    BY <2>2, BoundAssumption DEF Message
<1>3. RetriesCounted'
  BY <1>1, <1>2 DEF DeadLettersExhausted, RetriesCounted
<1>4. \A m \in dlq : m.event \in Event
  BY DEF TypeOK, DeadLetter
<1>5. QED
  BY <1>1, <1>3, <1>4, BoundAssumption DEF DeadLettersExhausted

\* DeadLettersExhausted is inductive over typed states.
LEMMA DeadLetterStep ==
    TypeOK /\ TypeOK' /\ DeadLettersExhausted /\ [Next]_vars
        => DeadLettersExhausted'
<1> SUFFICES ASSUME TypeOK, TypeOK', DeadLettersExhausted, [Next]_vars
             PROVE  DeadLettersExhausted'
  OBVIOUS
<1> USE BoundAssumption
<1>1. ASSUME UNCHANGED <<log, dlq, failures>> PROVE DeadLettersExhausted'
  BY <1>1 DEF DeadLettersExhausted, RetriesCounted
<1>2. ASSUME NEW e \in Event,
             log' = [log EXCEPT ![MainPartition(e)] =
                        Append(@, [event |-> e, retryCount |-> 0])],
             UNCHANGED <<dlq, failures>>
      PROVE  DeadLettersExhausted'
  <2> DEFINE m == [event |-> e, retryCount |-> 0]
  <2>1. m \in Message /\ m.event = e /\ m.retryCount = 0
    BY DEF Message
  <2>2. \A x \in Event : failures[x] \in Nat /\ failures[x] =< failures'[x]
    BY <1>2 DEF TypeOK
  <2>3. RetriesCounted'
    <3>1. log' = [log EXCEPT ![MainPartition(e)] = Append(@, m)]
      BY <1>2
    <3>2. m.retryCount =< failures'[m.event]
      BY <1>2, <2>1, <2>2
    <3> HIDE DEF m
    <3>3. QED
      BY <2>1, <2>2, <3>1, <3>2, EventNames, AppendKeepsCounts
         DEF DeadLettersExhausted
  <2>4. QED
    BY <1>2, <2>3 DEF DeadLettersExhausted
<1>3. ASSUME NEW p \in Partition, SendToRetry(p) PROVE DeadLettersExhausted'
  <2> DEFINE m == [event |-> Next1(p).event,
                   retryCount |-> Next1(p).retryCount + 1]
  <2>1. Throws(p) /\ UNCHANGED dlq
    BY <1>3 DEF SendToRetry
  <2>2. m \in Message /\ Next1(p).event \in Event
    BY <1>3, <2>1, NextIsMessage DEF SendToRetry, Throws, Message
  <2>3. log' = [log EXCEPT ![RetryPartition(Next1(p).event)] = Append(@, m)]
    BY <1>3 DEF SendToRetry
  <2>4. m.retryCount =< failures'[m.event]
    BY <2>1, ThrowCounts
  <2> HIDE DEF m
  <2>5. RetriesCounted'
    BY <2>1, <2>2, <2>3, <2>4, ThrowCounts, EventNames, AppendKeepsCounts
       DEF DeadLettersExhausted
  <2>6. \A d \in dlq' : failures'[d.event] > MaxRetries
    <3>1. \A d \in dlq : d.event \in Event /\ failures[d.event] > MaxRetries
      BY DEF TypeOK, DeadLetter, DeadLettersExhausted
    <3>2. \A e \in Event : failures[e] \in Nat
      BY DEF TypeOK
    <3>3. QED
      BY <2>1, <3>1, <3>2, ThrowCounts
  <2>7. QED
    BY <2>5, <2>6 DEF DeadLettersExhausted
<1>4. ASSUME NEW p \in Partition, SendToDeadLetter(p) PROVE DeadLettersExhausted'
  <2>1. Throws(p) /\ UNCHANGED log
    BY <1>4 DEF SendToDeadLetter
  <2>2. RetriesCounted' /\ \A d \in dlq : failures'[d.event] > MaxRetries
    BY <2>1, ThrowCounts, FailuresKeepCounts
  <2>3. failures'[Next1(p).event] > MaxRetries
    <3>1. Next1(p).retryCount \in Nat /\ Next1(p).retryCount >= MaxRetries
      BY <1>4, <2>1, NextIsMessage DEF SendToDeadLetter, Throws
    <3>2. Next1(p).event \in Event
      BY <2>1, NextIsMessage DEF Throws
    <3>3. QED
      BY <2>1, <3>1, <3>2, ThrowCounts
  <2>4. dlq' = dlq \union {[event |-> Next1(p).event,
                            retryCount |-> Next1(p).retryCount + 1]}
    BY <1>4 DEF SendToDeadLetter
  <2>5. QED
    BY <2>2, <2>3, <2>4 DEF DeadLettersExhausted
<1>5. ASSUME NEW p \in Partition, FailureSendRejected(p)
      PROVE  DeadLettersExhausted'
  <2>1. Throws(p) /\ UNCHANGED <<log, dlq>>
    BY <1>5 DEF FailureSendRejected
  <2>2. QED
    BY <2>1, ThrowCounts, FailuresKeepCounts DEF DeadLettersExhausted
<1>6. QED
  <2>1. ASSUME NEW e \in Event, Publish(e) \/ SendMessage(e) \/ SendRepeated(e)
        PROVE  DeadLettersExhausted'
    BY <1>1, <1>2, <2>1 DEF Publish, SendMessage, SendRepeated, history
  <2>2. ASSUME NEW p \in Partition, Consume(p) \/ CommitOffset(p)
        PROVE  DeadLettersExhausted'
    BY <1>1, <1>3, <1>4, <1>5, <2>2 DEF Consume, IgnoreUntrusted, SkipDuplicate,
       RouteExternalEvent, CommitOffset, history
  <2>3. ASSUME NEW k \in Key, ExpireKey(k) PROVE DeadLettersExhausted'
    BY <1>1, <2>3 DEF ExpireKey
  <2>4. CASE Restart \/ Join
    BY <1>1, <2>4 DEF Restart, Join
  <2>5. CASE UNCHANGED vars
    BY <1>1, <2>5 DEF vars, history
  <2>6. QED
    BY <2>1, <2>2, <2>3, <2>4, <2>5 DEF Next

\* No event reaches a dead-letter topic before 1 + maxRetries attempts on it
\* failed, whatever restarts, duplicates and retries interleave.
THEOREM DeadLettersSafe == Spec => []DeadLettersExhausted
<1>1. Init => DeadLettersExhausted
  BY DEF Init, DeadLettersExhausted, RetriesCounted
<1>2. QED
  BY <1>1, DeadLetterStep, TypeCorrect, PTL DEF Spec

(***************************************************************************)
(* Idempotency.                                                            *)
(***************************************************************************)

\* A key is in the map only because an event with it was routed; a skipped
\* event met such a key, and no route is ever taken back.
SkipInv ==
    /\ \A k \in processed : routes[k] > 0
    /\ SkipJustified

\* SkipInv is inductive over typed states.
LEMMA SkipStep == TypeOK /\ SkipInv /\ [Next]_vars => SkipInv'
<1> SUFFICES ASSUME TypeOK, SkipInv, [Next]_vars PROVE SkipInv'
  OBVIOUS
<1> USE EventNames
<1>1. ASSUME UNCHANGED routes, processed' \subseteq processed,
             \A e \in Event : "skipped" \in outcome'[e] => "skipped" \in outcome[e]
      PROVE  SkipInv'
  BY <1>1 DEF SkipInv, SkipJustified
<1>2. ASSUME NEW p \in Partition, SkipDuplicate(p) PROVE SkipInv'
  <2>1. Next1(p).event \in Event
    BY <1>2, NextIsMessage DEF SkipDuplicate
  <2>2. routes[IdempotencyKey(Next1(p).event)] > 0
    BY <1>2 DEF SkipDuplicate, SkipInv
  <2>3. QED
    BY <1>2, <2>1, <2>2
       DEF SkipDuplicate, SkipInv, SkipJustified, Settled, TypeOK
<1>3. ASSUME NEW p \in Partition, RouteExternalEvent(p) PROVE SkipInv'
  <2> DEFINE k == IdempotencyKey(Next1(p).event)
  <2>1. Next1(p).event \in Event /\ k \in Key
    BY <1>3, NextIsMessage DEF RouteExternalEvent
  <2>2. routes' = [routes EXCEPT ![k] = @ + 1] /\ processed' = processed \union {k}
    BY <1>3 DEF RouteExternalEvent
  <2>3. outcome' = [outcome EXCEPT ![Next1(p).event] = @ \union {"routed"}]
    BY <1>3 DEF RouteExternalEvent, Settled
  <2> HIDE DEF k
  <2>4. \A j \in Key : /\ routes[j] \in Nat /\ routes'[j] \in Nat
                        /\ routes'[j] >= routes[j]
    BY <2>1, <2>2 DEF TypeOK
  <2>5. routes'[k] > 0
    BY <2>1, <2>2 DEF TypeOK
  <2>6. \A j \in processed' : routes'[j] > 0
    BY <2>2, <2>4, <2>5 DEF TypeOK, SkipInv
  <2>7. \A e \in Event : "skipped" \in outcome'[e] => "skipped" \in outcome[e]
    BY <2>1, <2>3 DEF TypeOK
  <2>8. SkipJustified'
    BY <2>4, <2>7 DEF SkipInv, SkipJustified
  <2>9. QED
    BY <2>6, <2>8 DEF SkipInv
<1>4. ASSUME NEW p \in Partition, Throws(p)
      PROVE  UNCHANGED <<routes, processed>> /\ Next1(p).event \in Event
  BY <1>4, NextIsMessage DEF Throws
<1>5. ASSUME NEW p \in Partition, Consume(p) PROVE SkipInv'
  <2>1. CASE IgnoreUntrusted(p)
    <3>1. Next1(p).event \in Event
      BY <2>1, NextIsMessage DEF IgnoreUntrusted
    <3>2. QED
      BY <1>1, <2>1, <3>1 DEF IgnoreUntrusted, Settled, TypeOK
  <2>2. CASE SendToRetry(p)
    BY <1>1, <1>4, <2>2 DEF SendToRetry
  <2>3. CASE SendToDeadLetter(p)
    BY <1>1, <1>4, <2>3 DEF SendToDeadLetter, Settled, TypeOK
  <2>4. CASE FailureSendRejected(p)
    BY <1>1, <1>4, <2>4 DEF FailureSendRejected, Settled, TypeOK
  <2>5. QED
    BY <1>2, <1>3, <1>5, <2>1, <2>2, <2>3, <2>4 DEF Consume
<1>6. CASE Restart \/ Join
  BY <1>1, <1>6 DEF Restart, Join
<1>7. ASSUME NEW e \in Event, Publish(e) \/ SendMessage(e) \/ SendRepeated(e)
      PROVE  SkipInv'
  BY <1>1, <1>7 DEF Publish, SendMessage, SendRepeated, history
<1>8. ASSUME NEW k \in Key, ExpireKey(k) PROVE SkipInv'
  BY <1>1, <1>8 DEF ExpireKey
<1>9. ASSUME NEW p \in Partition, CommitOffset(p) PROVE SkipInv'
  BY <1>1, <1>9 DEF CommitOffset, history
<1>10. CASE UNCHANGED vars
  BY <1>1, <1>10 DEF vars, history
<1>11. QED
  BY <1>5, <1>6, <1>7, <1>8, <1>9, <1>10 DEF Next

\* An event is only ever skipped when an event with its key was routed.
THEOREM SkipsJustified == Spec => []SkipJustified
<1>1. Init => SkipInv
  BY DEF Init, SkipInv, SkipJustified
<1>2. SkipInv => SkipJustified
  BY DEF SkipInv
<1>3. QED
  BY <1>1, <1>2, SkipStep, TypeCorrect, PTL DEF Spec

\* Each route of a key takes one credit: the key is new to the map, or a
\* restart or an expiry, counted by forgets, had removed it.
LEMMA RoutedOnceStep ==
    TypeOK /\ KeyRoutedOncePerMemory /\ [Next]_vars => KeyRoutedOncePerMemory'
<1> SUFFICES ASSUME TypeOK, KeyRoutedOncePerMemory, [Next]_vars
             PROVE  KeyRoutedOncePerMemory'
  OBVIOUS
<1>1. ASSUME UNCHANGED <<routes, processed, forgets>>
      PROVE  KeyRoutedOncePerMemory'
  BY <1>1 DEF KeyRoutedOncePerMemory
<1>2. ASSUME UNCHANGED routes, forgets' = forgets + 1
      PROVE  KeyRoutedOncePerMemory'
  <2>1. forgets \in Nat /\ \A k \in Key : routes[k] \in Nat
    BY DEF TypeOK
  <2>2. \A k \in Key : routes[k] =< forgets + 1
    BY <2>1 DEF KeyRoutedOncePerMemory
  <2>3. QED
    BY <1>2, <2>1, <2>2 DEF KeyRoutedOncePerMemory
<1>3. ASSUME NEW p \in Partition, RouteExternalEvent(p)
      PROVE  KeyRoutedOncePerMemory'
  <2> DEFINE k == IdempotencyKey(Next1(p).event)
  <2>1. k \in Key
    BY <1>3, NextIsMessage, EventNames DEF RouteExternalEvent
  <2>2. /\ k \notin processed
        /\ routes' = [routes EXCEPT ![k] = @ + 1]
        /\ processed' = processed \union {k}
        /\ UNCHANGED forgets
    BY <1>3 DEF RouteExternalEvent
  <2> HIDE DEF k
  <2>3. routes[k] =< forgets
    BY <2>1, <2>2 DEF KeyRoutedOncePerMemory, TypeOK
  <2>4. QED
    BY <2>1, <2>2, <2>3 DEF KeyRoutedOncePerMemory, TypeOK
<1>4. ASSUME NEW p \in Partition, Consume(p) PROVE KeyRoutedOncePerMemory'
  BY <1>1, <1>3, <1>4 DEF Consume, IgnoreUntrusted, SkipDuplicate, SendToRetry,
     SendToDeadLetter, FailureSendRejected, Throws
<1>5. CASE Restart
  BY <1>2, <1>5 DEF Restart
<1>6. ASSUME NEW k \in Key, ExpireKey(k) PROVE KeyRoutedOncePerMemory'
  BY <1>2, <1>6 DEF ExpireKey
<1>7. ASSUME NEW e \in Event, Publish(e) \/ SendMessage(e) \/ SendRepeated(e)
      PROVE  KeyRoutedOncePerMemory'
  BY <1>1, <1>7 DEF Publish, SendMessage, SendRepeated, history
<1>8. ASSUME NEW p \in Partition, CommitOffset(p) PROVE KeyRoutedOncePerMemory'
  BY <1>1, <1>8 DEF CommitOffset, history
<1>9. CASE Join \/ UNCHANGED vars
  BY <1>1, <1>9 DEF Join, vars, history
<1>10. QED
  BY <1>4, <1>5, <1>6, <1>7, <1>8, <1>9 DEF Next

\* However often the broker delivers, a key reaches the EventBus at most once
\* plus once per restart or expiry.
THEOREM RoutedOnce == Spec => []KeyRoutedOncePerMemory
<1>1. Init => KeyRoutedOncePerMemory
  BY DEF Init, KeyRoutedOncePerMemory
<1>2. QED
  BY <1>1, RoutedOnceStep, TypeCorrect, PTL DEF Spec

(***************************************************************************)
(* No silent loss, and the refinement of EventDelivery.                    *)
(***************************************************************************)

\* What a step may do to a log: leave it, or append to it.
LogGrows ==
    /\ log' \in [Partition -> Seq(Message)]
    /\ \A q \in Partition :
          /\ Len(log'[q]) >= Len(log[q])
          /\ \A i \in 1 .. Len(log[q]) : log'[q][i] = log[q][i]

\* An appended message is there to be read, and the log only grew.
LEMMA AppendIsUnread ==
    ASSUME TypeOK, TypeOK', NEW p \in Partition, NEW m \in Message,
           log' = [log EXCEPT ![p] = Append(@, m)],
           \A q \in Partition : position'[q] =< Len(log[q])
    PROVE  LogGrows /\ InSomeLog(m.event)'
<1>1. LogGrows
  <2>1. \A q \in Partition : Len(log[q]) \in Nat
    BY DEF TypeOK
  <2>2. QED
    BY <2>1, AppendKeepsOffsets DEF LogGrows, TypeOK
<1>2. /\ Len(log'[p]) = Len(log[p]) + 1
      /\ log'[p][Len(log[p]) + 1] = m
  BY AppendKeepsOffsets DEF TypeOK
<1>3. Len(log[p]) \in Nat /\ position'[p] \in Nat
  BY DEF TypeOK
<1>4. PICK n \in Nat : n = Len(log[p]) + 1
  BY <1>3
<1>5. n \in 1 .. Len(log'[p]) /\ n \in position'[p] + 1 .. Len(log'[p])
  BY <1>2, <1>3, <1>4
<1>6. InLog(m.event, p, n)'
  BY <1>2, <1>4, <1>5 DEF InLog
<1>7. QED
  BY <1>1, <1>5, <1>6 DEF InSomeLog

\* An unread message stays unread while the log only grows and positions do
\* not move forward.
LEMMA UnreadStays ==
    ASSUME TypeOK, TypeOK', LogGrows, NEW e, InSomeLog(e),
           \A q \in Partition : position'[q] =< position[q]
    PROVE  InSomeLog(e)'
<1>0. PICK q \in Partition : \E i \in 1 .. Len(log[q]) : InLog(e, q, i)
  BY DEF InSomeLog
<1>1. PICK i \in 1 .. Len(log[q]) : InLog(e, q, i)
  BY <1>0
<1>2. /\ position[q] \in Nat /\ position'[q] \in Nat
      /\ Len(log[q]) \in Nat /\ Len(log'[q]) \in Nat
  BY DEF TypeOK
<1>3. i \in 1 .. Len(log'[q]) /\ log'[q][i] = log[q][i]
  BY <1>2 DEF LogGrows
<1>4. InLog(e, q, i)'
  BY <1>1, <1>2, <1>3 DEF InLog
<1>5. QED
  BY <1>3, <1>4 DEF InSomeLog

\* Reading a message of p leaves every other unread message unread.
LEMMA OthersStayUnread ==
    ASSUME TypeOK, TypeOK', LogGrows, NEW e, InSomeLog(e),
           NEW p \in Partition, Pending(p), Advance(p), e # Next1(p).event
    PROVE  InSomeLog(e)'
<1>0. PICK q \in Partition : \E i \in 1 .. Len(log[q]) : InLog(e, q, i)
  BY DEF InSomeLog
<1>1. PICK i \in 1 .. Len(log[q]) : InLog(e, q, i)
  BY <1>0
<1>2. /\ position[q] \in Nat /\ position'[q] \in Nat
      /\ Len(log[q]) \in Nat /\ Len(log'[q]) \in Nat
  BY DEF TypeOK
<1>3. i \in 1 .. Len(log'[q]) /\ log'[q][i] = log[q][i]
  BY <1>2 DEF LogGrows
<1>4. position'[q] + 1 =< i
  <2>1. position' = [position EXCEPT ![p] = @ + 1]
    BY DEF Advance
  <2>2. CASE q = p
    <3>1. i # position[p] + 1
      BY <1>1, <2>2 DEF InLog, Next1
    <3>2. position'[q] = position[q] + 1
      BY <2>1, <2>2 DEF TypeOK
    <3>3. QED
      BY <1>1, <1>2, <2>2, <3>1, <3>2 DEF InLog
  <2>3. CASE q # p
    BY <1>1, <1>2, <2>1, <2>3 DEF InLog, TypeOK
  <2>4. QED
    BY <2>2, <2>3
<1>5. InLog(e, q, i)'
  BY <1>1, <1>2, <1>3, <1>4 DEF InLog
<1>6. QED
  BY <1>3, <1>5 DEF InSomeLog

\* What is in a log was announced, and is in one of the two logs of its event.
LogAnnounced ==
    \A p \in Partition : \A i \in 1 .. Len(log[p]) :
        /\ log[p][i].event \in announced
        /\ p \in {MainPartition(log[p][i].event), RetryPartition(log[p][i].event)}

LEMMA AppendKeepsAnnounced ==
    ASSUME TypeOK, LogAnnounced, NEW p \in Partition, NEW m \in Message,
           log' = [log EXCEPT ![p] = Append(@, m)],
           m.event \in announced, UNCHANGED announced,
           p \in {MainPartition(m.event), RetryPartition(m.event)}
    PROVE  LogAnnounced'
<1> SUFFICES ASSUME NEW q \in Partition, NEW i \in 1 .. Len(log'[q])
             PROVE  /\ log'[q][i].event \in announced
                    /\ q \in {MainPartition(log'[q][i].event),
                              RetryPartition(log'[q][i].event)}
  BY DEF LogAnnounced
<1>1. CASE i \in 1 .. Len(log[q])
  BY <1>1, AppendKeepsOffsets DEF LogAnnounced, TypeOK
<1>2. CASE i \notin 1 .. Len(log[q])
  <2>1. log[q] \in Seq(Message) /\ Len(log[q]) \in Nat
    BY DEF TypeOK
  <2>2. q = p /\ log'[q] = Append(log[q], m)
    BY <1>2, <2>1 DEF TypeOK
  <2>3. i = Len(log[q]) + 1
    BY <1>2, <2>1, <2>2
  <2>4. QED
    BY <2>1, <2>2, <2>3
<1>3. QED
  BY <1>1, <1>2

\* The event of the next message was announced.
LEMMA NextAnnounced ==
    ASSUME TypeOK, LogAnnounced, NEW p \in Partition, Pending(p)
    PROVE  Next1(p).event \in announced
<1>1. position[p] + 1 \in 1 .. Len(log[p])
  BY NextIsMessage
<1>2. QED
  BY <1>1 DEF LogAnnounced, Next1

LEMMA LogAnnouncedStep ==
    TypeOK /\ LogAnnounced /\ [Next]_vars => LogAnnounced'
<1> SUFFICES ASSUME TypeOK, LogAnnounced, [Next]_vars PROVE LogAnnounced'
  OBVIOUS
<1>1. ASSUME UNCHANGED log, announced \subseteq announced' PROVE LogAnnounced'
  BY <1>1 DEF LogAnnounced
<1>2. ASSUME NEW e \in Event, SendMessage(e) \/ SendRepeated(e)
      PROVE  LogAnnounced'
  <2>0. [event |-> e, retryCount |-> 0] \in Message
    BY BoundAssumption DEF Message
  <2>1. PICK m \in Message : m = [event |-> e, retryCount |-> 0]
    BY <2>0
  <2>2. log' = [log EXCEPT ![MainPartition(e)] = Append(@, m)]
    BY <1>2, <2>1 DEF SendMessage, SendRepeated
  <2>3. m.event \in announced /\ UNCHANGED announced
    BY <1>2, <2>1 DEF SendMessage, SendRepeated, TypeOK, history
  <2>4. MainPartition(e) \in {MainPartition(m.event), RetryPartition(m.event)}
    BY <2>1
  <2>5. QED
    BY <2>2, <2>3, <2>4, EventNames, AppendKeepsAnnounced
<1>3. ASSUME NEW p \in Partition, SendToRetry(p) PROVE LogAnnounced'
  <2>1. Pending(p) /\ UNCHANGED announced
    BY <1>3 DEF SendToRetry, Throws
  <2>2. Next1(p).event \in announced /\ Next1(p).event \in Event
    BY <2>1, NextAnnounced, NextIsMessage
  <2>3. Next1(p).retryCount + 1 \in 0 .. MaxRetries
    BY <1>3, <2>1, NextIsMessage, BoundAssumption DEF SendToRetry
  <2>4. PICK m \in Message : m = [event |-> Next1(p).event,
                                 retryCount |-> Next1(p).retryCount + 1]
    BY <2>2, <2>3 DEF Message
  <2>5. log' = [log EXCEPT ![RetryPartition(Next1(p).event)] = Append(@, m)]
    BY <1>3, <2>4 DEF SendToRetry
  <2>6. PICK e \in Event : e = Next1(p).event
    BY <2>2
  <2>7. QED
    BY <2>1, <2>2, <2>4, <2>5, <2>6, EventNames, AppendKeepsAnnounced
<1>4. ASSUME NEW p \in Partition, Consume(p) PROVE LogAnnounced'
  BY <1>1, <1>3, <1>4
     DEF Consume, IgnoreUntrusted, SkipDuplicate, RouteExternalEvent,
         SendToDeadLetter, FailureSendRejected, Throws
<1>5. QED
  BY <1>1, <1>2, <1>4
     DEF Next, Publish, CommitOffset, ExpireKey, Join, Restart, vars, history

\* A partition without a committed offset never had one.
NoneIsFresh == \A p \in Partition : committed[p] = None => p \in fresh

LEMMA NoneIsFreshStep ==
    TypeOK /\ NoneIsFresh /\ [Next]_vars => NoneIsFresh'
<1> SUFFICES ASSUME TypeOK, NoneIsFresh, [Next]_vars PROVE NoneIsFresh'
  OBVIOUS
<1>1. ASSUME UNCHANGED <<committed, fresh>> PROVE NoneIsFresh'
  BY <1>1 DEF NoneIsFresh
<1>2. ASSUME NEW p \in Partition, CommitOffset(p) PROVE NoneIsFresh'
  <2>1. position[p] # None
    BY NoneAssumption DEF TypeOK
  <2>2. QED
    BY <1>2, <2>1 DEF CommitOffset, NoneIsFresh, TypeOK
<1>3. QED
  BY <1>1, <1>2
     DEF Next, Publish, SendMessage, SendRepeated, Consume, IgnoreUntrusted,
         SkipDuplicate, RouteExternalEvent, SendToRetry, SendToDeadLetter,
         FailureSendRejected, Throws, ExpireKey, Join, Restart, vars

\* A joining consumer passes a message over only in a partition without a
\* committed offset.
LEMMA PassedOverMissable ==
    ASSUME TypeOK, LogAnnounced, NoneIsFresh, NEW e \in Event, PassedOver(e)
    PROVE  e \in announced /\ e \in Missable
<1>1. PICK p \in Partition : \E i \in 1 .. StartOffset(p) : InLog(e, p, i)
  BY DEF PassedOver
<1>2. PICK i \in 1 .. StartOffset(p) : InLog(e, p, i)
  BY <1>1
<1>3. /\ committed[p] \in Nat \union {None} /\ position[p] \in Nat
      /\ Len(log[p]) \in Nat /\ StartOffset(p) \in Nat
  BY StartInRange DEF TypeOK
<1>4. i \in 1 .. Len(log[p]) /\ i > position[p] /\ log[p][i].event = e
  BY <1>2, <1>3 DEF InLog
<1>5. committed[p] = None
  <2>1. SUFFICES ASSUME committed[p] # None PROVE FALSE
    OBVIOUS
  <2>2. i =< committed[p] /\ committed[p] =< position[p] /\ committed[p] \in Nat
    BY <1>2, <1>3, <2>1, StartInRange DEF TypeOK, OffsetsOrdered
  <2>3. QED
    BY <1>3, <1>4, <2>2
<1>6. p \in fresh
  BY <1>5 DEF NoneIsFresh
<1>7. QED
  BY <1>4, <1>6 DEF LogAnnounced, Missable

\* An outcome is never taken back.
LEMMA OutcomesStay ==
    ASSUME TypeOK, NEW e \in Event, NEW o, Settled(e, o), o # "missed",
           UNCHANGED fresh
    PROVE  /\ Accounted(e)'
           /\ \A x \in Event : Accounted(x) => Accounted(x)'
<1>1. /\ outcome'[e] = outcome[e] \union {o}
      /\ \A x \in Event : x # e => outcome'[x] = outcome[x]
  BY DEF Settled, TypeOK
<1>2. outcome'[e] \ {"missed"} # {}
  BY <1>1
<1>3. QED
  BY <1>1, <1>2 DEF Accounted, Missable

\* NoSilentLoss is inductive over typed states.
LEMMA NoSilentLossStep ==
    TypeOK /\ TypeOK' /\ LogAnnounced /\ NoneIsFresh /\ NoSilentLoss
        /\ [Next]_vars => NoSilentLoss'
<1> SUFFICES ASSUME TypeOK, TypeOK', LogAnnounced, NoneIsFresh, NoSilentLoss,
                    [Next]_vars
             PROVE  NoSilentLoss'
  OBVIOUS
<1>1. ASSUME UNCHANGED log PROVE LogGrows
  <2>1. \A q \in Partition : Len(log[q]) \in Nat
    BY DEF TypeOK
  <2>2. QED
    BY <1>1, <2>1 DEF LogGrows, TypeOK
<1>2. ASSUME UNCHANGED <<log, position, outbox, outcome, fresh>>,
             announced' \subseteq announced
      PROVE  NoSilentLoss'
  BY <1>2 DEF NoSilentLoss, Accounted, Missable, InSomeLog, InLog
<1>3. ASSUME NEW e \in Event, Publish(e) PROVE NoSilentLoss'
  BY <1>3 DEF Publish, NoSilentLoss, Accounted, Missable, InSomeLog, InLog
<1>4. ASSUME NEW e \in Event,
             log' = [log EXCEPT ![MainPartition(e)] =
                        Append(@, [event |-> e, retryCount |-> 0])],
             outbox \ {e} \subseteq outbox',
             UNCHANGED <<position, announced, outcome, fresh>>
      PROVE  NoSilentLoss'
  <2> DEFINE m == [event |-> e, retryCount |-> 0]
  <2>1. m \in Message /\ m.event = e
    BY BoundAssumption DEF Message
  <2>2. log' = [log EXCEPT ![MainPartition(e)] = Append(@, m)]
    BY <1>4
  <2> HIDE DEF m
  <2>3. \A q \in Partition : position'[q] =< Len(log[q])
    BY <1>4 DEF TypeOK, OffsetsOrdered
  <2>4. LogGrows /\ InSomeLog(e)'
    BY <2>1, <2>2, <2>3, EventNames, AppendIsUnread
  <2>5. \A q \in Partition : position'[q] =< position[q]
    BY <1>4 DEF TypeOK
  <2>6. ASSUME NEW x \in announced', ~Accounted(x)', x \notin outbox', x # e
        PROVE  InSomeLog(x)'
    <3>1. InSomeLog(x)
      BY <1>4, <2>6 DEF NoSilentLoss, Accounted, Missable
    <3>2. QED
      BY <2>4, <2>5, <3>1, UnreadStays
  <2>7. QED
    BY <2>4, <2>6 DEF NoSilentLoss
<1>5. ASSUME NEW p \in Partition, Pending(p), Advance(p), LogGrows,
             UNCHANGED <<outbox, announced>>,
             \A x \in Event : Accounted(x) => Accounted(x)',
             NEW e \in Event, e = Next1(p).event,
             Accounted(e)' \/ InSomeLog(e)'
      PROVE  NoSilentLoss'
  <2> SUFFICES ASSUME NEW x \in announced', ~Accounted(x)', x \notin outbox',
                      x # e
               PROVE  InSomeLog(x)'
    BY <1>5 DEF NoSilentLoss
  <2>1. InSomeLog(x)
    BY <1>5 DEF NoSilentLoss, TypeOK
  <2>2. QED
    BY <1>5, <2>1, OthersStayUnread
<1>6. ASSUME NEW p \in Partition, Consume(p) PROVE NoSilentLoss'
  <2>1. CASE IgnoreUntrusted(p)
    BY <1>1, <1>5, <2>1, NextIsMessage, OutcomesStay DEF IgnoreUntrusted
  <2>2. CASE SkipDuplicate(p)
    BY <1>1, <1>5, <2>2, NextIsMessage, OutcomesStay DEF SkipDuplicate
  <2>3. CASE RouteExternalEvent(p)
    BY <1>1, <1>5, <2>3, NextIsMessage, OutcomesStay DEF RouteExternalEvent
  <2>4. ASSUME Throws(p)
        PROVE  /\ Pending(p) /\ Advance(p)
               /\ UNCHANGED <<outbox, announced, fresh>>
               /\ Next1(p).event \in Event
    BY <2>4, NextIsMessage DEF Throws
  <2>5. CASE SendToRetry(p)
    <3>1. Throws(p) /\ UNCHANGED outcome
      BY <2>5 DEF SendToRetry
    <3>2. PICK e \in Event : e = Next1(p).event
      BY <2>4, <3>1
    <3>3. PICK m \in Message : m = [event |-> Next1(p).event,
                                   retryCount |-> Next1(p).retryCount + 1]
      <4>1. Next1(p).retryCount + 1 \in 0 .. MaxRetries
        BY <2>4, <2>5, <3>1, NextIsMessage, BoundAssumption DEF SendToRetry, Message
      <4>2. QED
        BY <3>2, <4>1 DEF Message
    <3>4. log' = [log EXCEPT ![RetryPartition(e)] = Append(@, m)]
      BY <2>5, <3>2, <3>3 DEF SendToRetry
    <3>5. \A q \in Partition : position'[q] =< Len(log[q])
      BY <2>4, <3>1, AdvanceInRange
    <3>6. LogGrows /\ InSomeLog(m.event)'
      BY <3>4, <3>5, EventNames, AppendIsUnread
    <3>7. m.event = e
      BY <3>2, <3>3
    <3>8. InSomeLog(e)'
      BY <3>6, <3>7
    <3>9. \A x \in Event : Accounted(x) => Accounted(x)'
      BY <2>4, <3>1 DEF Accounted, Missable
    <3>10. QED
      BY <1>5, <2>4, <3>1, <3>2, <3>6, <3>8, <3>9
  <2>6. CASE SendToDeadLetter(p)
    BY <1>1, <1>5, <2>4, <2>6, OutcomesStay DEF SendToDeadLetter
  <2>7. CASE FailureSendRejected(p)
    BY <1>1, <1>5, <2>4, <2>7, OutcomesStay DEF FailureSendRejected
  <2>8. QED
    BY <1>6, <2>1, <2>2, <2>3, <2>5, <2>6, <2>7 DEF Consume
<1>7. CASE Restart
  <2>1. UNCHANGED <<log, position>>
    BY <1>7 DEF Restart
  <2>2. ASSUME NEW x \in announced', ~Accounted(x)' PROVE InSomeLog(x)'
    <3>1. x \in Event /\ x \in announced
      BY <1>7, <2>2 DEF Restart, TypeOK
    <3>2. ~Accounted(x) /\ x \notin outbox
      <4>1. outcome'[x] = IF x \in outbox THEN outcome[x] \union {"lost"}
                                          ELSE outcome[x]
        BY <1>7, <3>1 DEF Restart
      <4>2. UNCHANGED fresh
        BY <1>7 DEF Restart
      <4>3. x \notin outbox
        <5>1. SUFFICES ASSUME x \in outbox PROVE outcome'[x] \ {"missed"} # {}
          BY <2>2 DEF Accounted
        <5>2. "lost" \in outcome'[x]
          BY <4>1, <5>1
        <5>3. QED
          BY <5>2
      <4>4. QED
        BY <2>2, <4>1, <4>2, <4>3 DEF Accounted, Missable
    <3>3. InSomeLog(x)
      BY <3>1, <3>2 DEF NoSilentLoss
    <3>4. QED
      BY <2>1, <3>3 DEF InSomeLog, InLog
  <2>3. QED
    BY <2>2 DEF NoSilentLoss
<1>8. ASSUME NEW e \in Event, SendMessage(e) \/ SendRepeated(e)
      PROVE  NoSilentLoss'
  BY <1>4, <1>8 DEF SendMessage, SendRepeated, history
<1>9. ASSUME NEW k \in Key, ExpireKey(k) PROVE NoSilentLoss'
  BY <1>2, <1>9 DEF ExpireKey
<1>10. ASSUME NEW p \in Partition, CommitOffset(p) PROVE NoSilentLoss'
  BY <1>2, <1>10 DEF CommitOffset, history
<1>11. CASE UNCHANGED vars
  BY <1>2, <1>11 DEF vars, history
<1>12. CASE Join
  <2> SUFFICES ASSUME NEW x \in announced', ~Accounted(x)', x \notin outbox'
               PROVE  InSomeLog(x)'
    BY DEF NoSilentLoss
  <2>1. x \in Event /\ x \in announced /\ x \notin outbox
    BY <1>12 DEF Join, TypeOK
  <2>2. outcome'[x] = IF PassedOver(x) THEN outcome[x] \union {"missed"}
                                       ELSE outcome[x]
    BY <1>12, <2>1 DEF Join
  <2>3. UNCHANGED fresh
    BY <1>12 DEF Join
  <2>4. ~PassedOver(x)
    BY <2>1, <2>2, <2>3, PassedOverMissable DEF Accounted, Missable
  <2>5. ~Accounted(x)
    BY <2>2, <2>3, <2>4 DEF Accounted, Missable
  <2>6. InSomeLog(x)
    BY <2>1, <2>5 DEF NoSilentLoss
  <2>7. PICK q \in Partition : \E i \in 1 .. Len(log[q]) : InLog(x, q, i)
    BY <2>6 DEF InSomeLog
  <2>8. PICK i \in 1 .. Len(log[q]) : InLog(x, q, i)
    BY <2>7
  <2>9. StartOffset(q) \in Nat /\ Len(log[q]) \in Nat
    BY StartInRange DEF TypeOK
  <2>10. i > StartOffset(q)
    BY <2>4, <2>8, <2>9 DEF PassedOver
  <2>11. position'[q] = StartOffset(q) /\ UNCHANGED log
    BY <1>12 DEF Join
  <2>12. InLog(x, q, i)'
    BY <2>8, <2>9, <2>10, <2>11 DEF InLog
  <2>13. QED
    BY <2>8, <2>11, <2>12 DEF InSomeLog
<1>13. QED
  BY <1>3, <1>6, <1>7, <1>8, <1>9, <1>10, <1>11, <1>12 DEF Next

\* An event handed to the publisher never vanishes without an outcome, but for
\* one whose topic or retry topic the group never committed an offset for.
THEOREM NothingSilentlyLost == Spec => []NoSilentLoss
<1>1. Init => NoSilentLoss /\ LogAnnounced /\ NoneIsFresh
  BY NoneAssumption DEF Init, NoSilentLoss, LogAnnounced, NoneIsFresh
<1>2. QED
  BY <1>1, NoSilentLossStep, LogAnnouncedStep, NoneIsFreshStep, TypeCorrect, PTL
     DEF Spec

\* Every step of the pipeline is a step of EventDelivery, or leaves what
\* EventDelivery sees alone.
LEMMA DeliveryStep ==
    TypeOK /\ LogAnnounced /\ NoneIsFresh /\ DeadLettersExhausted /\ [Next]_vars
        => [Delivery!Next]_(Delivery!vars)
<1> SUFFICES ASSUME TypeOK, LogAnnounced, NoneIsFresh, DeadLettersExhausted,
                    [Next]_vars
             PROVE  [Delivery!Next]_(Delivery!vars)
  OBVIOUS
<1>0. UNCHANGED Missable
  BY DEF Missable, Next, Publish, SendMessage, SendRepeated, Consume,
         IgnoreUntrusted, SkipDuplicate, RouteExternalEvent, SendToRetry,
         SendToDeadLetter, FailureSendRejected, Throws, CommitOffset, ExpireKey,
         Join, Restart, vars
<1>1. ASSUME UNCHANGED <<announced, failures, outcome>>
      PROVE  [Delivery!Next]_(Delivery!vars)
  BY <1>0, <1>1 DEF Delivery!vars
<1>2. ASSUME NEW e \in Event, Publish(e) PROVE Delivery!Next
  <2>1. Delivery!Announce(e)
    BY <1>0, <1>2 DEF Publish, Delivery!Announce
  <2>2. QED
    BY <2>1 DEF Delivery!Next
<1>3. ASSUME NEW p \in Partition, Consume(p) PROVE Delivery!Next
  <2>1. Pending(p)
    BY <1>3 DEF Consume, IgnoreUntrusted, SkipDuplicate, RouteExternalEvent,
                SendToRetry, SendToDeadLetter, FailureSendRejected, Throws
  <2>2. PICK e \in Event : e = Next1(p).event /\ e \in announced
    BY <2>1, NextAnnounced, NextIsMessage
  <2>3. ASSUME NEW o \in {"routed", "skipped", "ignored"}, Settled(e, o),
               UNCHANGED <<announced, failures>>
        PROVE  Delivery!Next
    <3>1. Delivery!Settle(e, o)
      BY <1>0, <2>2, <2>3 DEF Delivery!Settle, Settled
    <3>2. QED
      BY <3>1 DEF Delivery!Next
  <2>4. CASE IgnoreUntrusted(p)
    BY <2>2, <2>3, <2>4 DEF IgnoreUntrusted
  <2>5. CASE SkipDuplicate(p)
    BY <2>2, <2>3, <2>5 DEF SkipDuplicate
  <2>6. CASE RouteExternalEvent(p)
    BY <2>2, <2>3, <2>6 DEF RouteExternalEvent
  <2>7. ASSUME Throws(p)
        PROVE  /\ failures' = [failures EXCEPT ![e] = @ + 1]
               /\ UNCHANGED announced
    BY <2>2, <2>7 DEF Throws
  <2>8. CASE SendToRetry(p)
    <3>1. Delivery!Retry(e)
      BY <1>0, <2>2, <2>7, <2>8 DEF SendToRetry, Delivery!Retry
    <3>2. QED
      BY <3>1 DEF Delivery!Next
  <2>9. CASE SendToDeadLetter(p)
    <3>1. Next1(p).retryCount =< failures[e]
      <4>1. position[p] + 1 \in 1 .. Len(log[p])
        BY <2>1, NextIsMessage
      <4>2. QED
        BY <2>2, <4>1 DEF DeadLettersExhausted, RetriesCounted, Next1
    <3>2. MaxRetries =< Next1(p).retryCount /\ Next1(p).retryCount \in Nat
      BY <2>1, <2>9, NextIsMessage, BoundAssumption DEF SendToDeadLetter
    <3>3. failures[e] \in Nat
      BY DEF TypeOK
    <3>4. failures[e] >= MaxRetries
      BY <3>1, <3>2, <3>3, BoundAssumption
    <3>5. Delivery!Bury(e)
      BY <1>0, <2>2, <2>7, <2>9, <3>4 DEF SendToDeadLetter, Settled, Delivery!Bury
    <3>6. QED
      BY <3>5 DEF Delivery!Next
  <2>10. CASE FailureSendRejected(p)
    <3>1. Delivery!Drop(e)
      BY <1>0, <2>2, <2>7, <2>10 DEF FailureSendRejected, Settled, Delivery!Drop
    <3>2. QED
      BY <3>1 DEF Delivery!Next
  <2>11. QED
    BY <1>3, <2>4, <2>5, <2>6, <2>8, <2>9, <2>10 DEF Consume
<1>4. CASE Restart
  <2>1. Delivery!Lose(outbox)
    BY <1>0, <1>4 DEF Restart, TypeOK, Delivery!Lose
  <2>2. outbox \in SUBSET Event
    BY DEF TypeOK
  <2>3. QED
    BY <2>1, <2>2 DEF Delivery!Next
<1>5. CASE Join
  <2> DEFINE S == {e \in Event : PassedOver(e)}
  <2>1. S \subseteq announced \intersect Missable
    BY PassedOverMissable
  <2>2. outcome' = [e \in Event |-> IF e \in S THEN outcome[e] \union {"missed"}
                                             ELSE outcome[e]]
    BY <1>5 DEF Join
  <2>3. UNCHANGED <<announced, failures>>
    BY <1>5 DEF Join
  <2> HIDE DEF S
  <2>4. Delivery!Miss(S)
    BY <1>0, <2>1, <2>2, <2>3 DEF Delivery!Miss
  <2>5. S \in SUBSET Event
    BY DEF S
  <2>6. QED
    BY <2>4, <2>5 DEF Delivery!Next
<1>6. QED
  BY <1>1, <1>2, <1>3, <1>4, <1>5
     DEF Next, SendMessage, SendRepeated, CommitOffset, ExpireKey, vars, history

\* Publisher, topics and subscriber implement the abstract promise.
THEOREM Implements == Spec => ImplementsDelivery
<1>1. Init => Delivery!Init
  BY DEF Init, Delivery!Init, Missable
<1>2. Init => LogAnnounced /\ NoneIsFresh
  BY NoneAssumption DEF Init, LogAnnounced, NoneIsFresh
<1>3. Spec => [](LogAnnounced /\ NoneIsFresh)
  BY <1>2, LogAnnouncedStep, NoneIsFreshStep, TypeCorrect, PTL DEF Spec
<1>4. QED
  BY <1>1, <1>3, DeliveryStep, TypeCorrect, DeadLettersSafe, PTL
     DEF Spec, Delivery!Spec, ImplementsDelivery

(***************************************************************************)
(* Without faults an event is in one place only.                           *)
(***************************************************************************)

OnePlace(e) ==
    /\ e \in outbox => ~InSomeLog(e) /\ outcome[e] = {}
    /\ InSomeLog(e) => outcome[e] = {}
    /\ \A p, q \in Partition :
          \A i \in 1 .. Len(log[p]), j \in 1 .. Len(log[q]) :
              InLog(e, p, i) /\ InLog(e, q, j) => p = q /\ i = j

\* An event nobody announced has no outcome: announcing it gives it its place.
PlaceInv ==
    forgets = 0 /\ duplicates = 0 =>
        \A e \in Event : OnePlace(e) /\ (e \notin announced => outcome[e] = {})

\* An event no step sends, appends or settles keeps its place.
LEMMA PlaceStays ==
    ASSUME NEW e, OnePlace(e), e \in outbox' => e \in outbox,
           outcome'[e] = outcome[e],
           \A q \in Partition : \A i \in 1 .. Len(log'[q]) :
               InLog(e, q, i)' => i \in 1 .. Len(log[q]) /\ InLog(e, q, i)
    PROVE  OnePlace(e)'
<1>1. InSomeLog(e)' => InSomeLog(e)
  BY DEF InSomeLog
<1>2. QED
  BY <1>1 DEF OnePlace

\* A message that is unread after positions moved forward was unread before.
LEMMA UnreadBefore ==
    ASSUME TypeOK, TypeOK', UNCHANGED log,
           \A q \in Partition : position[q] =< position'[q],
           NEW e, NEW q \in Partition, NEW i \in 1 .. Len(log'[q]), InLog(e, q, i)'
    PROVE  i \in 1 .. Len(log[q]) /\ InLog(e, q, i)
<1>1. position[q] \in Nat /\ position'[q] \in Nat /\ Len(log[q]) \in Nat
  BY DEF TypeOK
<1>2. i \in position'[q] + 1 .. Len(log'[q])
  BY DEF InLog
<1>3. i \in position[q] + 1 .. Len(log[q])
  BY <1>1, <1>2
<1>4. QED
  BY <1>1, <1>3 DEF InLog

\* If a message was appended too, it was, or it is that message.
LEMMA UnreadOrAppended ==
    ASSUME TypeOK, TypeOK', NEW p \in Partition, NEW m \in Message,
           log' = [log EXCEPT ![p] = Append(@, m)],
           \A q \in Partition : position[q] =< position'[q],
           NEW e, NEW q \in Partition, NEW i \in 1 .. Len(log'[q]), InLog(e, q, i)'
    PROVE  \/ i \in 1 .. Len(log[q]) /\ InLog(e, q, i)
           \/ q = p /\ i = Len(log[p]) + 1 /\ e = m.event
<1>1. position[q] \in Nat /\ position'[q] \in Nat /\ Len(log[q]) \in Nat
  BY DEF TypeOK
<1>2. i \in position'[q] + 1 .. Len(log'[q]) /\ log'[q][i].event = e
  BY DEF InLog
<1>3. /\ Len(log'[q]) = IF q = p THEN Len(log[q]) + 1 ELSE Len(log[q])
      /\ \A k \in 1 .. Len(log[q]) : log'[q][k] = log[q][k]
      /\ log'[p][Len(log[p]) + 1] = m
  BY AppendKeepsOffsets DEF TypeOK
<1>4. CASE i =< Len(log[q])
  <2>1. i \in position[q] + 1 .. Len(log[q]) /\ i \in 1 .. Len(log[q])
    BY <1>1, <1>2, <1>4
  <2>2. QED
    BY <1>2, <1>3, <2>1 DEF InLog
<1>5. CASE ~(i =< Len(log[q]))
  <2>1. q = p /\ i = Len(log[q]) + 1
    BY <1>1, <1>2, <1>3, <1>5
  <2>2. QED
    BY <1>2, <1>3, <2>1
<1>6. QED
  BY <1>4, <1>5

\* The next message of a partition is the only unread one of its event.
LEMMA NextIsOnly ==
    ASSUME TypeOK, NEW p \in Partition, Pending(p), OnePlace(Next1(p).event)
    PROVE  /\ Next1(p).event \notin outbox
           /\ outcome[Next1(p).event] = {}
           /\ \A q \in Partition : \A i \in 1 .. Len(log[q]) :
                 InLog(Next1(p).event, q, i) => q = p /\ i = position[p] + 1
<1>1. PICK n \in 1 .. Len(log[p]) : n = position[p] + 1
  BY NextIsMessage
<1>2. n \in position[p] + 1 .. Len(log[p])
  BY <1>1, NextIsMessage
<1>3. InLog(Next1(p).event, p, n)
  BY <1>1, <1>2 DEF InLog, Next1
<1>4. InSomeLog(Next1(p).event)
  BY <1>3 DEF InSomeLog
<1>5. QED
  BY <1>1, <1>3, <1>4 DEF OnePlace

\* Reading the next message of p: its position and no other moves, so that
\* the message is no longer unread.
LEMMA AdvancePast ==
    ASSUME TypeOK, TypeOK', NEW p \in Partition, Pending(p), Advance(p), NEW e
    PROVE  /\ \A q \in Partition : position[q] =< position'[q]
           /\ \A i : InLog(e, p, i)' => i # position[p] + 1
<1>1. /\ position \in [Partition -> Nat]
      /\ position' = [position EXCEPT ![p] = @ + 1]
      /\ Len(log'[p]) \in Nat
  BY DEF Advance, TypeOK
<1>2. \A q \in Partition : position[q] =< position'[q]
  BY <1>1
<1>3. position'[p] = position[p] + 1 /\ position[p] \in Nat
  BY <1>1
<1>4. position[p] + 1 \notin position'[p] + 1 .. Len(log'[p])
  BY <1>1, <1>3
<1>5. QED
  BY <1>2, <1>4 DEF InLog

\* A step that settles the event of the next message takes it off the log.
LEMMA SettlePlace ==
    ASSUME TypeOK, TypeOK', \A e \in Event : OnePlace(e),
           NEW p \in Partition, Pending(p), Advance(p), NEW o,
           Settled(Next1(p).event, o), UNCHANGED <<log, outbox>>
    PROVE  \A e \in Event : OnePlace(e)'
<1> SUFFICES ASSUME NEW e \in Event PROVE OnePlace(e)'
  OBVIOUS
<1>1. Next1(p).event \in Event
  BY NextIsMessage
<1>2. ASSUME NEW q \in Partition, NEW i \in 1 .. Len(log'[q]), InLog(e, q, i)'
      PROVE  i \in 1 .. Len(log[q]) /\ InLog(e, q, i)
  <2>1. \A r \in Partition : position[r] =< position'[r]
    BY AdvancePast
  <2>2. QED
    BY <1>2, <2>1, UnreadBefore
<1>3. CASE e = Next1(p).event
  <2>1. /\ e \notin outbox
        /\ \A q \in Partition : \A i \in 1 .. Len(log[q]) :
              InLog(e, q, i) => q = p /\ i = position[p] + 1
    BY <1>3, NextIsOnly
  <2>2. \A q \in Partition : \A i \in 1 .. Len(log'[q]) : ~InLog(e, q, i)'
    BY <1>2, <2>1, AdvancePast
  <2>3. ~InSomeLog(e)'
    BY <2>2 DEF InSomeLog
  <2>4. QED
    BY <2>1, <2>2, <2>3 DEF OnePlace
<1>4. CASE e # Next1(p).event
  <2>1. outcome'[e] = outcome[e]
    BY <1>4 DEF Settled, TypeOK
  <2>2. QED
    BY <1>2, <2>1, PlaceStays
<1>5. QED
  BY <1>3, <1>4

\* An append gives its event a place if it had lost its own in the same step.
LEMMA AppendPlace ==
    ASSUME TypeOK, TypeOK', \A e \in Event : OnePlace(e),
           NEW p \in Partition, NEW m \in Message,
           log' = [log EXCEPT ![p] = Append(@, m)],
           \A q \in Partition : position[q] =< position'[q],
           outbox' \subseteq outbox, m.event \notin outbox',
           UNCHANGED outcome, outcome[m.event] = {},
           \A q \in Partition : \A i \in 1 .. Len(log[q]) :
               InLog(m.event, q, i) => ~InLog(m.event, q, i)'
    PROVE  \A e \in Event : OnePlace(e)'
<1> SUFFICES ASSUME NEW e \in Event PROVE OnePlace(e)'
  OBVIOUS
<1>1. \A q \in Partition : \A i \in 1 .. Len(log'[q]) :
          InLog(e, q, i)' =>
              \/ i \in 1 .. Len(log[q]) /\ InLog(e, q, i)
              \/ q = p /\ i = Len(log[p]) + 1 /\ e = m.event
  BY UnreadOrAppended
<1>2. CASE e = m.event
  <2>1. \A q \in Partition : \A i \in 1 .. Len(log'[q]) :
            InLog(e, q, i)' => q = p /\ i = Len(log[p]) + 1
    BY <1>1, <1>2
  <2>2. QED
    BY <1>2, <2>1 DEF OnePlace
<1>3. CASE e # m.event
  <2>1. \A q \in Partition : \A i \in 1 .. Len(log'[q]) :
            InLog(e, q, i)' => i \in 1 .. Len(log[q]) /\ InLog(e, q, i)
    BY <1>1, <1>3
  <2>2. e \in outbox' => e \in outbox
    OBVIOUS
  <2>3. QED
    BY <2>1, <2>2, PlaceStays
<1>4. QED
  BY <1>2, <1>3

\* A consumer that joins for the first time has read nothing.
AtStart == forgets = 0 /\ ~joined => \A p \in Partition : position[p] = 0

LEMMA AtStartStep == TypeOK /\ AtStart /\ [Next]_vars => AtStart'
<1> SUFFICES ASSUME TypeOK, AtStart, [Next]_vars PROVE AtStart'
  OBVIOUS
<1>1. ASSUME UNCHANGED <<position, joined, forgets>> PROVE AtStart'
  BY <1>1 DEF AtStart
<1>2. ASSUME forgets' = forgets + 1 PROVE AtStart'
  BY <1>2 DEF AtStart, TypeOK
<1>3. ASSUME joined' = TRUE PROVE AtStart'
  BY <1>3 DEF AtStart
<1>4. QED
  BY <1>1, <1>2, <1>3
     DEF Next, Publish, SendMessage, SendRepeated, Consume, IgnoreUntrusted,
         SkipDuplicate, RouteExternalEvent, SendToRetry, SendToDeadLetter,
         FailureSendRejected, Throws, Pending, CommitOffset, ExpireKey, Join,
         Restart, vars, history

LEMMA PlaceStep ==
    TypeOK /\ TypeOK' /\ LogAnnounced /\ AtStart /\ PlaceInv /\ [Next]_vars
        => PlaceInv'
<1> SUFFICES ASSUME TypeOK, TypeOK', LogAnnounced, AtStart, PlaceInv,
                    [Next]_vars, forgets' = 0, duplicates' = 0
             PROVE  \A e \in Event :
                        OnePlace(e)' /\ (e \notin announced' => outcome'[e] = {})
  BY DEF PlaceInv
<1>1. CASE \E k \in Key : ExpireKey(k)
  BY <1>1 DEF ExpireKey, TypeOK
<1>2. CASE Restart
  BY <1>2 DEF Restart, TypeOK
<1>3. CASE \E e \in Event : SendRepeated(e)
  BY <1>3 DEF SendRepeated, TypeOK
<1>4. ASSUME UNCHANGED <<outbox, log, position, announced, outcome, forgets, duplicates>>
      PROVE  \A e \in Event :
                 OnePlace(e)' /\ (e \notin announced' => outcome'[e] = {})
  BY <1>4 DEF PlaceInv, OnePlace, InSomeLog, InLog
<1>5. ASSUME NEW e \in Event, Publish(e)
      PROVE  \A x \in Event :
                 OnePlace(x)' /\ (x \notin announced' => outcome'[x] = {})
  <2>1. \A x \in Event :
            OnePlace(x) /\ (x \notin announced => outcome[x] = {})
    BY <1>5 DEF Publish, PlaceInv
  <2>2. /\ e \notin announced
        /\ announced' = announced \union {e} /\ outbox' = outbox \union {e}
        /\ UNCHANGED <<log, position, outcome>>
    BY <1>5 DEF Publish
  <2>3. ~InSomeLog(e)
    BY <2>2 DEF LogAnnounced, InSomeLog, InLog
  <2>4. ASSUME NEW x PROVE InSomeLog(x)' <=> InSomeLog(x)
    BY <2>2 DEF InSomeLog, InLog
  <2>5. ASSUME NEW x, NEW q, NEW i PROVE InLog(x, q, i)' <=> InLog(x, q, i)
    BY <2>2 DEF InLog
  <2>6. QED
    BY <2>1, <2>2, <2>3, <2>4, <2>5 DEF OnePlace
<1>6. ASSUME NEW e \in Event, SendMessage(e)
      PROVE  \A x \in Event :
                 OnePlace(x)' /\ (x \notin announced' => outcome'[x] = {})
  <2>1. \A x \in Event :
            OnePlace(x) /\ (x \notin announced => outcome[x] = {})
    BY <1>6 DEF SendMessage, history, PlaceInv
  <2>2. [event |-> e, retryCount |-> 0] \in Message
    BY BoundAssumption DEF Message
  <2>3. PICK m \in Message : m = [event |-> e, retryCount |-> 0]
    BY <2>2
  <2>4. /\ log' = [log EXCEPT ![MainPartition(e)] = Append(@, m)]
        /\ outbox' \subseteq outbox /\ m.event \notin outbox'
        /\ UNCHANGED <<position, announced, outcome>>
    BY <1>6, <2>3 DEF SendMessage, history
  <2>5. \A q \in Partition : position[q] =< position'[q]
    BY <2>4 DEF TypeOK
  <2>6. outcome[m.event] = {} /\ ~InSomeLog(m.event)
    BY <1>6, <2>1, <2>3 DEF SendMessage, OnePlace
  <2>7. \A q \in Partition : \A i \in 1 .. Len(log[q]) : ~InLog(m.event, q, i)
    BY <2>6 DEF InSomeLog
  <2>8. \A x \in Event : OnePlace(x)'
    BY <2>1, <2>4, <2>5, <2>6, <2>7, EventNames, AppendPlace
  <2>9. QED
    BY <2>1, <2>4, <2>8
<1>7. ASSUME NEW p \in Partition, Consume(p)
      PROVE  \A x \in Event :
                 OnePlace(x)' /\ (x \notin announced' => outcome'[x] = {})
  <2>1. /\ Pending(p) /\ Advance(p)
        /\ UNCHANGED <<outbox, announced, forgets, duplicates>>
    BY <1>7 DEF Consume, IgnoreUntrusted, SkipDuplicate, RouteExternalEvent,
                SendToRetry, SendToDeadLetter, FailureSendRejected, Throws
  <2>2. \A x \in Event :
            OnePlace(x) /\ (x \notin announced => outcome[x] = {})
    BY <2>1 DEF PlaceInv
  <2>3. PICK e \in Event : e = Next1(p).event /\ e \in announced
    BY <2>1, NextIsMessage, NextAnnounced
  <2>4. ASSUME NEW o, Settled(Next1(p).event, o), UNCHANGED log
        PROVE  \A x \in Event :
                   OnePlace(x)' /\ (x \notin announced' => outcome'[x] = {})
    <3>1. \A x \in Event : OnePlace(x)'
      BY <2>1, <2>2, <2>4, SettlePlace
    <3>2. \A x \in Event : x \notin announced => outcome'[x] = outcome[x]
      BY <2>3, <2>4 DEF Settled, TypeOK
    <3>3. QED
      BY <2>1, <2>2, <3>1, <3>2
  <2>5. CASE SendToRetry(p)
    <3>1. Next1(p).retryCount + 1 \in 0 .. MaxRetries
      BY <2>1, <2>5, NextIsMessage, BoundAssumption DEF SendToRetry
    <3>2. PICK m \in Message : m = [event |-> e, retryCount |-> Next1(p).retryCount + 1]
      BY <3>1 DEF Message
    <3>3. /\ log' = [log EXCEPT ![RetryPartition(e)] = Append(@, m)]
          /\ UNCHANGED outcome
      BY <2>3, <2>5, <3>2 DEF SendToRetry
    <3>4. /\ m.event \notin outbox /\ outcome[m.event] = {}
          /\ \A q \in Partition : \A i \in 1 .. Len(log[q]) :
                InLog(m.event, q, i) => q = p /\ i = position[p] + 1
      BY <2>1, <2>2, <2>3, <3>2, NextIsOnly
    <3>5. \A q \in Partition : \A i \in 1 .. Len(log[q]) :
              InLog(m.event, q, i) => ~InLog(m.event, q, i)'
      BY <2>1, <3>4, AdvancePast
    <3>6. \A q \in Partition : position[q] =< position'[q]
      BY <2>1, AdvancePast
    <3>7. \A x \in Event : OnePlace(x)'
      BY <2>1, <2>2, <3>3, <3>4, <3>5, <3>6, EventNames, AppendPlace
    <3>8. QED
      BY <2>1, <2>2, <3>3, <3>7
  <2>6. QED
    BY <1>7, <2>4, <2>5
       DEF Consume, IgnoreUntrusted, SkipDuplicate, RouteExternalEvent,
           SendToDeadLetter, FailureSendRejected
<1>8. CASE Join
  <2>1. \A x \in Event :
            OnePlace(x) /\ (x \notin announced => outcome[x] = {})
    BY <1>8 DEF Join, PlaceInv
  <2>2. forgets = 0 /\ UNCHANGED <<outbox, log, announced>>
    BY <1>8 DEF Join
  <2>3. position' = [q \in Partition |-> StartOffset(q)]
    BY <1>8 DEF Join
  <2> TAKE x \in Event
  <2>4. outcome'[x] = IF PassedOver(x) THEN outcome[x] \union {"missed"}
                                       ELSE outcome[x]
    BY <1>8 DEF Join
  <2>5. \A q \in Partition : position[q] =< position'[q]
    BY <1>8, <2>2, <2>3, StartInRange DEF AtStart, Join, TypeOK
  <2>6. ASSUME NEW q \in Partition, NEW i \in 1 .. Len(log'[q]), InLog(x, q, i)'
        PROVE  i \in 1 .. Len(log[q]) /\ InLog(x, q, i)
    BY <2>2, <2>5, <2>6, UnreadBefore
  <2>7. CASE PassedOver(x)
    <3>1. PICK p \in Partition : \E i \in 1 .. StartOffset(p) : InLog(x, p, i)
      BY <2>7 DEF PassedOver
    <3>2. PICK i \in 1 .. StartOffset(p) : InLog(x, p, i)
      BY <3>1
    <3>3. /\ StartOffset(p) \in Nat /\ StartOffset(p) =< Len(log[p])
          /\ Len(log[p]) \in Nat
      BY StartInRange DEF TypeOK
    <3>4. i \in 1 .. Len(log[p])
      BY <3>3
    <3>5. InSomeLog(x) /\ x \in announced
      BY <3>2, <3>4 DEF InSomeLog, InLog, LogAnnounced
    <3>6. ~InLog(x, p, i)'
      <4>1. position'[p] = StartOffset(p)
        BY <2>3
      <4>2. QED
        BY <2>2, <3>3, <3>4, <4>1 DEF InLog
    <3>7. ASSUME NEW q \in Partition, NEW j \in 1 .. Len(log'[q])
          PROVE  ~InLog(x, q, j)'
      BY <2>1, <2>6, <3>2, <3>4, <3>6 DEF OnePlace
    <3>8. ~InSomeLog(x)'
      BY <3>7 DEF InSomeLog
    <3>9. QED
      BY <2>1, <2>2, <3>5, <3>7, <3>8 DEF OnePlace
  <2>8. CASE ~PassedOver(x)
    <3>1. outcome'[x] = outcome[x] /\ (x \in outbox' => x \in outbox)
      BY <2>2, <2>4, <2>8
    <3>2. OnePlace(x)'
      BY <2>1, <2>6, <3>1, PlaceStays
    <3>3. QED
      BY <2>1, <2>2, <3>1, <3>2
  <2>9. QED
    BY <2>7, <2>8
<1>9. QED
  BY <1>1, <1>2, <1>3, <1>4, <1>5, <1>6, <1>7, <1>8
     DEF Next, CommitOffset, vars, history

\* While nothing crashed, expired or was appended twice, an event is in one
\* place only, whatever was retried.
THEOREM InOnePlace == Spec => []ExactlyOnePlace
<1>1. Init => LogAnnounced /\ AtStart /\ PlaceInv
  <2>1. Init => LogAnnounced
    BY DEF Init, LogAnnounced
  <2>2. Init => \A p \in Partition : Len(log[p]) = 0
    BY DEF Init
  <2>3. Init => \A e \in Event : \A p \in Partition :
                    \A i \in 1 .. Len(log[p]) : FALSE
    BY <2>2
  <2>4. Init => \A e \in Event : ~InSomeLog(e)
    BY <2>3 DEF InSomeLog
  <2>5. Init => PlaceInv
    BY <2>3, <2>4 DEF Init, PlaceInv, OnePlace
  <2>6. Init => AtStart
    BY DEF Init, AtStart
  <2>7. QED
    BY <2>1, <2>5, <2>6
<1>2. PlaceInv => ExactlyOnePlace
  BY DEF PlaceInv, OnePlace, ExactlyOnePlace
<1>3. QED
  BY <1>1, <1>2, PlaceStep, AtStartStep, LogAnnouncedStep, TypeCorrect, PTL DEF Spec

=============================================================================
