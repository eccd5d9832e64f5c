------------------------- MODULE KafkaBootstrapProofs -------------------------
(***************************************************************************)
(* What holds of the start of messaging for any topics, any number of      *)
(* retries and polls, and any order of failures, propagations and signals. *)
(***************************************************************************)
EXTENDS KafkaBootstrap, TLAPS

(***************************************************************************)
(* The inductive invariant.                                                *)
(***************************************************************************)

\* Another attempt is due only while there are retries left, and another poll
\* only while there are polls left.
Bounded ==
    /\ at = "down" => attempt = 0
    /\ at = "recovery" => attempt =< MaxRetries
    /\ at = "wait" => polls < MaxAttempts

\* From where the topics have been listed on, they stay listed; and what the
\* subscriber has been through is subscribed.
Ordered ==
    /\ at \in {"initialize", "subscribe", "run"} => Topic \subseteq listed
    /\ at = "subscribe" => ConsumerTopic \ toSubscribe \subseteq subscribedTopics
    /\ at = "run" => subscribedTopics = ConsumerTopic
    /\ at \in {"verify", "up"} => initialized

\* What KafkaService and the subscriber remember of earlier attempts.
Remembered ==
    /\ initialized => subscribedTopics = ConsumerTopic
    /\ consumerRunning => subscribedTopics = ConsumerTopic
    /\ initialized /\ ~stopping => consumerRunning
    /\ consumerRunning /\ ~stopping => consuming \/ runThrew

\* An attempt has not reached the topics in front of it: their handlers are from
\* earlier ones.
HandlersCounted ==
    \A t \in ConsumerTopic :
        /\ t \in subscribedTopics => topicHandlers[t] >= 1
        /\ topicHandlers[t] =< attempt
        /\ at \in {"connect", "create", "wait", "initialize"} => topicHandlers[t] < attempt
        /\ at = "subscribe" /\ t \in toSubscribe => topicHandlers[t] < attempt

IInv ==
    /\ TypeOK
    /\ Bounded
    /\ Ordered
    /\ Remembered
    /\ HandlersCounted
    /\ SubscribedAreListed

LEMMA InitInv == ASSUME WellPosed, Init PROVE IInv
<1> USE DEF Init
<1>1. TypeOK
  <2>1. attempt \in 0 .. MaxRetries + 1 /\ polls \in 0 .. MaxAttempts
    BY DEF WellPosed
  <2>2. QED
    BY <2>1 DEF TypeOK, Place
<1>2. Bounded
  BY DEF WellPosed, TypeOK, Bounded
<1>3. Ordered /\ Remembered /\ SubscribedAreListed
  BY DEF Ordered, Remembered, SubscribedAreListed
<1>4. HandlersCounted
  BY DEF HandlersCounted
<1>5. QED
  BY <1>1, <1>2, <1>3, <1>4 DEF IInv

-----------------------------------------------------------------------------
(* Every step keeps it.                                                    *)

LEMMA BootInv == ASSUME WellPosed, IInv, Boot PROVE IInv'
<1> USE DEF WellPosed, IInv, Boot, brokerVars, serviceVars
<1>1. TypeOK'
  BY DEF TypeOK, Place
<1>2. Bounded'
  BY DEF TypeOK, Bounded
<1>3. Ordered' /\ Remembered' /\ SubscribedAreListed'
  BY DEF TypeOK, Ordered, Remembered, SubscribedAreListed
<1>4. HandlersCounted'
  BY DEF TypeOK, Bounded, HandlersCounted
<1>5. QED
  BY <1>1, <1>2, <1>3, <1>4

LEMMA RetryInv == ASSUME WellPosed, IInv, Retry PROVE IInv'
<1> USE DEF WellPosed, IInv, Retry, brokerVars, serviceVars
<1>1. TypeOK'
  BY DEF TypeOK, Place, Bounded
<1>2. Bounded'
  BY DEF TypeOK, Bounded
<1>3. Ordered' /\ Remembered' /\ SubscribedAreListed'
  BY DEF TypeOK, Ordered, Remembered, SubscribedAreListed
<1>4. HandlersCounted'
  BY DEF TypeOK, Bounded, HandlersCounted
<1>5. QED
  BY <1>1, <1>2, <1>3, <1>4

LEMMA ConnectInv == ASSUME WellPosed, IInv, Connect PROVE IInv'
<1> USE DEF WellPosed, IInv, Connect, BeginCreation, Throw, Recover, brokerVars
<1>1. TypeOK'
  BY DEF TypeOK, Place
<1>2. Bounded'
  BY DEF TypeOK, Bounded
<1>3. Ordered' /\ Remembered' /\ SubscribedAreListed'
  BY DEF TypeOK, Ordered, Remembered, SubscribedAreListed
<1>4. HandlersCounted'
  BY DEF TypeOK, HandlersCounted
<1>5. QED
  BY <1>1, <1>2, <1>3, <1>4

LEMMA SendConnectsInv == ASSUME WellPosed, IInv, SendConnects PROVE IInv'
<1> USE DEF WellPosed, IInv, SendConnects, attemptVars, brokerVars
<1>1. TypeOK'
  BY DEF TypeOK, Place
<1>2. Bounded'
  BY DEF TypeOK, Bounded
<1>3. Ordered' /\ Remembered' /\ SubscribedAreListed'
  BY DEF TypeOK, Ordered, Remembered, SubscribedAreListed
<1>4. HandlersCounted'
  BY DEF TypeOK, HandlersCounted
<1>5. QED
  BY <1>1, <1>2, <1>3, <1>4

LEMMA CreateTopicInv ==
    ASSUME WellPosed, IInv, NEW t \in Topic, CreateTopic(t) PROVE IInv'
<1> USE DEF WellPosed, IInv, CreateTopic, AdminAnswers, AdminFails, Throw, Recover
<1>1. TypeOK'
  BY DEF TypeOK, Place
<1>2. Bounded'
  BY DEF TypeOK, Bounded
<1>3. Ordered' /\ Remembered' /\ SubscribedAreListed'
  BY DEF TypeOK, Ordered, Remembered, SubscribedAreListed
<1>4. HandlersCounted'
  BY DEF TypeOK, HandlersCounted
<1>5. QED
  BY <1>1, <1>2, <1>3, <1>4

LEMMA AllCreatedInv == ASSUME WellPosed, IInv, AllCreated PROVE IInv'
<1> USE DEF WellPosed, IInv, AllCreated, brokerVars, serviceVars
<1>1. TypeOK'
  <2>1. polls' \in 0 .. MaxAttempts
    OBVIOUS
  <2>2. QED
    BY <2>1 DEF TypeOK, Place
<1>2. Bounded'
  BY DEF TypeOK, Bounded
<1>3. Ordered' /\ Remembered' /\ SubscribedAreListed'
  BY DEF TypeOK, Ordered, Remembered, SubscribedAreListed
<1>4. HandlersCounted'
  BY DEF TypeOK, HandlersCounted
<1>5. QED
  BY <1>1, <1>2, <1>3, <1>4

LEMMA PollTopicsInv == ASSUME WellPosed, IInv, PollTopics PROVE IInv'
<1> USE DEF WellPosed, IInv, PollTopics, PollAgain, Recover, Goto, AdminAnswers,
            AdminFails, brokerVars
<1>1. TypeOK'
  <2>1. at' \in Place
    BY DEF TypeOK, Place
  <2>2. polls' \in 0 .. MaxAttempts
    BY DEF TypeOK, Bounded
  <2>3. QED
    BY <2>1, <2>2 DEF TypeOK
<1>2. Bounded'
  BY DEF TypeOK, Bounded
<1>3. Ordered' /\ Remembered' /\ SubscribedAreListed'
  BY DEF TypeOK, Ordered, Remembered, SubscribedAreListed
<1>4. HandlersCounted'
  BY DEF TypeOK, HandlersCounted
<1>5. QED
  BY <1>1, <1>2, <1>3, <1>4

LEMMA PropagateInv ==
    ASSUME WellPosed, IInv, NEW t \in Topic, Propagate(t) PROVE IInv'
<1> USE DEF WellPosed, IInv, Propagate, attemptVars, serviceVars
<1>1. TypeOK'
  BY DEF TypeOK, Place
<1>2. Bounded'
  BY DEF TypeOK, Bounded
<1>3. Ordered' /\ Remembered' /\ SubscribedAreListed'
  BY DEF TypeOK, Ordered, Remembered, SubscribedAreListed
<1>4. HandlersCounted'
  BY DEF TypeOK, HandlersCounted
<1>5. QED
  BY <1>1, <1>2, <1>3, <1>4

LEMMA InitializeInv == ASSUME WellPosed, IInv, Initialize PROVE IInv'
<1> USE DEF WellPosed, IInv, Initialize, brokerVars, serviceVars
<1>1. TypeOK'
  BY DEF TypeOK, Place
<1>2. Bounded'
  BY DEF TypeOK, Bounded
<1>3. Ordered' /\ Remembered' /\ SubscribedAreListed'
  BY DEF TypeOK, Ordered, Remembered, SubscribedAreListed
<1>4. HandlersCounted'
  BY DEF TypeOK, HandlersCounted
<1>5. QED
  BY <1>1, <1>2, <1>3, <1>4

\* The topic is one of Topic, which are all listed by now, and its handlers were
\* fewer than the attempts.
LEMMA SubscribeTopicInv ==
    ASSUME WellPosed, IInv, NEW t \in ConsumerTopic, SubscribeTopic(t) PROVE IInv'
<1> USE DEF WellPosed, IInv, SubscribeTopic, Throw, Recover, brokerVars
<1>1. TypeOK'
  BY DEF TypeOK, Place
<1>2. Bounded'
  BY DEF TypeOK, Bounded
<1>3. Ordered'
  BY DEF TypeOK, Ordered
<1>4. Remembered'
  BY DEF TypeOK, Remembered
<1>5. SubscribedAreListed'
  BY DEF TypeOK, Ordered, SubscribedAreListed
<1>6. HandlersCounted'
  <2> SUFFICES ASSUME NEW s \in ConsumerTopic
               PROVE  /\ s \in subscribedTopics' => topicHandlers'[s] >= 1
                      /\ topicHandlers'[s] =< attempt'
                      /\ at' \in {"connect", "create", "wait", "initialize"}
                            => topicHandlers'[s] < attempt'
                      /\ at' = "subscribe" /\ s \in toSubscribe'
                            => topicHandlers'[s] < attempt'
    BY DEF HandlersCounted
  <2>1. CASE s = t
    BY <2>1 DEF TypeOK, HandlersCounted
  <2>2. CASE s # t
    BY <2>2 DEF TypeOK, HandlersCounted
  <2>3. QED
    BY <2>1, <2>2
<1>7. QED
  BY <1>1, <1>2, <1>3, <1>4, <1>5, <1>6

LEMMA AllSubscribedInv == ASSUME WellPosed, IInv, AllSubscribed PROVE IInv'
<1> USE DEF WellPosed, IInv, AllSubscribed, Goto, brokerVars, serviceVars
<1>1. TypeOK'
  BY DEF TypeOK, Place
<1>2. Bounded'
  BY DEF TypeOK, Bounded
<1>3. Ordered' /\ Remembered' /\ SubscribedAreListed'
  BY DEF TypeOK, Ordered, Remembered, SubscribedAreListed
<1>4. HandlersCounted'
  BY DEF TypeOK, HandlersCounted
<1>5. QED
  BY <1>1, <1>2, <1>3, <1>4

LEMMA RunInv == ASSUME WellPosed, IInv, Run PROVE IInv'
<1> USE DEF WellPosed, IInv, Run, Goto, Throw, Recover, brokerVars
<1>1. TypeOK'
  BY DEF TypeOK, Place
<1>2. Bounded'
  BY DEF TypeOK, Bounded
<1>3. Ordered' /\ Remembered' /\ SubscribedAreListed'
  BY DEF TypeOK, Ordered, Remembered, SubscribedAreListed
<1>4. HandlersCounted'
  BY DEF TypeOK, HandlersCounted
<1>5. QED
  BY <1>1, <1>2, <1>3, <1>4

LEMMA VerifyInv == ASSUME WellPosed, IInv, Verify PROVE IInv'
<1> USE DEF WellPosed, IInv, Verify, Goto, brokerVars
<1>1. TypeOK'
  BY DEF TypeOK, Place
<1>2. Bounded'
  BY DEF TypeOK, Bounded
<1>3. Ordered' /\ Remembered' /\ SubscribedAreListed'
  BY DEF TypeOK, Ordered, Remembered, SubscribedAreListed
<1>4. HandlersCounted'
  BY DEF TypeOK, HandlersCounted
<1>5. QED
  BY <1>1, <1>2, <1>3, <1>4

LEMMA DestroyInv == ASSUME WellPosed, IInv, Destroy PROVE IInv'
<1> USE DEF WellPosed, IInv, Destroy, attemptVars, brokerVars
<1>1. TypeOK'
  BY DEF TypeOK, Place
<1>2. Bounded'
  BY DEF TypeOK, Bounded
<1>3. Ordered' /\ Remembered' /\ SubscribedAreListed'
  BY DEF TypeOK, Ordered, Remembered, SubscribedAreListed
<1>4. HandlersCounted'
  BY DEF TypeOK, HandlersCounted
<1>5. QED
  BY <1>1, <1>2, <1>3, <1>4

LEMMA ExitInv == ASSUME WellPosed, IInv, Exit PROVE IInv'
<1> USE DEF WellPosed, IInv, Exit, Goto, brokerVars, serviceVars
<1>1. TypeOK'
  BY DEF TypeOK, Place
<1>2. Bounded'
  BY DEF TypeOK, Bounded
<1>3. Ordered' /\ Remembered' /\ SubscribedAreListed'
  BY DEF TypeOK, Ordered, Remembered, SubscribedAreListed
<1>4. HandlersCounted'
  BY DEF TypeOK, HandlersCounted
<1>5. QED
  BY <1>1, <1>2, <1>3, <1>4

LEMMA StutterInv == ASSUME IInv, UNCHANGED vars PROVE IInv'
BY DEF IInv, vars, attemptVars, brokerVars, serviceVars, TypeOK, Bounded, Ordered,
       Remembered, HandlersCounted, SubscribedAreListed

LEMMA StepInv == ASSUME WellPosed, IInv, [Next]_vars PROVE IInv'
<1>1. CASE Start
  BY <1>1, BootInv, RetryInv, ConnectInv, AllCreatedInv, PollTopicsInv, InitializeInv,
     AllSubscribedInv, RunInv, VerifyInv, CreateTopicInv, SubscribeTopicInv DEF Start
<1>2. CASE SendConnects \/ Destroy \/ Exit
  BY <1>2, SendConnectsInv, DestroyInv, ExitInv
<1>3. CASE \E t \in Topic : Propagate(t)
  BY <1>3, PropagateInv
<1>4. CASE UNCHANGED vars
  BY <1>4, StutterInv
<1>5. QED
  BY <1>1, <1>2, <1>3, <1>4 DEF Next

LEMMA Invariance == ASSUME WellPosed PROVE Spec => []IInv
<1>1. Init => IInv
  BY InitInv
<1>2. IInv /\ [Next]_vars => IInv'
  BY StepInv
<1>3. QED
  BY <1>1, <1>2, PTL DEF Spec

-----------------------------------------------------------------------------
(* The theorems.                                                           *)

\* The start is well typed: attempts and polls keep to their limits.
THEOREM TypeCorrect == ASSUME WellPosed PROVE Spec => []TypeOK
<1>1. IInv => TypeOK
  BY DEF IInv
<1>2. QED
  BY <1>1, Invariance, PTL

\* A consumer runs only when it is subscribed to every topic, a module that is up
\* has one, and no topic has more handlers than there were attempts.
THEOREM ConsumerSubscribed == ASSUME WellPosed PROVE Spec => []UpIsSubscribed
<1>1. IInv => UpIsSubscribed
  BY DEF IInv, Ordered, Remembered, HandlersCounted, UpIsSubscribed
<1>2. QED
  BY <1>1, Invariance, PTL

\* No topic is subscribed to before the broker shows it.
THEOREM SubscribedListed == ASSUME WellPosed PROVE Spec => []SubscribedAreListed
<1>1. IInv => SubscribedAreListed
  BY DEF IInv
<1>2. QED
  BY <1>1, Invariance, PTL

-----------------------------------------------------------------------------
(* The refinement.                                                         *)

\* A step that throws is a failed attempt: the places it throws from are those of
\* an attempt.
LEMMA RecoverFails ==
    ASSUME AbstractStatus = "trying", Recover, UNCHANGED attempt
    PROVE  StartupSpec!Fail
BY DEF AbstractStatus, Recover, StartupSpec!Fail

LEMMA StepImplements ==
    ASSUME WellPosed, IInv, [Next]_vars
    PROVE  [StartupSpec!Next]_(<<AbstractStatus, attempt>>)
<1> USE DEF AbstractStatus, StartupSpec!Next
<1>1. CASE Boot \/ Retry
  BY <1>1 DEF IInv, Bounded, Boot, Retry, StartupSpec!Try
<1>2. CASE Connect
  BY <1>2, RecoverFails DEF Connect, BeginCreation, Throw
<1>3. CASE \E t \in Topic : CreateTopic(t)
  BY <1>3, RecoverFails DEF CreateTopic, Throw
<1>4. CASE AllCreated \/ AllSubscribed \/ Initialize
  BY <1>4 DEF AllCreated, AllSubscribed, Initialize, Goto
<1>5. CASE PollTopics
  BY <1>5, RecoverFails DEF PollTopics, PollAgain, Goto
<1>6. CASE \E t \in ConsumerTopic : SubscribeTopic(t)
  BY <1>6, RecoverFails DEF SubscribeTopic, Throw
<1>7. CASE Run
  BY <1>7, RecoverFails DEF Run, Throw, Goto
<1>8. CASE Verify
  BY <1>8 DEF Verify, Goto, StartupSpec!Succeed
<1>9. CASE Exit
  BY <1>9 DEF IInv, TypeOK, Place, Exit, Goto, StartupSpec!Stop
<1>10. CASE SendConnects \/ Destroy \/ (\E t \in Topic : Propagate(t)) \/ UNCHANGED vars
  BY <1>10 DEF SendConnects, Destroy, Propagate, vars, attemptVars
<1>11. QED
  BY <1>1, <1>2, <1>3, <1>4, <1>5, <1>6, <1>7, <1>8, <1>9, <1>10 DEF Next, Start

\* The start keeps the promise of Startup: one attempt at a time, MaxRetries
\* retries and no more, and up until the process ends.
THEOREM Implements == ASSUME WellPosed PROVE Spec => ImplementsStartup
<1>1. Init => StartupSpec!Init
  BY DEF Init, AbstractStatus, StartupSpec!Init
<1>2. IInv /\ [Next]_vars => [StartupSpec!Next]_(<<AbstractStatus, attempt>>)
  BY StepImplements
<1>3. QED
  BY <1>1, <1>2, Invariance, PTL DEF Spec, ImplementsStartup, StartupSpec!Spec

=============================================================================
