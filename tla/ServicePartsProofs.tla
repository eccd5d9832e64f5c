-------------------------- MODULE ServicePartsProofs --------------------------
(***************************************************************************)
(* What the parts of the service keep when they run as parts of it: the    *)
(* start, the traces, the read model, the queries and the commands.  But   *)
(* for the traces, each of them has its proof in a module of its own; here *)
(* every behaviour of ServiceParts is shown to be one of the part, which   *)
(* takes its own steps and stands still during those of the others.  The   *)
(* queries and the commands have their proofs once, in EntityQueriesProofs *)
(* and EntityCommandsProofs, and these are carried over to each of the     *)
(* four entity modules.  The same part is instantiated twice: by           *)
(* ServiceParts, and here together with its theorems; the first lemmas of  *)
(* a section say that the two are the same.                                *)
(***************************************************************************)
EXTENDS ServiceParts, FiniteSetTheorems, TLAPS

-----------------------------------------------------------------------------
(* The start.                                                              *)

Start == INSTANCE KafkaBootstrapProofs

LEMMA StartWellPosed == Start!WellPosed
BY PartsAssumption DEF Messaging!WellPosed, Start!WellPosed,
       Messaging!IsFiniteSet, Start!IsFiniteSet

LEMMA StartInit == Init => Start!Init
BY DEF Init, Messaging!Init, Start!Init

LEMMA StartStays == UNCHANGED startVars => UNCHANGED Start!vars
BY DEF Start!vars, startVars, Start!attemptVars, Start!brokerVars, Start!serviceVars

LEMMA StartNext == Messaging!Next => Start!Next
<1> USE DEF Messaging!attemptVars, Messaging!brokerVars, Messaging!serviceVars,
            Start!attemptVars, Start!brokerVars, Start!serviceVars, Messaging!Goto,
            Start!Goto, Messaging!Throw, Start!Throw, Messaging!Recover, Start!Recover
<1>1. Messaging!Boot => Start!Boot
  BY DEF Messaging!Boot, Start!Boot
<1>2. Messaging!Retry => Start!Retry
  BY DEF Messaging!Retry, Start!Retry
<1>3. Messaging!Connect => Start!Connect
  BY DEF Messaging!Connect, Start!Connect, Messaging!BeginCreation, Start!BeginCreation
<1>4. Messaging!AllCreated => Start!AllCreated
  BY DEF Messaging!AllCreated, Start!AllCreated
<1>5. Messaging!PollTopics => Start!PollTopics
  BY DEF Messaging!PollTopics, Start!PollTopics, Messaging!PollAgain, Start!PollAgain,
     Messaging!AdminAnswers, Start!AdminAnswers, Messaging!AdminFails, Start!AdminFails
<1>6. Messaging!Initialize => Start!Initialize
  BY DEF Messaging!Initialize, Start!Initialize
<1>7. Messaging!AllSubscribed => Start!AllSubscribed
  BY DEF Messaging!AllSubscribed, Start!AllSubscribed
<1>8. Messaging!Run => Start!Run
  BY DEF Messaging!Run, Start!Run
<1>9. Messaging!Verify => Start!Verify
  BY DEF Messaging!Verify, Start!Verify
<1>10. ASSUME NEW t, Messaging!CreateTopic(t) PROVE Start!CreateTopic(t)
  BY <1>10 DEF Messaging!CreateTopic, Start!CreateTopic,
     Messaging!AdminAnswers, Start!AdminAnswers, Messaging!AdminFails, Start!AdminFails
<1>11. ASSUME NEW t, Messaging!SubscribeTopic(t) PROVE Start!SubscribeTopic(t)
  BY <1>11 DEF Messaging!SubscribeTopic, Start!SubscribeTopic
<1>12. Messaging!SendConnects => Start!SendConnects
  BY DEF Messaging!SendConnects, Start!SendConnects
<1>13. Messaging!Destroy => Start!Destroy
  BY DEF Messaging!Destroy, Start!Destroy
<1>14. Messaging!Exit => Start!Exit
  BY DEF Messaging!Exit, Start!Exit
<1>15. ASSUME NEW t, Messaging!Propagate(t) PROVE Start!Propagate(t)
  BY <1>15 DEF Messaging!Propagate, Start!Propagate
<1>16. QED
  BY <1>1, <1>2, <1>3, <1>4, <1>5, <1>6, <1>7, <1>8, <1>9, <1>10, <1>11, <1>12, <1>13,
     <1>14, <1>15
     DEF Messaging!Next, Start!Next, Messaging!Start, Start!Start

LEMMA StartStep == [Next]_vars => [Start!Next]_(Start!vars)
<1>1. CASE AtStart /\ Messaging!Next
  BY <1>1, StartNext
<1>2. CASE \/ AtCommands \/ AtQueries \/ AtReferrals \/ AtTraces \/ UNCHANGED vars
  <2>1. UNCHANGED startVars
    BY <1>2 DEF AtCommands, AtQueries, AtReferrals, AtTraces, vars
  <2>2. QED
    BY <2>1, StartStays
<1>3. QED
  BY <1>1, <1>2 DEF Next, Query

LEMMA PartsStart == Spec => Start!Spec
BY StartInit, StartStep, PTL DEF Spec, Start!Spec

\* Beside the other parts too, a consumer runs only when it is subscribed to every
\* topic, and a module that is up has one.
THEOREM ConsumerSubscribed == Spec => []UpIsSubscribed
<1>1. Start!UpIsSubscribed => UpIsSubscribed
  BY DEF UpIsSubscribed, Messaging!UpIsSubscribed, Start!UpIsSubscribed
<1>2. Start!Spec => []Start!UpIsSubscribed
  BY Start!ConsumerSubscribed, StartWellPosed
<1>3. QED
  BY <1>1, <1>2, PartsStart, PTL

\* No topic is subscribed to before the broker shows it.
THEOREM SubscribedListed == Spec => []SubscribedAreListed
<1>1. Start!SubscribedAreListed => SubscribedAreListed
  BY DEF SubscribedAreListed, Messaging!SubscribedAreListed, Start!SubscribedAreListed
<1>2. Start!Spec => []Start!SubscribedAreListed
  BY Start!SubscribedListed, StartWellPosed
<1>3. QED
  BY <1>1, <1>2, PartsStart, PTL

\* The service implements Startup: one attempt at a time, MaxRetries retries and no
\* more, and up until the process ends.
THEOREM StartImplements == Spec => ImplementsStartup
<1>1. Start!Spec => Start!ImplementsStartup
  BY Start!Implements, StartWellPosed
<1>2. Start!AbstractStatus = Messaging!AbstractStatus
  BY DEF Start!AbstractStatus, Messaging!AbstractStatus
<1>3. Start!StartupSpec!Init <=> Messaging!StartupSpec!Init
  BY <1>2 DEF Start!StartupSpec!Init, Messaging!StartupSpec!Init
<1>4. [Start!StartupSpec!Next]_(<<Start!AbstractStatus, attempt>>) <=>
      [Messaging!StartupSpec!Next]_(<<Messaging!AbstractStatus, attempt>>)
  BY DEF Start!StartupSpec!Next, Messaging!StartupSpec!Next, Start!AbstractStatus,
         Messaging!AbstractStatus, Start!StartupSpec!Try, Messaging!StartupSpec!Try,
         Start!StartupSpec!Succeed, Messaging!StartupSpec!Succeed,
         Start!StartupSpec!Fail, Messaging!StartupSpec!Fail,
         Start!StartupSpec!Stop, Messaging!StartupSpec!Stop
<1>5. QED
  BY <1>1, <1>3, <1>4, PartsStart, PTL
     DEF ImplementsStartup, Messaging!ImplementsStartup, Start!ImplementsStartup,
         Messaging!StartupSpec!Spec, Start!StartupSpec!Spec

-----------------------------------------------------------------------------
(* The traces.  The part has no other proof than this one.                 *)

\* A method that has not ended has given nothing to its caller.
NothingEarly ==
    \A c \in Invocation : place[c] \in {"idle", "method"} => result[c] = NoOutcome

\* What no failure and no other call has hit is under way and has arrived nowhere, or
\* is answered or done and has arrived on one of the two ways.
Unhit(c) ==
    /\ place[c] \notin {"broken", "hung"}
    /\ place[c] \notin {"httpBody", "done"} => arrived[c] = {}
    /\ place[c] = "httpBody" => arrived[c] = {"http"}
    /\ place[c] = "done" => arrived[c] \in {{"kafka"}, {"http"}}

UnhitArrive == \A c \in Invocation : c \notin hit => Unhit(c)

TracesHold ==
    /\ Traces!TypeOK
    /\ NothingEarly
    /\ Traces!OutcomeKept
    /\ UnhitArrive

LEMMA TracesHoldInit == ASSUME Traces!Init PROVE TracesHold
<1> USE DEF Traces!Init
<1>1. Traces!TypeOK
  <2>1. failures \in 0 .. MaxFailures
    BY PartsAssumption DEF Traces!WellPosed
  <2>2. QED
    BY <2>1 DEF Traces!TypeOK, Traces!Place
<1>2. NothingEarly /\ Traces!OutcomeKept
  BY DEF NothingEarly, Traces!OutcomeKept
<1>3. UnhitArrive
  BY DEF UnhitArrive, Unhit
<1>4. QED
  BY <1>1, <1>2, <1>3 DEF TracesHold

LEMMA TraceFailures ==
    ASSUME failures \in 0 .. MaxFailures, Traces!Failure
    PROVE  failures' \in 0 .. MaxFailures
BY PartsAssumption DEF Traces!Failure, Traces!WellPosed

LEMMA InvokeTraces ==
    ASSUME TracesHold, NEW c \in Invocation, Traces!Invoke(c)
    PROVE  TracesHold'
<1> USE DEF TracesHold, Traces!Invoke
<1>1. Traces!TypeOK'
  BY DEF Traces!TypeOK, Traces!Place
<1>2. NothingEarly' /\ Traces!OutcomeKept'
  BY DEF Traces!TypeOK, NothingEarly, Traces!OutcomeKept
<1>3. UnhitArrive'
  BY DEF Traces!TypeOK, UnhitArrive, Unhit
<1>4. QED
  BY <1>1, <1>2, <1>3

\* Only a method that is running ends: its caller has got nothing yet.
LEMMA MethodEndsTraces ==
    ASSUME TracesHold, NEW c \in Invocation, Traces!MethodEnds(c) PROVE TracesHold'
<1> USE DEF TracesHold, Traces!MethodEnds
<1>1. place'[c] \in {"httpConnect", "kafkaSend", "kafkaConnect"}
  BY DEF Traces!TypeOK
<1>2. \A d \in Invocation \ {c} : place'[d] = place[d] /\ outcome'[d] = outcome[d]
  BY DEF Traces!TypeOK
<1>3. Traces!TypeOK'
  <2>1. place' \in [Invocation -> Traces!Place]
    BY DEF Traces!TypeOK, Traces!Place
  <2>2. outcome' \in [Invocation -> Traces!Outcome \union {NoOutcome}]
    BY DEF Traces!TypeOK
  <2>3. connecting' \in BOOLEAN
    BY DEF Traces!TypeOK
  <2>4. QED
    BY <2>1, <2>2, <2>3 DEF Traces!TypeOK
<1>4. NothingEarly' /\ Traces!OutcomeKept'
  BY <1>1, <1>2 DEF Traces!TypeOK, NothingEarly, Traces!OutcomeKept
<1>5. UnhitArrive'
  BY <1>1, <1>2 DEF Traces!TypeOK, UnhitArrive, Unhit
<1>6. QED
  BY <1>3, <1>4, <1>5

LEMMA ProducerConnectsTraces ==
    ASSUME TracesHold, Traces!ProducerConnects
    PROVE  TracesHold'
<1> USE DEF TracesHold, Traces!ProducerConnects, Traces!Waiting
<1>1. Traces!TypeOK'
  BY DEF Traces!TypeOK, Traces!Place
<1>2. NothingEarly' /\ Traces!OutcomeKept'
  BY DEF Traces!TypeOK, NothingEarly, Traces!OutcomeKept
<1>3. UnhitArrive'
  BY DEF Traces!TypeOK, UnhitArrive, Unhit
<1>4. QED
  BY <1>1, <1>2, <1>3

LEMMA ProducerFailsTraces == ASSUME TracesHold, Traces!ProducerFails PROVE TracesHold'
<1> USE DEF TracesHold, Traces!ProducerFails, Traces!Waiting
<1>1. Traces!TypeOK'
  BY TraceFailures DEF Traces!TypeOK, Traces!Place
<1>2. NothingEarly' /\ Traces!OutcomeKept'
  BY DEF Traces!TypeOK, NothingEarly, Traces!OutcomeKept
<1>3. UnhitArrive'
  BY DEF Traces!TypeOK, UnhitArrive, Unhit
<1>4. QED
  BY <1>1, <1>2, <1>3

LEMMA KafkaSentTraces ==
    ASSUME TracesHold, NEW c \in Invocation, Traces!KafkaSent(c) PROVE TracesHold'
<1> USE DEF TracesHold, Traces!KafkaSent, Traces!Return
<1>1. Traces!TypeOK'
  BY DEF Traces!TypeOK, Traces!Place
<1>2. NothingEarly' /\ Traces!OutcomeKept'
  BY DEF Traces!TypeOK, NothingEarly, Traces!OutcomeKept
<1>3. UnhitArrive'
  BY DEF Traces!TypeOK, UnhitArrive, Unhit
<1>4. QED
  BY <1>1, <1>2, <1>3

LEMMA KafkaSendFailsTraces ==
    ASSUME TracesHold, NEW c \in Invocation, Traces!KafkaSendFails(c) PROVE TracesHold'
<1> USE DEF TracesHold, Traces!KafkaSendFails
<1>1. Traces!TypeOK'
  BY TraceFailures DEF Traces!TypeOK, Traces!Place
<1>2. NothingEarly' /\ Traces!OutcomeKept'
  BY DEF Traces!TypeOK, NothingEarly, Traces!OutcomeKept
<1>3. UnhitArrive'
  BY DEF Traces!TypeOK, UnhitArrive, Unhit
<1>4. QED
  BY <1>1, <1>2, <1>3

LEMMA HttpProbedTraces ==
    ASSUME TracesHold, NEW c \in Invocation, Traces!HttpProbed(c) PROVE TracesHold'
<1> USE DEF TracesHold, Traces!HttpProbed
<1>1. Traces!TypeOK'
  BY DEF Traces!TypeOK, Traces!Place
<1>2. NothingEarly' /\ Traces!OutcomeKept'
  BY DEF Traces!TypeOK, NothingEarly, Traces!OutcomeKept
<1>3. UnhitArrive'
  BY DEF Traces!TypeOK, UnhitArrive, Unhit
<1>4. QED
  BY <1>1, <1>2, <1>3

\* What closing the client does to the calls: it is done with its own, breaks those
\* that are sending and cuts off those that are being answered.
LEMMA TraceClosed ==
    ASSUME Traces!TypeOK, NothingEarly, Traces!OutcomeKept, UNCHANGED outcome,
           NEW c \in Invocation, place[c] \in {"httpSend", "httpBody", "broken"},
           Traces!CloseAndReturn(c)
    PROVE  /\ place' \in [Invocation -> Traces!Place]
           /\ result' \in [Invocation -> Traces!Outcome \union {NoOutcome}]
           /\ httpConnected' \in BOOLEAN
           /\ place'[c] = "done"
           /\ \A d \in Invocation \ {c} :
                 d \notin Traces!Broken(c) => place'[d] = place[d]
           /\ NothingEarly' /\ Traces!OutcomeKept'
<1> USE DEF Traces!CloseAndReturn, Traces!Return, Traces!AfterClose
<1>1. \A d \in Invocation :
         /\ place'[d] = Traces!AfterClose(c, d)
         /\ result'[d] = IF d = c THEN outcome[c] ELSE result[d]
  BY DEF Traces!TypeOK
<1>2. place'[c] = "done"
  BY <1>1
<1>3. \A d \in Invocation \ {c} :
         /\ place[d] \in Traces!Place
         /\ place[d] = "httpSend" => place'[d] = "broken"
         /\ place[d] = "httpBody" => place'[d] = "hung"
         /\ place[d] \notin {"httpSend", "httpBody"} => place'[d] = place[d]
  BY <1>1 DEF Traces!TypeOK
<1>4. /\ place' \in [Invocation -> Traces!Place]
      /\ result' \in [Invocation -> Traces!Outcome \union {NoOutcome}]
      /\ httpConnected' \in BOOLEAN
  <2>1. \A d \in Invocation : place'[d] \in Traces!Place
    BY <1>2, <1>3 DEF Traces!Place
  <2>2. QED
    BY <2>1 DEF Traces!TypeOK
<1>5. NothingEarly' /\ Traces!OutcomeKept'
  BY <1>1, <1>2, <1>3 DEF NothingEarly, Traces!OutcomeKept
<1>6. QED
  BY <1>2, <1>3, <1>4, <1>5 DEF Traces!Broken

LEMMA HttpAnsweredTraces ==
    ASSUME TracesHold, NEW c \in Invocation, Traces!HttpAnswered(c) PROVE TracesHold'
<1> USE DEF TracesHold, Traces!HttpAnswered, Traces!Arrive
<1>1. Traces!TypeOK'
  <2>1. failures' \in 0 .. MaxFailures
    BY TraceFailures DEF Traces!TypeOK
  <2>2. place' \in [Invocation -> Traces!Place] /\ hit' \subseteq Invocation
    BY DEF Traces!TypeOK, Traces!Place
  <2>3. arrived' \in [Invocation -> SUBSET {"kafka", "http"}]
    BY DEF Traces!TypeOK
  <2>4. QED
    BY <2>1, <2>2, <2>3 DEF Traces!TypeOK
<1>2. NothingEarly' /\ Traces!OutcomeKept'
  BY DEF Traces!TypeOK, NothingEarly, Traces!OutcomeKept
<1>3. UnhitArrive'
  <2>1. ASSUME NEW d \in Invocation, d \notin hit' PROVE Unhit(d)'
    <3>1. d \notin hit /\ Unhit(d)
      BY <2>1 DEF UnhitArrive
    <3>2. CASE d = c
      BY <2>1, <3>1, <3>2 DEF Traces!TypeOK, Unhit
    <3>3. CASE d # c
      BY <3>1, <3>3 DEF Traces!TypeOK, Unhit
    <3>4. QED
      BY <3>2, <3>3
  <2>2. QED
    BY <2>1 DEF UnhitArrive
<1>4. QED
  BY <1>1, <1>2, <1>3

LEMMA HttpSentTraces ==
    ASSUME TracesHold, NEW c \in Invocation, Traces!HttpSent(c) PROVE TracesHold'
<1> USE DEF TracesHold, Traces!HttpSent
<1>1. Traces!TypeOK' /\ NothingEarly' /\ Traces!OutcomeKept'
  BY TraceClosed DEF Traces!TypeOK, Traces!Broken
<1>2. UnhitArrive'
  BY TraceClosed DEF Traces!TypeOK, UnhitArrive, Unhit
<1>3. QED
  BY <1>1, <1>2

LEMMA HttpSendFailsTraces ==
    ASSUME TracesHold, NEW c \in Invocation, Traces!HttpSendFails(c) PROVE TracesHold'
<1> USE DEF TracesHold, Traces!HttpSendFails, Traces!MayArrive, Traces!Arrive
<1>1. /\ arrived' \in [Invocation -> SUBSET {"kafka", "http"}]
      /\ \A d \in Invocation \ {c} : arrived'[d] = arrived[d]
  BY DEF Traces!TypeOK
<1>2. Traces!TypeOK' /\ NothingEarly' /\ Traces!OutcomeKept'
  BY <1>1, TraceClosed, TraceFailures DEF Traces!TypeOK, Traces!Broken
<1>3. UnhitArrive'
  BY <1>1, TraceClosed DEF UnhitArrive, Unhit
<1>4. QED
  BY <1>2, <1>3

LEMMA AnswerCutTraces ==
    ASSUME TracesHold, NEW c \in Invocation, Traces!AnswerCut(c) PROVE TracesHold'
<1> USE DEF TracesHold, Traces!AnswerCut
<1>1. Traces!TypeOK'
  BY TraceFailures DEF Traces!TypeOK, Traces!Place
<1>2. NothingEarly' /\ Traces!OutcomeKept'
  BY DEF Traces!TypeOK, NothingEarly, Traces!OutcomeKept
<1>3. UnhitArrive'
  BY DEF Traces!TypeOK, UnhitArrive, Unhit
<1>4. QED
  BY <1>1, <1>2, <1>3

LEMMA BrokenSettlesTraces ==
    ASSUME TracesHold, NEW c \in Invocation, Traces!BrokenSettles(c) PROVE TracesHold'
<1> USE DEF TracesHold, Traces!BrokenSettles, Traces!MayArrive, Traces!Arrive
<1>1. /\ arrived' \in [Invocation -> SUBSET {"kafka", "http"}]
      /\ \A d \in Invocation \ {c} : arrived'[d] = arrived[d]
  BY DEF Traces!TypeOK
<1>2. Traces!TypeOK' /\ NothingEarly' /\ Traces!OutcomeKept'
  BY <1>1, TraceClosed DEF Traces!TypeOK, Traces!Broken
<1>3. UnhitArrive'
  BY <1>1, TraceClosed DEF UnhitArrive, Unhit
<1>4. QED
  BY <1>2, <1>3

LEMMA TracesNext == ASSUME TracesHold, [Traces!Next]_(Traces!vars) PROVE TracesHold'
<1>1. ASSUME NEW c \in Invocation, Traces!Invoke(c) \/ Traces!Deliver(c)
      PROVE  TracesHold'
  BY <1>1, InvokeTraces, MethodEndsTraces, KafkaSentTraces, KafkaSendFailsTraces,
     HttpProbedTraces, HttpAnsweredTraces, HttpSentTraces, HttpSendFailsTraces,
     AnswerCutTraces, BrokenSettlesTraces DEF Traces!Deliver
<1>2. CASE Traces!Connect
  BY <1>2, ProducerConnectsTraces, ProducerFailsTraces DEF Traces!Connect
<1>3. CASE UNCHANGED Traces!vars
  BY <1>3 DEF Traces!vars, TracesHold, Traces!TypeOK, NothingEarly, Traces!OutcomeKept,
     UnhitArrive, Unhit
<1>4. QED
  BY <1>1, <1>2, <1>3 DEF Traces!Next

LEMMA TracesHeld == Spec => []TracesHold
<1>1. Init => TracesHold
  BY TracesHoldInit DEF Init
<1>2. TracesHold /\ [Next]_vars => TracesHold'
  <2>1. ASSUME AtCommands \/ AtQueries \/ AtReferrals \/ AtStart \/ UNCHANGED vars
        PROVE  UNCHANGED Traces!vars
    BY <2>1
       DEF AtCommands, AtQueries, AtReferrals, AtStart, vars, traceVars, Traces!vars
  <2>2. [Next]_vars => [Traces!Next]_(Traces!vars)
    BY <2>1 DEF Next, Query
  <2>3. QED
    BY <2>2, TracesNext
<1>3. QED
  BY <1>1, <1>2, PTL DEF Spec

\* No failure on the way of a trace changes what the caller of a decorated method
\* gets: what the method did.
THEOREM OutcomeIsKept == Spec => []OutcomeKept
<1>1. TracesHold => OutcomeKept
  BY DEF TracesHold, OutcomeKept
<1>2. QED
  BY <1>1, TracesHeld, PTL

\* A trace that neither a failure nor another call has hit arrives exactly once, and
\* its call returns.
THEOREM LossIsExplained == Spec => []LossExplained
<1>1. Cardinality({"kafka"}) = 1 /\ Cardinality({"http"}) = 1
  BY FS_Singleton
<1>2. \A S : Traces!Cardinality(S) = Cardinality(S)
  BY DEF Traces!Cardinality, Cardinality
<1>3. TracesHold => LossExplained
  BY <1>1, <1>2
     DEF TracesHold, UnhitArrive, Unhit, LossExplained, Traces!LossExplained
<1>4. QED
  BY <1>3, TracesHeld, PTL

-----------------------------------------------------------------------------
(* The read model.                                                         *)

ReadModel == INSTANCE ReferralReadModelProofs WITH
    stage <- progress, writes <- changes, MaxWrites <- MaxChanges

LEMMA ReadModelWellPosed == ReadModel!WellPosed
BY PartsAssumption DEF Referrals!WellPosed, ReadModel!WellPosed,
       Referrals!AuthModes, ReadModel!AuthModes

LEMMA ReadModelInit == Init => ReadModel!Init
BY Zenon DEF Init, ReferralsAtRest, Referrals!Init, ReadModel!Init, Referrals!Call,
       ReadModel!Call

LEMMA ReadModelStays == UNCHANGED referralVars => UNCHANGED ReadModel!vars
BY DEF ReadModel!vars, ReadModel!tokenVars, ReadModel!requestVars, referralVars

LEMMA ReadModelNext == Referrals!Next => ReadModel!Next
<1> USE DEF Referrals!Call, ReadModel!Call, Referrals!tokenVars, ReadModel!tokenVars,
            Referrals!requestVars, ReadModel!requestVars, Referrals!InFlight,
            ReadModel!InFlight, Referrals!Fresh, ReadModel!Fresh, Referrals!Opened,
            ReadModel!Opened, Referrals!Open, ReadModel!Open, Referrals!Answered,
            ReadModel!Answered, Referrals!Goto, ReadModel!Goto, Referrals!BothSnapshots,
            ReadModel!BothSnapshots, Referrals!AllWallets, ReadModel!AllWallets
<1>1. ASSUME NEW r, Referrals!Ask(r) PROVE ReadModel!Ask(r)
  BY <1>1 DEF Referrals!Ask, ReadModel!Ask
<1>2. ASSUME NEW r, Referrals!FindRoot(r) PROVE ReadModel!FindRoot(r)
  BY <1>2 DEF Referrals!FindRoot, ReadModel!FindRoot
<1>3. ASSUME NEW r, Referrals!TreeAnswered(r) PROVE ReadModel!TreeAnswered(r)
  BY <1>3 DEF Referrals!TreeAnswered, ReadModel!TreeAnswered
<1>4. ASSUME NEW r, Referrals!BuildSynthetic(r) PROVE ReadModel!BuildSynthetic(r)
  BY <1>4 DEF Referrals!BuildSynthetic, ReadModel!BuildSynthetic
<1>5. ASSUME NEW r, Referrals!FindNodes(r) PROVE ReadModel!FindNodes(r)
  BY <1>5 DEF Referrals!FindNodes, ReadModel!FindNodes, Referrals!Range, ReadModel!Range
<1>6. ASSUME NEW r, Referrals!FindFails(r) PROVE ReadModel!FindFails(r)
  BY <1>6 DEF Referrals!FindFails, ReadModel!FindFails
<1>7. ASSUME NEW r, Referrals!AskWalletsAgain(r) PROVE ReadModel!AskWalletsAgain(r)
  BY <1>7 DEF Referrals!AskWalletsAgain, ReadModel!AskWalletsAgain
<1>8. ASSUME NEW r, Referrals!Answer(r) PROVE ReadModel!Answer(r)
  BY <1>8 DEF Referrals!Answer, ReadModel!Answer
<1>9. ASSUME NEW r, NEW k, Referrals!LoginGranted(r, k)
      PROVE  ReadModel!LoginGranted(r, k)
  BY <1>9 DEF Referrals!LoginGranted, ReadModel!LoginGranted
<1>10. ASSUME NEW r, NEW k, Referrals!LoginRefused(r, k)
       PROVE  ReadModel!LoginRefused(r, k)
  BY <1>10 DEF Referrals!LoginRefused, ReadModel!LoginRefused
<1>11. ASSUME NEW r, NEW k, Referrals!SnapshotAnswered(r, k)
       PROVE  ReadModel!SnapshotAnswered(r, k)
  BY <1>11, Zenon DEF Referrals!SnapshotAnswered, ReadModel!SnapshotAnswered
<1>12. ASSUME NEW r, NEW k, Referrals!WalletAnswered(r, k)
       PROVE  ReadModel!WalletAnswered(r, k)
  BY <1>12, Zenon DEF Referrals!WalletAnswered, ReadModel!WalletAnswered
<1>13. Referrals!Tick => ReadModel!Tick
  BY DEF Referrals!Tick, ReadModel!Tick
<1>14. ASSUME NEW u, Referrals!Change(u) PROVE ReadModel!Change(u)
  BY <1>14 DEF Referrals!Change, ReadModel!Change
<1>15. QED
  BY <1>1, <1>2, <1>3, <1>4, <1>5, <1>6, <1>7, <1>8, <1>9, <1>10, <1>11, <1>12, <1>13,
     <1>14
     DEF Referrals!Next, ReadModel!Next, Referrals!Step, ReadModel!Step

LEMMA ReadModelStep == [Next]_vars => [ReadModel!Next]_(ReadModel!vars)
<1>1. CASE AtReferrals /\ Referrals!Next
  BY <1>1, ReadModelNext
<1>2. CASE AtCommands \/ AtQueries \/ AtTraces \/ AtStart \/ UNCHANGED vars
  <2>1. UNCHANGED referralVars
    BY <1>2 DEF AtCommands, AtQueries, AtTraces, AtStart, vars
  <2>2. QED
    BY <2>1, ReadModelStays
<1>3. QED
  BY <1>1, <1>2 DEF Next, Query

LEMMA PartsReadModel == Spec => ReadModel!Spec
BY ReadModelInit, ReadModelStep, PTL DEF Spec, ReadModel!Spec

\* A request is refused only for a root customer or a user that is not there.
THEOREM RefusalsJustified == Spec => []RefusalJustified
<1>1. ReadModel!RefusalJustified => RefusalJustified
  BY DEF RefusalJustified, Referrals!RefusalJustified, ReadModel!RefusalJustified,
         Referrals!Call, ReadModel!Call
<1>2. ReadModel!Spec => []ReadModel!RefusalJustified
  BY ReadModel!RefusalsJustified, ReadModelWellPosed
<1>3. QED
  BY <1>1, <1>2, PartsReadModel, PTL

\* A call that takes the cached token takes one that is good for longer than the
\* margin.
THEOREM CachedInTime == Spec => CachedTokenInTime
<1>1. ReadModel!Spec => ReadModel!CachedTokenInTime
  BY ReadModel!CachedInTime, ReadModelWellPosed
<1>2. [\A r \in ReadRequest, k \in ReadModel!Call :
           call'[r][k] = "cached" /\ call[r][k] # "cached" =>
              \/ internalAccessToken.stated # "time"
              \/ now + Margin < internalAccessToken.expires]_(ReadModel!vars)
      <=>
      [\A r \in ReadRequest, k \in Referrals!Call :
           call'[r][k] = "cached" /\ call[r][k] # "cached" =>
              \/ internalAccessToken.stated # "time"
              \/ now + Margin < internalAccessToken.expires]_(Referrals!vars)
  BY DEF ReadModel!vars, ReadModel!tokenVars, ReadModel!requestVars, ReadModel!Call,
         Referrals!vars, Referrals!tokenVars, Referrals!requestVars, Referrals!Call
<1>3. QED
  BY <1>1, <1>2, PartsReadModel, PTL
     DEF CachedTokenInTime, Referrals!CachedTokenInTime, ReadModel!CachedTokenInTime

-----------------------------------------------------------------------------
(* The queries.  They take the same steps on the rows of every module.     *)

Queries == INSTANCE EntityQueriesProofs WITH
    Id <- RowId, Value <- Column, InitialHeap <- Heap["customer"],
    MaxWrites <- MaxTableWrites

LEMMA QueriesWellPosed == Queries!WellPosed
BY PartsAssumption DEF CustomerReads!Entity!WellPosed, Queries!WellPosed,
       CustomerReads!Entity!IsFiniteSet, Queries!IsFiniteSet

LEMMA PageSize == PageOfOne \in Size
BY PartsAssumption

LEMMA PresentIds == Queries!TypeOK => \A row \in heap : row.id \in RowId
BY DEF Queries!TypeOK, Queries!Row

LEMMA QueriesStay == UNCHANGED queryVars => UNCHANGED Queries!vars
BY DEF queryVars, Queries!vars, Queries!reading

-----------------------------------------------------------------------------
(* The queries on customers.                                               *)

LEMMA CustomerReadsRows ==
    /\ \A S : CustomerReads!Entity!Cardinality(S) = Queries!Cardinality(S)
    /\ \A q : /\ CustomerReads!Entity!Matches(q) = Queries!Matches(q)
              /\ CustomerReads!Entity!Results(q) = Queries!Results(q)
    /\ \A id : CustomerReads!Entity!Others(id) = Queries!Others(id)
<1>1. \A S : CustomerReads!Entity!Cardinality(S) = Queries!Cardinality(S)
  BY DEF CustomerReads!Entity!Cardinality, Queries!Cardinality
<1>2. \A q : CustomerReads!Entity!Matches(q) = Queries!Matches(q)
  BY DEF CustomerReads!Entity!Matches, Queries!Matches
<1>3. \A id : CustomerReads!Entity!Others(id) = Queries!Others(id)
  BY DEF CustomerReads!Entity!Others, Queries!Others
<1>4. \A q : CustomerReads!Entity!Window(q) = Queries!Window(q)
  BY <1>1 DEF CustomerReads!Entity!Window, Queries!Window
<1>5. \A q : CustomerReads!Entity!First(q) = Queries!First(q)
  BY <1>2 DEF CustomerReads!Entity!First, Queries!First
<1>6. \A q : CustomerReads!Entity!Results(q) = Queries!Results(q)
  BY <1>2, <1>4, <1>5 DEF CustomerReads!Entity!Results, Queries!Results, CustomerReads!Entity!One,
     Queries!One
<1>7. QED
  BY <1>1, <1>2, <1>3, <1>6

LEMMA CustomerReadsNext == Queries!TypeOK /\ CustomerReads!Next => Queries!Next
<1> SUFFICES ASSUME Queries!TypeOK PROVE CustomerReads!Next => Queries!Next
  OBVIOUS
<1>1. ASSUME NEW r \in Reader, NEW op, op # "findWithPagination",
             NEW conditions, CustomerReads!Entity!AskFor(r, op, conditions),
             op \in Queries!Op
      PROVE  Queries!Next
  <2>1. PICK by \in Queries!Conditions(op) :
            Queries!Ask(r, [op |-> op, by |-> by, page |-> 1,
                            size |-> CHOOSE s \in Size : TRUE])
    BY <1>1, Zenon DEF CustomerReads!Entity!Ask, Queries!Ask,
       CustomerReads!Entity!Settled,
       Queries!Settled, CustomerReads!Entity!Conditions, Queries!Conditions,
       CustomerReads!Entity!AskFor
  <2>2. QED
    BY <1>1, <2>1 DEF Queries!Next, Queries!AskAny, Queries!AskFor
<1>2. ASSUME NEW r \in Reader, NEW size \in Size,
             CustomerReads!Entity!Turn(r, size) \/ CustomerReads!Entity!TurnToZero(r, size)
      PROVE  Queries!Next
  <2>1. \A q : CustomerReads!Entity!Ask(r, q) => Queries!Ask(r, q)
    BY DEF CustomerReads!Entity!Ask, Queries!Ask, CustomerReads!Entity!Settled, Queries!Settled
  <2>2. CustomerReads!Entity!Turn(r, size) => Queries!Turn(r, size)
    BY <2>1 DEF CustomerReads!Entity!Turn, Queries!Turn, CustomerReads!Entity!PageQuery,
       Queries!PageQuery
  <2>3. CustomerReads!Entity!TurnToZero(r, size) => Queries!TurnToZero(r, size)
    BY <2>1 DEF CustomerReads!Entity!TurnToZero, Queries!TurnToZero, CustomerReads!Entity!PageQuery,
       Queries!PageQuery
  <2>4. QED
    BY <1>2, <2>2, <2>3 DEF Queries!Next
<1>3. ASSUME NEW r \in Reader,
             \/ CustomerReads!Entity!Select(r) \/ CustomerReads!Entity!Count(r)
             \/ CustomerReads!Entity!Answer(r) \/ CustomerReads!Entity!Fail(r)
      PROVE  Queries!Next
  <2>1. CustomerReads!Entity!Select(r) => Queries!Select(r)
    BY CustomerReadsRows DEF CustomerReads!Entity!Select, Queries!Select,
       CustomerReads!Entity!Counted, Queries!Counted
  <2>2. CustomerReads!Entity!Count(r) => Queries!Count(r)
    BY CustomerReadsRows, Zenon DEF CustomerReads!Entity!Count, Queries!Count,
       CustomerReads!Entity!AtCount, Queries!AtCount
  <2>3. CustomerReads!Entity!Answer(r) => Queries!Answer(r)
    BY DEF CustomerReads!Entity!Answer, Queries!Answer, CustomerReads!Entity!One,
       Queries!One
  <2>4. CustomerReads!Entity!Fail(r) => Queries!Fail(r)
    BY DEF CustomerReads!Entity!Fail, Queries!Fail
  <2>5. QED
    BY <1>3, <2>1, <2>2, <2>3, <2>4 DEF Queries!Next, Queries!ReadStep
<1>4. ASSUME NEW id \in RowId, CustomerReads!Entity!Delete(id) PROVE Queries!Next
  <2>1. Queries!Delete(id)
    BY <1>4, CustomerReadsRows DEF CustomerReads!Entity!Delete, Queries!Delete,
       CustomerReads!Entity!Write, Queries!Write, CustomerReads!Entity!Present,
       Queries!Present
  <2>2. QED
    BY <2>1 DEF Queries!Next
<1>5. ASSUME NEW id \in RowId, NEW value \in Column, CustomerReads!Entity!Save(id,
    value)
      PROVE  Queries!Next
  <2>1. Queries!Save(id, value)
    BY <1>5, CustomerReadsRows DEF CustomerReads!Entity!Save, Queries!Save,
       CustomerReads!Entity!Write, Queries!Write
  <2>2. QED
    BY <2>1 DEF Queries!Next
<1>6. ASSUME NEW r \in Reader, CustomerReads!Controller(r) PROVE Queries!Next
  BY <1>1, <1>2, <1>6, PageSize DEF CustomerReads!Controller,
     CustomerReads!ControllerFindAll, CustomerReads!ControllerFindByField,
     CustomerReads!ControllerFindWithPagination, CustomerReads!ControllerCount,
     CustomerReads!ControllerFindAndCount, CustomerReads!ControllerFindOne,
     CustomerReads!ControllerFindOneOrFail, CustomerReads!ControllerFindById,
     CustomerReads!Entity!AskAny, Queries!Op, Queries!One, Queries!Counted
<1>7. ASSUME NEW r \in Reader, CustomerReads!Resolver(r) PROVE Queries!Next
  BY <1>1, <1>2, <1>7, PageSize DEF CustomerReads!Resolver, CustomerReads!customers,
     CustomerReads!customer, CustomerReads!customersByField,
     CustomerReads!customersWithPagination, CustomerReads!totalCustomers,
     CustomerReads!searchCustomers, CustomerReads!findOneCustomer,
     CustomerReads!findOneCustomerOrFail, CustomerReads!Entity!AskAny, Queries!Op,
     Queries!One, Queries!Counted
<1>8. ASSUME NEW r \in Reader, CustomerReads!Handler(r) PROVE Queries!Next
  BY <1>1, <1>2, <1>8, PageSize DEF CustomerReads!Handler,
     CustomerReads!GetAllCustomerHandler, CustomerReads!GetCustomerByFieldHandler,
     CustomerReads!GetCustomerByIdHandler, CustomerReads!Entity!AskAny, Queries!Op,
     Queries!One, Queries!Counted
<1>9. ASSUME NEW r \in Reader, CustomerReads!Facade(r) PROVE Queries!Next
  BY <1>1, <1>2, <1>9, PageSize DEF CustomerReads!Facade, CustomerReads!facadeFindAll,
     CustomerReads!facadeFindById, CustomerReads!facadeFindWithPagination,
     CustomerReads!facadeCount, CustomerReads!facadeFindAndCount,
     CustomerReads!facadeFindOne, CustomerReads!facadeFindOneOrFail,
     CustomerReads!Entity!AskAny, Queries!Op, Queries!One, Queries!Counted
<1>10. ASSUME NEW r \in Reader, CustomerReads!Service(r) PROVE Queries!Next
  BY <1>3, <1>10 DEF CustomerReads!Service, CustomerReads!Answers,
     CustomerReads!ServiceFindAll, CustomerReads!ServiceFindById,
     CustomerReads!ServiceFindByField, CustomerReads!ServiceFindWithPagination,
     CustomerReads!ServiceCount, CustomerReads!ServiceFindAndCount,
     CustomerReads!ServiceFindOne, CustomerReads!ServiceFindOneOrFail
<1>11. ASSUME NEW r \in Reader, CustomerReads!Repository(r) PROVE Queries!Next
  BY <1>3, <1>11 DEF CustomerReads!Repository, CustomerReads!findAll,
     CustomerReads!findWithPagination, CustomerReads!count, CustomerReads!findAndCount,
     CustomerReads!findOne
<1>12. ASSUME CustomerReads!Write PROVE Queries!Next
  <2>1. CustomerReads!Entity!Present \subseteq RowId
    BY PresentIds DEF CustomerReads!Entity!Present
  <2>2. QED
    BY <1>4, <1>5, <1>12, <2>1 DEF CustomerReads!Write, CustomerReads!facadeCreate,
       CustomerReads!facadeUpdate, CustomerReads!facadeDelete
<1>13. QED
  BY <1>6, <1>7, <1>8, <1>9, <1>10, <1>11, <1>12 DEF CustomerReads!Next

LEMMA CustomerReadsInit == CustomerReads!Init => Queries!IInv
<1> SUFFICES ASSUME CustomerReads!Init PROVE Queries!IInv
  OBVIOUS
<1>1. /\ heap = Heap["customer"] /\ writes = 0
      /\ query = [r \in Reader |-> [op |-> "count", by |-> NoCondition, page |-> 1,
                                    size |-> CHOOSE s \in Size : TRUE]]
      /\ phase = [r \in Reader |-> "idle"]
      /\ data = [r \in Reader |-> {}] /\ total = [r \in Reader |-> 0]
      /\ pages = [r \in Reader |-> 0] /\ steady = [r \in Reader |-> TRUE]
  BY DEF CustomerReads!Init, CustomerReads!Entity!Init
<1>2. /\ heap \subseteq [id : RowId, value : Column] /\ Queries!IsFiniteSet(heap)
      /\ \A one, other \in heap : one.id = other.id => one = other
      /\ MaxTableWrites \in Nat
  BY <1>1, PartsAssumption DEF CustomerReads!Entity!WellPosed,
     CustomerReads!Entity!IsFiniteSet, Queries!IsFiniteSet
<1>3. QED
  BY <1>1, <1>2, QueriesWellPosed, Queries!RestInv

-----------------------------------------------------------------------------
(* The queries on gateway onboardings.                                     *)

LEMMA OnboardingReadsRows ==
    /\ \A S : OnboardingReads!Entity!Cardinality(S) = Queries!Cardinality(S)
    /\ \A q : /\ OnboardingReads!Entity!Matches(q) = Queries!Matches(q)
              /\ OnboardingReads!Entity!Results(q) = Queries!Results(q)
    /\ \A id : OnboardingReads!Entity!Others(id) = Queries!Others(id)
<1>1. \A S : OnboardingReads!Entity!Cardinality(S) = Queries!Cardinality(S)
  BY DEF OnboardingReads!Entity!Cardinality, Queries!Cardinality
<1>2. \A q : OnboardingReads!Entity!Matches(q) = Queries!Matches(q)
  BY DEF OnboardingReads!Entity!Matches, Queries!Matches
<1>3. \A id : OnboardingReads!Entity!Others(id) = Queries!Others(id)
  BY DEF OnboardingReads!Entity!Others, Queries!Others
<1>4. \A q : OnboardingReads!Entity!Window(q) = Queries!Window(q)
  BY <1>1 DEF OnboardingReads!Entity!Window, Queries!Window
<1>5. \A q : OnboardingReads!Entity!First(q) = Queries!First(q)
  BY <1>2 DEF OnboardingReads!Entity!First, Queries!First
<1>6. \A q : OnboardingReads!Entity!Results(q) = Queries!Results(q)
  BY <1>2, <1>4, <1>5 DEF OnboardingReads!Entity!Results, Queries!Results,
     OnboardingReads!Entity!One,
     Queries!One
<1>7. QED
  BY <1>1, <1>2, <1>3, <1>6

LEMMA OnboardingReadsNext == Queries!TypeOK /\ OnboardingReads!Next => Queries!Next
<1> SUFFICES ASSUME Queries!TypeOK PROVE OnboardingReads!Next => Queries!Next
  OBVIOUS
<1>1. ASSUME NEW r \in Reader, NEW op, op # "findWithPagination",
             NEW conditions, OnboardingReads!Entity!AskFor(r, op, conditions),
             op \in Queries!Op
      PROVE  Queries!Next
  <2>1. PICK by \in Queries!Conditions(op) :
            Queries!Ask(r, [op |-> op, by |-> by, page |-> 1,
                            size |-> CHOOSE s \in Size : TRUE])
    BY <1>1, Zenon DEF OnboardingReads!Entity!Ask, Queries!Ask,
       OnboardingReads!Entity!Settled,
       Queries!Settled, OnboardingReads!Entity!Conditions, Queries!Conditions,
       OnboardingReads!Entity!AskFor
  <2>2. QED
    BY <1>1, <2>1 DEF Queries!Next, Queries!AskAny, Queries!AskFor
<1>2. ASSUME NEW r \in Reader, NEW size \in Size,
             OnboardingReads!Entity!Turn(r, size) \/ OnboardingReads!Entity!TurnToZero(r, size)
      PROVE  Queries!Next
  <2>1. \A q : OnboardingReads!Entity!Ask(r, q) => Queries!Ask(r, q)
    BY DEF OnboardingReads!Entity!Ask, Queries!Ask, OnboardingReads!Entity!Settled, Queries!Settled
  <2>2. OnboardingReads!Entity!Turn(r, size) => Queries!Turn(r, size)
    BY <2>1 DEF OnboardingReads!Entity!Turn, Queries!Turn, OnboardingReads!Entity!PageQuery,
       Queries!PageQuery
  <2>3. OnboardingReads!Entity!TurnToZero(r, size) => Queries!TurnToZero(r, size)
    BY <2>1 DEF OnboardingReads!Entity!TurnToZero, Queries!TurnToZero,
       OnboardingReads!Entity!PageQuery,
       Queries!PageQuery
  <2>4. QED
    BY <1>2, <2>2, <2>3 DEF Queries!Next
<1>3. ASSUME NEW r \in Reader,
             \/ OnboardingReads!Entity!Select(r) \/ OnboardingReads!Entity!Count(r)
             \/ OnboardingReads!Entity!Answer(r) \/ OnboardingReads!Entity!Fail(r)
      PROVE  Queries!Next
  <2>1. OnboardingReads!Entity!Select(r) => Queries!Select(r)
    BY OnboardingReadsRows DEF OnboardingReads!Entity!Select, Queries!Select,
       OnboardingReads!Entity!Counted, Queries!Counted
  <2>2. OnboardingReads!Entity!Count(r) => Queries!Count(r)
    BY OnboardingReadsRows, Zenon DEF OnboardingReads!Entity!Count, Queries!Count,
       OnboardingReads!Entity!AtCount, Queries!AtCount
  <2>3. OnboardingReads!Entity!Answer(r) => Queries!Answer(r)
    BY DEF OnboardingReads!Entity!Answer, Queries!Answer, OnboardingReads!Entity!One,
       Queries!One
  <2>4. OnboardingReads!Entity!Fail(r) => Queries!Fail(r)
    BY DEF OnboardingReads!Entity!Fail, Queries!Fail
  <2>5. QED
    BY <1>3, <2>1, <2>2, <2>3, <2>4 DEF Queries!Next, Queries!ReadStep
<1>4. ASSUME NEW id \in RowId, OnboardingReads!Entity!Delete(id) PROVE Queries!Next
  <2>1. Queries!Delete(id)
    BY <1>4, OnboardingReadsRows DEF OnboardingReads!Entity!Delete, Queries!Delete,
       OnboardingReads!Entity!Write, Queries!Write, OnboardingReads!Entity!Present,
       Queries!Present
  <2>2. QED
    BY <2>1 DEF Queries!Next
<1>5. ASSUME NEW id \in RowId, NEW value \in Column, OnboardingReads!Entity!Save(id,
    value)
      PROVE  Queries!Next
  <2>1. Queries!Save(id, value)
    BY <1>5, OnboardingReadsRows DEF OnboardingReads!Entity!Save, Queries!Save,
       OnboardingReads!Entity!Write, Queries!Write
  <2>2. QED
    BY <2>1 DEF Queries!Next
<1>6. ASSUME NEW r \in Reader, OnboardingReads!Controller(r) PROVE Queries!Next
  BY <1>1, <1>2, <1>6, PageSize DEF OnboardingReads!Controller,
     OnboardingReads!ControllerFindAll, OnboardingReads!ControllerFindByField,
     OnboardingReads!ControllerFindWithPagination, OnboardingReads!ControllerCount,
     OnboardingReads!ControllerFindAndCount, OnboardingReads!ControllerFindOne,
     OnboardingReads!ControllerFindOneOrFail, OnboardingReads!ControllerFindById,
     OnboardingReads!Entity!AskAny, Queries!Op, Queries!One, Queries!Counted
<1>7. ASSUME NEW r \in Reader, OnboardingReads!Resolver(r) PROVE Queries!Next
  BY <1>1, <1>2, <1>7, PageSize DEF OnboardingReads!Resolver,
     OnboardingReads!customergatewayonboardings,
     OnboardingReads!customergatewayonboarding,
     OnboardingReads!customergatewayonboardingsByField,
     OnboardingReads!customergatewayonboardingsWithPagination,
     OnboardingReads!totalCustomerGatewayOnboardings,
     OnboardingReads!searchCustomerGatewayOnboardings,
     OnboardingReads!findOneCustomerGatewayOnboarding,
     OnboardingReads!findOneCustomerGatewayOnboardingOrFail,
     OnboardingReads!Entity!AskAny, Queries!Op, Queries!One, Queries!Counted
<1>8. ASSUME NEW r \in Reader, OnboardingReads!Handler(r) PROVE Queries!Next
  BY <1>1, <1>2, <1>8, PageSize DEF OnboardingReads!Handler,
     OnboardingReads!GetAllCustomerGatewayOnboardingHandler,
     OnboardingReads!GetCustomerGatewayOnboardingByFieldHandler,
     OnboardingReads!GetCustomerGatewayOnboardingByIdHandler,
     OnboardingReads!Entity!AskAny, Queries!Op, Queries!One, Queries!Counted
<1>9. ASSUME NEW r \in Reader, OnboardingReads!Facade(r) PROVE Queries!Next
  BY <1>1, <1>2, <1>9, PageSize DEF OnboardingReads!Facade,
     OnboardingReads!facadeFindAll, OnboardingReads!facadeFindById,
     OnboardingReads!facadeFindWithPagination, OnboardingReads!facadeCount,
     OnboardingReads!facadeFindAndCount, OnboardingReads!facadeFindOne,
     OnboardingReads!facadeFindOneOrFail, OnboardingReads!Entity!AskAny, Queries!Op,
     Queries!One, Queries!Counted
<1>10. ASSUME NEW r \in Reader, OnboardingReads!Service(r) PROVE Queries!Next
  BY <1>3, <1>10 DEF OnboardingReads!Service, OnboardingReads!Answers,
     OnboardingReads!ServiceFindAll, OnboardingReads!ServiceFindById,
     OnboardingReads!ServiceFindByField, OnboardingReads!ServiceFindWithPagination,
     OnboardingReads!ServiceCount, OnboardingReads!ServiceFindAndCount,
     OnboardingReads!ServiceFindOne, OnboardingReads!ServiceFindOneOrFail
<1>11. ASSUME NEW r \in Reader, OnboardingReads!Repository(r) PROVE Queries!Next
  BY <1>3, <1>11 DEF OnboardingReads!Repository, OnboardingReads!findAll,
     OnboardingReads!findWithPagination, OnboardingReads!count,
     OnboardingReads!findAndCount, OnboardingReads!findOne
<1>12. ASSUME OnboardingReads!Write PROVE Queries!Next
  <2>1. OnboardingReads!Entity!Present \subseteq RowId
    BY PresentIds DEF OnboardingReads!Entity!Present
  <2>2. QED
    BY <1>4, <1>5, <1>12, <2>1 DEF OnboardingReads!Write, OnboardingReads!facadeCreate,
       OnboardingReads!facadeUpdate, OnboardingReads!facadeDelete
<1>13. QED
  BY <1>6, <1>7, <1>8, <1>9, <1>10, <1>11, <1>12 DEF OnboardingReads!Next

LEMMA OnboardingReadsInit == OnboardingReads!Init => Queries!IInv
<1> SUFFICES ASSUME OnboardingReads!Init PROVE Queries!IInv
  OBVIOUS
<1>1. /\ heap = Heap["onboarding"] /\ writes = 0
      /\ query = [r \in Reader |-> [op |-> "count", by |-> NoCondition, page |-> 1,
                                    size |-> CHOOSE s \in Size : TRUE]]
      /\ phase = [r \in Reader |-> "idle"]
      /\ data = [r \in Reader |-> {}] /\ total = [r \in Reader |-> 0]
      /\ pages = [r \in Reader |-> 0] /\ steady = [r \in Reader |-> TRUE]
  BY DEF OnboardingReads!Init, OnboardingReads!Entity!Init
<1>2. /\ heap \subseteq [id : RowId, value : Column] /\ Queries!IsFiniteSet(heap)
      /\ \A one, other \in heap : one.id = other.id => one = other
      /\ MaxTableWrites \in Nat
  BY <1>1, PartsAssumption DEF OnboardingReads!Entity!WellPosed,
     OnboardingReads!Entity!IsFiniteSet, Queries!IsFiniteSet
<1>3. QED
  BY <1>1, <1>2, QueriesWellPosed, Queries!RestInv

-----------------------------------------------------------------------------
(* The queries on onboarding statuses.                                     *)

LEMMA StatusReadsRows ==
    /\ \A S : StatusReads!Entity!Cardinality(S) = Queries!Cardinality(S)
    /\ \A q : /\ StatusReads!Entity!Matches(q) = Queries!Matches(q)
              /\ StatusReads!Entity!Results(q) = Queries!Results(q)
    /\ \A id : StatusReads!Entity!Others(id) = Queries!Others(id)
<1>1. \A S : StatusReads!Entity!Cardinality(S) = Queries!Cardinality(S)
  BY DEF StatusReads!Entity!Cardinality, Queries!Cardinality
<1>2. \A q : StatusReads!Entity!Matches(q) = Queries!Matches(q)
  BY DEF StatusReads!Entity!Matches, Queries!Matches
<1>3. \A id : StatusReads!Entity!Others(id) = Queries!Others(id)
  BY DEF StatusReads!Entity!Others, Queries!Others
<1>4. \A q : StatusReads!Entity!Window(q) = Queries!Window(q)
  BY <1>1 DEF StatusReads!Entity!Window, Queries!Window
<1>5. \A q : StatusReads!Entity!First(q) = Queries!First(q)
  BY <1>2 DEF StatusReads!Entity!First, Queries!First
<1>6. \A q : StatusReads!Entity!Results(q) = Queries!Results(q)
  BY <1>2, <1>4, <1>5 DEF StatusReads!Entity!Results, Queries!Results, StatusReads!Entity!One,
     Queries!One
<1>7. QED
  BY <1>1, <1>2, <1>3, <1>6

LEMMA StatusReadsNext == Queries!TypeOK /\ StatusReads!Next => Queries!Next
<1> SUFFICES ASSUME Queries!TypeOK PROVE StatusReads!Next => Queries!Next
  OBVIOUS
<1>1. ASSUME NEW r \in Reader, NEW op, op # "findWithPagination",
             NEW conditions, StatusReads!Entity!AskFor(r, op, conditions),
             op \in Queries!Op
      PROVE  Queries!Next
  <2>1. PICK by \in Queries!Conditions(op) :
            Queries!Ask(r, [op |-> op, by |-> by, page |-> 1,
                            size |-> CHOOSE s \in Size : TRUE])
    BY <1>1, Zenon DEF StatusReads!Entity!Ask, Queries!Ask, StatusReads!Entity!Settled,
       Queries!Settled, StatusReads!Entity!Conditions, Queries!Conditions,
       StatusReads!Entity!AskFor
  <2>2. QED
    BY <1>1, <2>1 DEF Queries!Next, Queries!AskAny, Queries!AskFor
<1>2. ASSUME NEW r \in Reader, NEW size \in Size,
             StatusReads!Entity!Turn(r, size) \/ StatusReads!Entity!TurnToZero(r, size)
      PROVE  Queries!Next
  <2>1. \A q : StatusReads!Entity!Ask(r, q) => Queries!Ask(r, q)
    BY DEF StatusReads!Entity!Ask, Queries!Ask, StatusReads!Entity!Settled, Queries!Settled
  <2>2. StatusReads!Entity!Turn(r, size) => Queries!Turn(r, size)
    BY <2>1 DEF StatusReads!Entity!Turn, Queries!Turn, StatusReads!Entity!PageQuery,
       Queries!PageQuery
  <2>3. StatusReads!Entity!TurnToZero(r, size) => Queries!TurnToZero(r, size)
    BY <2>1 DEF StatusReads!Entity!TurnToZero, Queries!TurnToZero, StatusReads!Entity!PageQuery,
       Queries!PageQuery
  <2>4. QED
    BY <1>2, <2>2, <2>3 DEF Queries!Next
<1>3. ASSUME NEW r \in Reader,
             \/ StatusReads!Entity!Select(r) \/ StatusReads!Entity!Count(r)
             \/ StatusReads!Entity!Answer(r) \/ StatusReads!Entity!Fail(r)
      PROVE  Queries!Next
  <2>1. StatusReads!Entity!Select(r) => Queries!Select(r)
    BY StatusReadsRows DEF StatusReads!Entity!Select, Queries!Select,
       StatusReads!Entity!Counted, Queries!Counted
  <2>2. StatusReads!Entity!Count(r) => Queries!Count(r)
    BY StatusReadsRows, Zenon DEF StatusReads!Entity!Count, Queries!Count,
       StatusReads!Entity!AtCount, Queries!AtCount
  <2>3. StatusReads!Entity!Answer(r) => Queries!Answer(r)
    BY DEF StatusReads!Entity!Answer, Queries!Answer, StatusReads!Entity!One,
       Queries!One
  <2>4. StatusReads!Entity!Fail(r) => Queries!Fail(r)
    BY DEF StatusReads!Entity!Fail, Queries!Fail
  <2>5. QED
    BY <1>3, <2>1, <2>2, <2>3, <2>4 DEF Queries!Next, Queries!ReadStep
<1>4. ASSUME NEW id \in RowId, StatusReads!Entity!Delete(id) PROVE Queries!Next
  <2>1. Queries!Delete(id)
    BY <1>4, StatusReadsRows DEF StatusReads!Entity!Delete, Queries!Delete,
       StatusReads!Entity!Write, Queries!Write, StatusReads!Entity!Present,
       Queries!Present
  <2>2. QED
    BY <2>1 DEF Queries!Next
<1>5. ASSUME NEW id \in RowId, NEW value \in Column, StatusReads!Entity!Save(id, value)
      PROVE  Queries!Next
  <2>1. Queries!Save(id, value)
    BY <1>5, StatusReadsRows DEF StatusReads!Entity!Save, Queries!Save,
       StatusReads!Entity!Write, Queries!Write
  <2>2. QED
    BY <2>1 DEF Queries!Next
<1>6. ASSUME NEW r \in Reader, StatusReads!Controller(r) PROVE Queries!Next
  BY <1>1, <1>2, <1>6, PageSize DEF StatusReads!Controller,
     StatusReads!ControllerFindAll, StatusReads!ControllerFindByField,
     StatusReads!ControllerFindWithPagination, StatusReads!ControllerCount,
     StatusReads!ControllerFindAndCount, StatusReads!ControllerFindOne,
     StatusReads!ControllerFindOneOrFail, StatusReads!ControllerFindById,
     StatusReads!Entity!AskAny, Queries!Op, Queries!One, Queries!Counted
<1>7. ASSUME NEW r \in Reader, StatusReads!Resolver(r) PROVE Queries!Next
  BY <1>1, <1>2, <1>7, PageSize DEF StatusReads!Resolver,
     StatusReads!customeronboardingstatuss, StatusReads!customeronboardingstatus,
     StatusReads!customeronboardingstatussByField,
     StatusReads!customeronboardingstatussWithPagination,
     StatusReads!totalCustomerOnboardingStatuss,
     StatusReads!searchCustomerOnboardingStatuss,
     StatusReads!findOneCustomerOnboardingStatus,
     StatusReads!findOneCustomerOnboardingStatusOrFail, StatusReads!Entity!AskAny,
     Queries!Op, Queries!One, Queries!Counted
<1>8. ASSUME NEW r \in Reader, StatusReads!Handler(r) PROVE Queries!Next
  BY <1>1, <1>2, <1>8, PageSize DEF StatusReads!Handler,
     StatusReads!GetAllCustomerOnboardingStatusHandler,
     StatusReads!GetCustomerOnboardingStatusByFieldHandler,
     StatusReads!GetCustomerOnboardingStatusByIdHandler, StatusReads!Entity!AskAny,
     Queries!Op, Queries!One, Queries!Counted
<1>9. ASSUME NEW r \in Reader, StatusReads!Facade(r) PROVE Queries!Next
  BY <1>1, <1>2, <1>9, PageSize DEF StatusReads!Facade, StatusReads!facadeFindAll,
     StatusReads!facadeFindById, StatusReads!facadeFindWithPagination,
     StatusReads!facadeCount, StatusReads!facadeFindAndCount, StatusReads!facadeFindOne,
     StatusReads!facadeFindOneOrFail, StatusReads!Entity!AskAny, Queries!Op,
     Queries!One, Queries!Counted
<1>10. ASSUME NEW r \in Reader, StatusReads!Service(r) PROVE Queries!Next
  BY <1>3, <1>10 DEF StatusReads!Service, StatusReads!Answers,
     StatusReads!ServiceFindAll, StatusReads!ServiceFindById,
     StatusReads!ServiceFindByField, StatusReads!ServiceFindWithPagination,
     StatusReads!ServiceCount, StatusReads!ServiceFindAndCount,
     StatusReads!ServiceFindOne, StatusReads!ServiceFindOneOrFail
<1>11. ASSUME NEW r \in Reader, StatusReads!Repository(r) PROVE Queries!Next
  BY <1>3, <1>11 DEF StatusReads!Repository, StatusReads!findAll,
     StatusReads!findWithPagination, StatusReads!count, StatusReads!findAndCount,
     StatusReads!findOne
<1>12. ASSUME StatusReads!Write PROVE Queries!Next
  <2>1. StatusReads!Entity!Present \subseteq RowId
    BY PresentIds DEF StatusReads!Entity!Present
  <2>2. QED
    BY <1>4, <1>5, <1>12, <2>1 DEF StatusReads!Write, StatusReads!facadeCreate,
       StatusReads!facadeUpdate, StatusReads!facadeDelete
<1>13. QED
  BY <1>6, <1>7, <1>8, <1>9, <1>10, <1>11, <1>12 DEF StatusReads!Next

LEMMA StatusReadsInit == StatusReads!Init => Queries!IInv
<1> SUFFICES ASSUME StatusReads!Init PROVE Queries!IInv
  OBVIOUS
<1>1. /\ heap = Heap["status"] /\ writes = 0
      /\ query = [r \in Reader |-> [op |-> "count", by |-> NoCondition, page |-> 1,
                                    size |-> CHOOSE s \in Size : TRUE]]
      /\ phase = [r \in Reader |-> "idle"]
      /\ data = [r \in Reader |-> {}] /\ total = [r \in Reader |-> 0]
      /\ pages = [r \in Reader |-> 0] /\ steady = [r \in Reader |-> TRUE]
  BY DEF StatusReads!Init, StatusReads!Entity!Init
<1>2. /\ heap \subseteq [id : RowId, value : Column] /\ Queries!IsFiniteSet(heap)
      /\ \A one, other \in heap : one.id = other.id => one = other
      /\ MaxTableWrites \in Nat
  BY <1>1, PartsAssumption DEF StatusReads!Entity!WellPosed,
     StatusReads!Entity!IsFiniteSet, Queries!IsFiniteSet
<1>3. QED
  BY <1>1, <1>2, QueriesWellPosed, Queries!RestInv

-----------------------------------------------------------------------------
(* The queries on catalog sync logs.                                       *)

LEMMA SyncLogReadsRows ==
    /\ \A S : SyncLogReads!Entity!Cardinality(S) = Queries!Cardinality(S)
    /\ \A q : /\ SyncLogReads!Entity!Matches(q) = Queries!Matches(q)
              /\ SyncLogReads!Entity!Results(q) = Queries!Results(q)
    /\ \A id : SyncLogReads!Entity!Others(id) = Queries!Others(id)
<1>1. \A S : SyncLogReads!Entity!Cardinality(S) = Queries!Cardinality(S)
  BY DEF SyncLogReads!Entity!Cardinality, Queries!Cardinality
<1>2. \A q : SyncLogReads!Entity!Matches(q) = Queries!Matches(q)
  BY DEF SyncLogReads!Entity!Matches, Queries!Matches
<1>3. \A id : SyncLogReads!Entity!Others(id) = Queries!Others(id)
  BY DEF SyncLogReads!Entity!Others, Queries!Others
<1>4. \A q : SyncLogReads!Entity!Window(q) = Queries!Window(q)
  BY <1>1 DEF SyncLogReads!Entity!Window, Queries!Window
<1>5. \A q : SyncLogReads!Entity!First(q) = Queries!First(q)
  BY <1>2 DEF SyncLogReads!Entity!First, Queries!First
<1>6. \A q : SyncLogReads!Entity!Results(q) = Queries!Results(q)
  BY <1>2, <1>4, <1>5 DEF SyncLogReads!Entity!Results, Queries!Results, SyncLogReads!Entity!One,
     Queries!One
<1>7. QED
  BY <1>1, <1>2, <1>3, <1>6

LEMMA SyncLogReadsNext == Queries!TypeOK /\ SyncLogReads!Next => Queries!Next
<1> SUFFICES ASSUME Queries!TypeOK PROVE SyncLogReads!Next => Queries!Next
  OBVIOUS
<1>1. ASSUME NEW r \in Reader, NEW op, op # "findWithPagination",
             NEW conditions, SyncLogReads!Entity!AskFor(r, op, conditions),
             op \in Queries!Op
      PROVE  Queries!Next
  <2>1. PICK by \in Queries!Conditions(op) :
            Queries!Ask(r, [op |-> op, by |-> by, page |-> 1,
                            size |-> CHOOSE s \in Size : TRUE])
    BY <1>1, Zenon DEF SyncLogReads!Entity!Ask, Queries!Ask,
       SyncLogReads!Entity!Settled,
       Queries!Settled, SyncLogReads!Entity!Conditions, Queries!Conditions,
       SyncLogReads!Entity!AskFor
  <2>2. QED
    BY <1>1, <2>1 DEF Queries!Next, Queries!AskAny, Queries!AskFor
<1>2. ASSUME NEW r \in Reader, NEW size \in Size,
             SyncLogReads!Entity!Turn(r, size) \/ SyncLogReads!Entity!TurnToZero(r, size)
      PROVE  Queries!Next
  <2>1. \A q : SyncLogReads!Entity!Ask(r, q) => Queries!Ask(r, q)
    BY DEF SyncLogReads!Entity!Ask, Queries!Ask, SyncLogReads!Entity!Settled, Queries!Settled
  <2>2. SyncLogReads!Entity!Turn(r, size) => Queries!Turn(r, size)
    BY <2>1 DEF SyncLogReads!Entity!Turn, Queries!Turn, SyncLogReads!Entity!PageQuery,
       Queries!PageQuery
  <2>3. SyncLogReads!Entity!TurnToZero(r, size) => Queries!TurnToZero(r, size)
    BY <2>1 DEF SyncLogReads!Entity!TurnToZero, Queries!TurnToZero, SyncLogReads!Entity!PageQuery,
       Queries!PageQuery
  <2>4. QED
    BY <1>2, <2>2, <2>3 DEF Queries!Next
<1>3. ASSUME NEW r \in Reader,
             \/ SyncLogReads!Entity!Select(r) \/ SyncLogReads!Entity!Count(r)
             \/ SyncLogReads!Entity!Answer(r) \/ SyncLogReads!Entity!Fail(r)
      PROVE  Queries!Next
  <2>1. SyncLogReads!Entity!Select(r) => Queries!Select(r)
    BY SyncLogReadsRows DEF SyncLogReads!Entity!Select, Queries!Select,
       SyncLogReads!Entity!Counted, Queries!Counted
  <2>2. SyncLogReads!Entity!Count(r) => Queries!Count(r)
    BY SyncLogReadsRows, Zenon DEF SyncLogReads!Entity!Count, Queries!Count,
       SyncLogReads!Entity!AtCount, Queries!AtCount
  <2>3. SyncLogReads!Entity!Answer(r) => Queries!Answer(r)
    BY DEF SyncLogReads!Entity!Answer, Queries!Answer, SyncLogReads!Entity!One,
       Queries!One
  <2>4. SyncLogReads!Entity!Fail(r) => Queries!Fail(r)
    BY DEF SyncLogReads!Entity!Fail, Queries!Fail
  <2>5. QED
    BY <1>3, <2>1, <2>2, <2>3, <2>4 DEF Queries!Next, Queries!ReadStep
<1>4. ASSUME NEW id \in RowId, SyncLogReads!Entity!Delete(id) PROVE Queries!Next
  <2>1. Queries!Delete(id)
    BY <1>4, SyncLogReadsRows DEF SyncLogReads!Entity!Delete, Queries!Delete,
       SyncLogReads!Entity!Write, Queries!Write, SyncLogReads!Entity!Present,
       Queries!Present
  <2>2. QED
    BY <2>1 DEF Queries!Next
<1>5. ASSUME NEW id \in RowId, NEW value \in Column, SyncLogReads!Entity!Save(id, value)
      PROVE  Queries!Next
  <2>1. Queries!Save(id, value)
    BY <1>5, SyncLogReadsRows DEF SyncLogReads!Entity!Save, Queries!Save,
       SyncLogReads!Entity!Write, Queries!Write
  <2>2. QED
    BY <2>1 DEF Queries!Next
<1>6. ASSUME NEW r \in Reader, SyncLogReads!Controller(r) PROVE Queries!Next
  BY <1>1, <1>2, <1>6, PageSize DEF SyncLogReads!Controller,
     SyncLogReads!ControllerFindAll, SyncLogReads!ControllerFindByField,
     SyncLogReads!ControllerFindWithPagination, SyncLogReads!ControllerCount,
     SyncLogReads!ControllerFindAndCount, SyncLogReads!ControllerFindOne,
     SyncLogReads!ControllerFindOneOrFail, SyncLogReads!ControllerFindById,
     SyncLogReads!Entity!AskAny, Queries!Op, Queries!One, Queries!Counted
<1>7. ASSUME NEW r \in Reader, SyncLogReads!Resolver(r) PROVE Queries!Next
  BY <1>1, <1>2, <1>7, PageSize DEF SyncLogReads!Resolver, SyncLogReads!catalogsynclogs,
     SyncLogReads!catalogsynclog, SyncLogReads!catalogsynclogsByField,
     SyncLogReads!catalogsynclogsWithPagination, SyncLogReads!totalCatalogSyncLogs,
     SyncLogReads!searchCatalogSyncLogs, SyncLogReads!findOneCatalogSyncLog,
     SyncLogReads!findOneCatalogSyncLogOrFail, SyncLogReads!Entity!AskAny, Queries!Op,
     Queries!One, Queries!Counted
<1>8. ASSUME NEW r \in Reader, SyncLogReads!Handler(r) PROVE Queries!Next
  BY <1>1, <1>2, <1>8, PageSize DEF SyncLogReads!Handler,
     SyncLogReads!GetAllCatalogSyncLogHandler,
     SyncLogReads!GetCatalogSyncLogByFieldHandler,
     SyncLogReads!GetCatalogSyncLogByIdHandler, SyncLogReads!Entity!AskAny, Queries!Op,
     Queries!One, Queries!Counted
<1>9. ASSUME NEW r \in Reader, SyncLogReads!Facade(r) PROVE Queries!Next
  BY <1>1, <1>2, <1>9, PageSize DEF SyncLogReads!Facade, SyncLogReads!facadeFindAll,
     SyncLogReads!facadeFindById, SyncLogReads!facadeFindWithPagination,
     SyncLogReads!facadeCount, SyncLogReads!facadeFindAndCount,
     SyncLogReads!facadeFindOne, SyncLogReads!facadeFindOneOrFail,
     SyncLogReads!Entity!AskAny, Queries!Op, Queries!One, Queries!Counted
<1>10. ASSUME NEW r \in Reader, SyncLogReads!Service(r) PROVE Queries!Next
  BY <1>3, <1>10 DEF SyncLogReads!Service, SyncLogReads!Answers,
     SyncLogReads!ServiceFindAll, SyncLogReads!ServiceFindById,
     SyncLogReads!ServiceFindByField, SyncLogReads!ServiceFindWithPagination,
     SyncLogReads!ServiceCount, SyncLogReads!ServiceFindAndCount,
     SyncLogReads!ServiceFindOne, SyncLogReads!ServiceFindOneOrFail
<1>11. ASSUME NEW r \in Reader, SyncLogReads!Repository(r) PROVE Queries!Next
  BY <1>3, <1>11 DEF SyncLogReads!Repository, SyncLogReads!findAll,
     SyncLogReads!findWithPagination, SyncLogReads!count, SyncLogReads!findAndCount,
     SyncLogReads!findOne
<1>12. ASSUME SyncLogReads!Write PROVE Queries!Next
  <2>1. SyncLogReads!Entity!Present \subseteq RowId
    BY PresentIds DEF SyncLogReads!Entity!Present
  <2>2. QED
    BY <1>4, <1>5, <1>12, <2>1 DEF SyncLogReads!Write, SyncLogReads!facadeCreate,
       SyncLogReads!facadeUpdate, SyncLogReads!facadeDelete
<1>13. QED
  BY <1>6, <1>7, <1>8, <1>9, <1>10, <1>11, <1>12 DEF SyncLogReads!Next

LEMMA SyncLogReadsInit == SyncLogReads!Init => Queries!IInv
<1> SUFFICES ASSUME SyncLogReads!Init PROVE Queries!IInv
  OBVIOUS
<1>1. /\ heap = Heap["synclog"] /\ writes = 0
      /\ query = [r \in Reader |-> [op |-> "count", by |-> NoCondition, page |-> 1,
                                    size |-> CHOOSE s \in Size : TRUE]]
      /\ phase = [r \in Reader |-> "idle"]
      /\ data = [r \in Reader |-> {}] /\ total = [r \in Reader |-> 0]
      /\ pages = [r \in Reader |-> 0] /\ steady = [r \in Reader |-> TRUE]
  BY DEF SyncLogReads!Init, SyncLogReads!Entity!Init
<1>2. /\ heap \subseteq [id : RowId, value : Column] /\ Queries!IsFiniteSet(heap)
      /\ \A one, other \in heap : one.id = other.id => one = other
      /\ MaxTableWrites \in Nat
  BY <1>1, PartsAssumption DEF SyncLogReads!Entity!WellPosed,
     SyncLogReads!Entity!IsFiniteSet, Queries!IsFiniteSet
<1>3. QED
  BY <1>1, <1>2, QueriesWellPosed, Queries!RestInv

-----------------------------------------------------------------------------
(* Whatever the module, the queries keep the invariant of EntityQueries.   *)

LEMMA QueriesHeld == Spec => []Queries!IInv
<1>1. Init => Queries!IInv
  <2>1. Init => ReadsInit
    BY DEF Init
  <2>2. QED
    BY <2>1, CustomerReadsInit, OnboardingReadsInit, StatusReadsInit, SyncLogReadsInit
       DEF ReadsInit
<1>2. Queries!IInv /\ [Next]_vars => Queries!IInv'
  <2>1. Queries!IInv => Queries!TypeOK
    BY QueriesWellPosed, Queries!InvSafe
  <2>2. Queries!IInv /\ Query => Queries!Next
    BY <2>1, CustomerReadsNext, OnboardingReadsNext, StatusReadsNext, SyncLogReadsNext
       DEF Query
  <2>3. ASSUME AtCommands \/ AtReferrals \/ AtTraces \/ AtStart \/ UNCHANGED vars
        PROVE  UNCHANGED Queries!vars
    <3>1. UNCHANGED queryVars
      BY <2>3 DEF AtCommands, AtReferrals, AtTraces, AtStart, vars
    <3>2. QED
      BY <3>1, QueriesStay
  <2>4. Queries!IInv /\ [Next]_vars => [Queries!Next]_(Queries!vars)
    BY <2>2, <2>3 DEF Next
  <2>5. QED
    BY <2>4, QueriesWellPosed, Queries!StepInv
<1>3. QED
  BY <1>1, <1>2, PTL DEF Spec

\* The properties of the two instances are the same.
LEMMA QueriesSafe ==
    Queries!IInv => CustomerReads!Entity!TypeOK /\ CountAgrees /\ PagesAddUp
<1>1. Queries!IInv => Queries!TypeOK /\ Queries!CountAgrees /\ Queries!PagesAddUp
  BY QueriesWellPosed, Queries!InvSafe
<1>2. Queries!TypeOK => CustomerReads!Entity!TypeOK
  BY DEF CustomerReads!Entity!TypeOK, Queries!TypeOK, CustomerReads!Entity!Row,
     Queries!Row, CustomerReads!Entity!Query, Queries!Query, CustomerReads!Entity!Op,
     Queries!Op, CustomerReads!Entity!One, Queries!One, CustomerReads!Entity!Counted,
     Queries!Counted, CustomerReads!Entity!Phase, Queries!Phase,
     CustomerReads!Entity!IsFiniteSet, Queries!IsFiniteSet
<1>3. \A S : CustomerReads!Entity!Cardinality(S) = Queries!Cardinality(S)
  BY DEF CustomerReads!Entity!Cardinality, Queries!Cardinality
<1>4. Queries!CountAgrees => CountAgrees
  BY <1>3 DEF CountAgrees, CustomerReads!Entity!CountAgrees, Queries!CountAgrees,
     CustomerReads!Entity!Counted, Queries!Counted
<1>5. Queries!PagesAddUp => PagesAddUp
  BY <1>3 DEF PagesAddUp, CustomerReads!Entity!PagesAddUp, Queries!PagesAddUp,
     CustomerReads!Entity!LastPage, Queries!LastPage
<1>6. QED
  BY <1>1, <1>2, <1>4, <1>5

\* The count that comes with the rows of a search is theirs, unless somebody writes
\* between the two SELECTs.
THEOREM CountsAgree == Spec => []CountAgrees
BY QueriesHeld, QueriesSafe, PTL

\* For tables and pages of any size: who turns the pages up to the last one, while
\* nobody writes, is given as many rows as there are, whichever rows they are.
THEOREM AllPagesAddUp == Spec => []PagesAddUp
BY QueriesHeld, QueriesSafe, PTL

-----------------------------------------------------------------------------
(* The commands of customers.                                              *)

CustomerPart == INSTANCE EntityCommandsProofs WITH
    Scenarios <- Scenarios["customer"], Default <- NotGiven, Required <- TRUE,
    Unique <- TRUE, OtherKeys <- FALSE, StatusKind <- {},
    KindOf <- Commands!Customer!KindOf

LEMMA CustomerWellPosed == CustomerPart!WellPosed
BY PartsAssumption, Zenon DEF Commands!WellPosed, Commands!Customer!Entity!WellPosed,
       CustomerPart!WellPosed, Commands!Customer!Entity!IsRequest,
       CustomerPart!IsRequest, Commands!Customer!Entity!Unsent, CustomerPart!Unsent,
       Commands!Customer!Entity!Kind, CustomerPart!Kind,
       Commands!Customer!Entity!Single, CustomerPart!Single,
       Commands!Customer!Entity!Bulk, CustomerPart!Bulk, Commands!Customer!Entity!Item,
       CustomerPart!Item,
       Commands!Customer!StatusKind, Commands!Customer!KindOf

LEMMA CustomerInit == Init /\ module = "customer" => CustomerPart!Init
BY DEF Init, CommandsAtRest, Commands!Init, Commands!Customer!Init,
       Commands!Customer!Entity!Init, CustomerPart!Init, Commands!Customer!Entity!Kind,
       CustomerPart!Kind,
       Commands!Customer!StatusKind

LEMMA CustomerStays == UNCHANGED commandVars => UNCHANGED CustomerPart!vars
BY DEF commandVars, CustomerPart!vars, CustomerPart!commandState, CustomerPart!busState,
       CustomerPart!replayState, CustomerPart!history

LEMMA CustomerNext == Commands!Customer!Next => CustomerPart!Next
<1> USE DEF Commands!Customer!Entity!At, CustomerPart!At,
            Commands!Customer!Entity!Goto, CustomerPart!Goto,
            Commands!Customer!Entity!Op, CustomerPart!Op,
            Commands!Customer!Entity!List, CustomerPart!List,
            Commands!Customer!Entity!Now, CustomerPart!Now,
            Commands!Customer!Entity!HasNext, CustomerPart!HasNext,
            Commands!Customer!Entity!commandState, CustomerPart!commandState,
            Commands!Customer!Entity!busState, CustomerPart!busState,
            Commands!Customer!Entity!replayState, CustomerPart!replayState,
            Commands!Customer!Entity!history, CustomerPart!history
<1>1. ASSUME NEW c, Commands!Customer!Entity!Request(c) PROVE CustomerPart!Request(c)
  BY <1>1 DEF Commands!Customer!Entity!Request, CustomerPart!Request,
     Commands!Customer!Entity!Enter, CustomerPart!Enter,
     Commands!Customer!Entity!Quiet, CustomerPart!Quiet, Commands!Customer!Entity!Kind,
     CustomerPart!Kind, Commands!Customer!Entity!Over, CustomerPart!Over,
     Commands!Customer!Entity!Unsent, CustomerPart!Unsent, Commands!Customer!StatusKind
<1>2. ASSUME NEW c, Commands!Customer!Entity!TurnAway(c) PROVE CustomerPart!TurnAway(c)
  BY <1>2 DEF Commands!Customer!Entity!TurnAway, CustomerPart!TurnAway,
     Commands!Customer!Entity!Enter, CustomerPart!Enter,
     Commands!Customer!Entity!Quiet, CustomerPart!Quiet, Commands!Customer!Entity!Kind,
     CustomerPart!Kind, Commands!Customer!Entity!Over, CustomerPart!Over,
     Commands!Customer!Entity!Unsent, CustomerPart!Unsent, Commands!Customer!StatusKind
<1>3. ASSUME NEW c, Commands!Customer!Entity!Check(c) PROVE CustomerPart!Check(c)
  BY <1>3 DEF Commands!Customer!Entity!Check, CustomerPart!Check,
     Commands!Customer!Entity!Bulk, CustomerPart!Bulk
<1>4. ASSUME NEW c, Commands!Customer!Entity!LoadForUpdate(c)
      PROVE  CustomerPart!LoadForUpdate(c)
  BY <1>4 DEF Commands!Customer!Entity!LoadForUpdate, CustomerPart!LoadForUpdate
<1>5. ASSUME NEW c, Commands!Customer!Entity!LoadForDelete(c)
      PROVE  CustomerPart!LoadForDelete(c)
  BY <1>5 DEF Commands!Customer!Entity!LoadForDelete, CustomerPart!LoadForDelete
<1>6. ASSUME NEW c, Commands!Customer!Entity!SaveOne(c) PROVE CustomerPart!SaveOne(c)
  BY <1>6 DEF Commands!Customer!Entity!SaveOne, CustomerPart!SaveOne,
     Commands!Customer!Entity!Given, CustomerPart!Given,
     Commands!Customer!Entity!Insertable, CustomerPart!Insertable,
     Commands!Customer!Entity!Taken, CustomerPart!Taken,
     Commands!Customer!Entity!Author, CustomerPart!Author,
     Commands!Customer!Entity!Publish, CustomerPart!Publish,
     Commands!Customer!Entity!NewEvent, CustomerPart!NewEvent
<1>7. ASSUME NEW c, Commands!Customer!Entity!SaveAll(c) PROVE CustomerPart!SaveAll(c)
  BY <1>7 DEF Commands!Customer!Entity!SaveAll, CustomerPart!SaveAll,
     Commands!Customer!Entity!Given, CustomerPart!Given,
     Commands!Customer!Entity!Insertable, CustomerPart!Insertable,
     Commands!Customer!Entity!Taken, CustomerPart!Taken,
     Commands!Customer!Entity!Author, CustomerPart!Author,
     Commands!Customer!Entity!Publish, CustomerPart!Publish,
     Commands!Customer!Entity!NewEvent, CustomerPart!NewEvent,
     Commands!Customer!Entity!Items, CustomerPart!Items, Commands!Customer!Entity!Ids,
     CustomerPart!Ids
<1>8. ASSUME NEW c, Commands!Customer!Entity!Overwrite(c)
      PROVE  CustomerPart!Overwrite(c)
  BY <1>8 DEF Commands!Customer!Entity!Overwrite, CustomerPart!Overwrite,
     Commands!Customer!Entity!Given, CustomerPart!Given,
     Commands!Customer!Entity!Candidate, CustomerPart!Candidate,
     Commands!Customer!Entity!Taken, CustomerPart!Taken,
     Commands!Customer!Entity!Author, CustomerPart!Author
<1>9. ASSUME NEW c, Commands!Customer!Entity!Reload(c) PROVE CustomerPart!Reload(c)
  BY <1>9 DEF Commands!Customer!Entity!Reload, CustomerPart!Reload,
     Commands!Customer!Entity!Publish, CustomerPart!Publish,
     Commands!Customer!Entity!NewEvent, CustomerPart!NewEvent,
     Commands!Customer!Entity!NextItem, CustomerPart!NextItem
<1>10. ASSUME NEW c, Commands!Customer!Entity!PublishAgain(c)
       PROVE  CustomerPart!PublishAgain(c)
  BY <1>10 DEF Commands!Customer!Entity!PublishAgain, CustomerPart!PublishAgain,
     Commands!Customer!Entity!NewEvent, CustomerPart!NewEvent,
     Commands!Customer!Entity!NextItem, CustomerPart!NextItem
<1>11. ASSUME NEW c, Commands!Customer!Entity!Find(c) PROVE CustomerPart!Find(c)
  BY <1>11 DEF Commands!Customer!Entity!Find, CustomerPart!Find
<1>12. ASSUME NEW c, Commands!Customer!Entity!Remove(c) PROVE CustomerPart!Remove(c)
  BY <1>12 DEF Commands!Customer!Entity!Remove, CustomerPart!Remove,
     Commands!Customer!Entity!Author, CustomerPart!Author,
     Commands!Customer!Entity!Publish, CustomerPart!Publish,
     Commands!Customer!Entity!NewEvent, CustomerPart!NewEvent
<1>13. ASSUME NEW c, Commands!Customer!Entity!RemoveAll(c)
       PROVE  CustomerPart!RemoveAll(c)
  BY <1>13 DEF Commands!Customer!Entity!RemoveAll, CustomerPart!RemoveAll,
     Commands!Customer!Entity!Author, CustomerPart!Author,
     Commands!Customer!Entity!Items, CustomerPart!Items, Commands!Customer!Entity!Ids,
     CustomerPart!Ids
<1>14. ASSUME NEW c, Commands!Customer!Entity!FindRemoved(c)
       PROVE  CustomerPart!FindRemoved(c)
  BY <1>14 DEF Commands!Customer!Entity!FindRemoved, CustomerPart!FindRemoved,
     Commands!Customer!Entity!Publish, CustomerPart!Publish,
     Commands!Customer!Entity!NewEvent, CustomerPart!NewEvent
<1>15. ASSUME NEW c, Commands!Customer!Entity!Announce(c) PROVE CustomerPart!Announce(c)
  BY <1>15 DEF Commands!Customer!Entity!Announce, CustomerPart!Announce,
     Commands!Customer!Entity!DslValue, CustomerPart!DslValue,
     Commands!Customer!Entity!NewEvent, CustomerPart!NewEvent, Commands!Customer!KindOf
<1>16. ASSUME NEW c, Commands!Customer!Entity!Fail(c) PROVE CustomerPart!Fail(c)
  BY <1>16 DEF Commands!Customer!Entity!Fail, CustomerPart!Fail,
     Commands!Customer!Entity!BreaksKey, CustomerPart!BreaksKey,
     Commands!Customer!Entity!At, CustomerPart!At, Commands!Customer!Entity!Op, CustomerPart!Op,
     Commands!Customer!Entity!Place, CustomerPart!Place, Commands!Customer!Entity!Over,
     CustomerPart!Over
<1>17. ASSUME NEW e, Commands!Customer!Entity!Apply(e) PROVE CustomerPart!Apply(e)
  BY <1>17 DEF Commands!Customer!Entity!Apply, CustomerPart!Apply,
     Commands!Customer!Entity!Saves, CustomerPart!Saves,
     Commands!Customer!Entity!Projected, CustomerPart!Projected,
     Commands!Customer!Entity!Taken, CustomerPart!Taken
<1>18. ASSUME NEW e, Commands!Customer!Entity!ApplyFails(e)
       PROVE  CustomerPart!ApplyFails(e)
  BY <1>18 DEF Commands!Customer!Entity!ApplyFails, CustomerPart!ApplyFails,
     Commands!Customer!Entity!Saves, CustomerPart!Saves,
     Commands!Customer!Entity!Taken, CustomerPart!Taken
<1>19. Commands!Customer!Entity!Kafka => CustomerPart!Kafka
  BY DEF Commands!Customer!Entity!Kafka, CustomerPart!Kafka,
     Commands!Customer!Entity!Settle, CustomerPart!Settle,
     Commands!Customer!Entity!Send, CustomerPart!Send,
     Commands!Customer!Entity!SendFails, CustomerPart!SendFails,
     Commands!Customer!Entity!Route, CustomerPart!Route,
     Commands!Customer!Entity!Replay, CustomerPart!Replay,
     Commands!Customer!Entity!StartReplay, CustomerPart!StartReplay,
     Commands!Customer!Entity!Pending, CustomerPart!Pending,
     Commands!Customer!Entity!Upcoming, CustomerPart!Upcoming,
     Commands!Customer!Entity!Consume, CustomerPart!Consume,
     Commands!Customer!Entity!Kind, CustomerPart!Kind, Commands!Customer!StatusKind
<1>20. Commands!Customer!Entity!Crash => CustomerPart!Crash
  BY DEF Commands!Customer!Entity!Crash, CustomerPart!Crash,
     Commands!Customer!Entity!Over, CustomerPart!Over,
     Commands!Customer!Entity!Resumptions, CustomerPart!Resumptions,
     Commands!Customer!Entity!ReadAgain, CustomerPart!ReadAgain,
     Commands!Customer!Entity!Projected, CustomerPart!Projected,
     Commands!Customer!Entity!Kind, CustomerPart!Kind,
     Commands!Customer!StatusKind
<1>21. ASSUME NEW c, Commands!Customer!Controller(c) \/ Commands!Customer!Resolver(c)
      PROVE  CustomerPart!Request(c) \/ CustomerPart!TurnAway(c)
  BY <1>1, <1>2, <1>21
     DEF Commands!Customer!Controller, Commands!Customer!ControllerCreate,
         Commands!Customer!ControllerBulkCreate, Commands!Customer!ControllerUpdate,
         Commands!Customer!ControllerBulkUpdate, Commands!Customer!ControllerDelete,
         Commands!Customer!ControllerBulkDelete, Commands!Customer!Resolver,
         Commands!Customer!createCustomer, Commands!Customer!updateCustomer,
         Commands!Customer!createOrUpdateCustomer, Commands!Customer!deleteCustomer,
         Commands!Customer!CreateCustomerHandler,
         Commands!Customer!UpdateCustomerHandler
<1>22. ASSUME NEW c, Commands!Customer!Service(c)
      PROVE  CustomerPart!Request(c) \/ CustomerPart!Continue(c)
  BY <1>1, <1>3, <1>4, <1>5, <1>15, <1>22
     DEF Commands!Customer!Service, Commands!Customer!ServiceCreate,
         Commands!Customer!ServiceBulkCreate, Commands!Customer!ServiceUpdate,
         Commands!Customer!ServiceBulkUpdate, Commands!Customer!ServiceDelete,
         Commands!Customer!ServiceBulkDelete, CustomerPart!Continue
<1>23. ASSUME NEW c, Commands!Customer!Repository(c) PROVE CustomerPart!Continue(c)
  BY <1>6, <1>7, <1>8, <1>9, <1>10, <1>11, <1>12, <1>13, <1>14, <1>23
     DEF Commands!Customer!Repository, Commands!Customer!RepositoryCreate,
         Commands!Customer!RepositoryBulkCreate, Commands!Customer!RepositoryUpdate,
         Commands!Customer!RepositoryBulkUpdate, Commands!Customer!RepositoryDelete,
         Commands!Customer!RepositoryBulkDelete, CustomerPart!Continue
<1>24. ASSUME NEW e, Commands!Customer!handle(e)
       PROVE  CustomerPart!Apply(e) \/ CustomerPart!ApplyFails(e)
  BY <1>17, <1>18, <1>24
     DEF Commands!Customer!handle, Commands!Customer!Handled,
         Commands!Customer!onCustomerCreated, Commands!Customer!onCustomerUpdated,
         Commands!Customer!onCustomerDeleted
<1>25. QED
  BY <1>16, <1>19, <1>20, <1>21, <1>22, <1>23, <1>24
     DEF Commands!Customer!Next, CustomerPart!Next

\* The module takes its own steps and stands still during all others.
LEMMA CustomerStep ==
    [Next]_vars /\ module = "customer" => [CustomerPart!Next]_(CustomerPart!vars)
<1>1. CASE AtCommands /\ Commands!Next /\ module = "customer"
  BY <1>1, CustomerNext
     DEF Commands!Next, Commands!CustomerStep, Commands!OnboardingStep,
         Commands!StatusStep, Commands!SyncLogStep
<1>2. CASE AtQueries \/ AtReferrals \/ AtTraces \/ AtStart \/ UNCHANGED vars
  <2>1. UNCHANGED commandVars
    BY <1>2 DEF AtQueries, AtReferrals, AtTraces, AtStart, vars
  <2>2. QED
    BY <2>1, CustomerStays
<1>3. QED
  BY <1>1, <1>2 DEF Next, Query

\* The properties of the two instances are the same.
LEMMA CustomerSafe ==
    CustomerPart!IInv =>
        /\ Commands!Customer!Entity!TypeOK
        /\ Commands!Customer!Entity!RowsGrounded
        /\ Commands!Customer!Entity!AcknowledgedAnnounced
        /\ Commands!Customer!Entity!BulkPrefix
        /\ Commands!Customer!Entity!RefusedCreationsLeaveNothing
        /\ Commands!Customer!Entity!CalmRowsAreLast
<1>1. ASSUME CustomerPart!IInv
      PROVE  /\ CustomerPart!TypeOK
             /\ CustomerPart!RowsGrounded
             /\ CustomerPart!AcknowledgedAnnounced
             /\ CustomerPart!BulkPrefix
             /\ CustomerPart!RefusedCreationsLeaveNothing
             /\ CustomerPart!CalmRowsAreLast
  BY <1>1, CustomerWellPosed, CustomerPart!IInvSafe
<1>2. CustomerPart!TypeOK => Commands!Customer!Entity!TypeOK
  BY Zenon DEF Commands!Customer!Entity!TypeOK, CustomerPart!TypeOK,
     Commands!Customer!Entity!Kind, CustomerPart!Kind, Commands!Customer!Entity!Event,
     CustomerPart!Event, Commands!Customer!Entity!Place, CustomerPart!Place,
     Commands!Customer!StatusKind
<1>3. CustomerPart!RowsGrounded => Commands!Customer!Entity!RowsGrounded
  BY DEF Commands!Customer!Entity!RowsGrounded, CustomerPart!RowsGrounded,
     Commands!Customer!Entity!Unfounded, CustomerPart!Unfounded,
     Commands!Customer!Entity!InTopics, CustomerPart!InTopics,
     Commands!Customer!Entity!Range, CustomerPart!Range
<1>4. CustomerPart!AcknowledgedAnnounced =>
      Commands!Customer!Entity!AcknowledgedAnnounced
  BY DEF Commands!Customer!Entity!AcknowledgedAnnounced,
     CustomerPart!AcknowledgedAnnounced, Commands!Customer!Entity!Announced,
     CustomerPart!Announced, Commands!Customer!Entity!InTopics, CustomerPart!InTopics,
     Commands!Customer!Entity!Range, CustomerPart!Range, Commands!Customer!Entity!List,
     CustomerPart!List, Commands!Customer!Entity!Op, CustomerPart!Op
<1>5. CustomerPart!BulkPrefix => Commands!Customer!Entity!BulkPrefix
  BY DEF Commands!Customer!Entity!BulkPrefix, CustomerPart!BulkPrefix,
     Commands!Customer!Entity!DoneWith, CustomerPart!DoneWith,
     Commands!Customer!Entity!Announced, CustomerPart!Announced,
     Commands!Customer!Entity!InTopics, CustomerPart!InTopics,
     Commands!Customer!Entity!Range, CustomerPart!Range, Commands!Customer!Entity!List,
     CustomerPart!List, Commands!Customer!Entity!Op, CustomerPart!Op
<1>6. CustomerPart!RefusedCreationsLeaveNothing =>
      Commands!Customer!Entity!RefusedCreationsLeaveNothing
  BY DEF Commands!Customer!Entity!RefusedCreationsLeaveNothing,
     CustomerPart!RefusedCreationsLeaveNothing, Commands!Customer!Entity!Announced,
     CustomerPart!Announced, Commands!Customer!Entity!InTopics, CustomerPart!InTopics,
     Commands!Customer!Entity!Range, CustomerPart!Range, Commands!Customer!Entity!Op,
     CustomerPart!Op
<1>7. CustomerPart!CalmRowsAreLast => Commands!Customer!Entity!CalmRowsAreLast
  BY DEF Commands!Customer!Entity!CalmRowsAreLast, CustomerPart!CalmRowsAreLast,
     Commands!Customer!Entity!Unfounded, CustomerPart!Unfounded,
     Commands!Customer!Entity!InTopics, CustomerPart!InTopics,
     Commands!Customer!Entity!Range, CustomerPart!Range,
     Commands!Customer!Entity!NamesTwice, CustomerPart!NamesTwice,
     Commands!Customer!Entity!List, CustomerPart!List, Commands!Customer!Entity!Op,
     CustomerPart!Op
<1>8. QED
  BY <1>1, <1>2, <1>3, <1>4, <1>5, <1>6, <1>7

-----------------------------------------------------------------------------
(* The commands of gateway onboardings.                                    *)

OnboardingPart == INSTANCE EntityCommandsProofs WITH
    Scenarios <- Scenarios["onboarding"], Value <- Commands!Onboarding!Status,
    Default <- NotStarted, Required <- FALSE, Unique <- FALSE, OtherKeys <- TRUE,
    StatusKind <- Commands!Onboarding!StatusKind, KindOf <- Commands!Onboarding!KindOf

LEMMA OnboardingWellPosed == OnboardingPart!WellPosed
BY PartsAssumption, Zenon DEF Commands!WellPosed, Commands!Onboarding!Entity!WellPosed,
       OnboardingPart!WellPosed, Commands!Onboarding!Entity!IsRequest,
       OnboardingPart!IsRequest, Commands!Onboarding!Entity!Unsent,
       OnboardingPart!Unsent, Commands!Onboarding!Entity!Kind, OnboardingPart!Kind,
       Commands!Onboarding!Entity!Single, OnboardingPart!Single,
       Commands!Onboarding!Entity!Bulk, OnboardingPart!Bulk,
       Commands!Onboarding!Entity!Item, OnboardingPart!Item,
       Commands!Onboarding!StatusKind, Commands!Onboarding!KindOf,
       Commands!Onboarding!Status

LEMMA OnboardingInit == Init /\ module = "onboarding" => OnboardingPart!Init
BY DEF Init, CommandsAtRest, Commands!Init, Commands!Onboarding!Init,
       Commands!Onboarding!Entity!Init, OnboardingPart!Init,
       Commands!Onboarding!Entity!Kind, OnboardingPart!Kind,
       Commands!Onboarding!StatusKind, Commands!Onboarding!Status

LEMMA OnboardingStays == UNCHANGED commandVars => UNCHANGED OnboardingPart!vars
BY DEF commandVars, OnboardingPart!vars, OnboardingPart!commandState,
       OnboardingPart!busState,
       OnboardingPart!replayState, OnboardingPart!history

LEMMA OnboardingNext == Commands!Onboarding!Next => OnboardingPart!Next
<1> USE DEF Commands!Onboarding!Entity!At, OnboardingPart!At,
            Commands!Onboarding!Entity!Goto, OnboardingPart!Goto,
            Commands!Onboarding!Entity!Op, OnboardingPart!Op,
            Commands!Onboarding!Entity!List, OnboardingPart!List,
            Commands!Onboarding!Entity!Now, OnboardingPart!Now,
            Commands!Onboarding!Entity!HasNext, OnboardingPart!HasNext,
            Commands!Onboarding!Entity!commandState, OnboardingPart!commandState,
            Commands!Onboarding!Entity!busState, OnboardingPart!busState,
            Commands!Onboarding!Entity!replayState, OnboardingPart!replayState,
            Commands!Onboarding!Entity!history, OnboardingPart!history
<1>1. ASSUME NEW c, Commands!Onboarding!Entity!Request(c)
      PROVE  OnboardingPart!Request(c)
  BY <1>1 DEF Commands!Onboarding!Entity!Request, OnboardingPart!Request,
     Commands!Onboarding!Entity!Enter, OnboardingPart!Enter,
     Commands!Onboarding!Entity!Quiet, OnboardingPart!Quiet,
     Commands!Onboarding!Entity!Kind, OnboardingPart!Kind,
     Commands!Onboarding!Entity!Over, OnboardingPart!Over,
     Commands!Onboarding!Entity!Unsent, OnboardingPart!Unsent,
     Commands!Onboarding!StatusKind
<1>2. ASSUME NEW c, Commands!Onboarding!Entity!TurnAway(c)
      PROVE  OnboardingPart!TurnAway(c)
  BY <1>2 DEF Commands!Onboarding!Entity!TurnAway, OnboardingPart!TurnAway,
     Commands!Onboarding!Entity!Enter, OnboardingPart!Enter,
     Commands!Onboarding!Entity!Quiet, OnboardingPart!Quiet,
     Commands!Onboarding!Entity!Kind, OnboardingPart!Kind,
     Commands!Onboarding!Entity!Over, OnboardingPart!Over,
     Commands!Onboarding!Entity!Unsent, OnboardingPart!Unsent,
     Commands!Onboarding!StatusKind
<1>3. ASSUME NEW c, Commands!Onboarding!Entity!Check(c) PROVE OnboardingPart!Check(c)
  BY <1>3 DEF Commands!Onboarding!Entity!Check, OnboardingPart!Check,
     Commands!Onboarding!Entity!Bulk, OnboardingPart!Bulk
<1>4. ASSUME NEW c, Commands!Onboarding!Entity!LoadForUpdate(c)
      PROVE  OnboardingPart!LoadForUpdate(c)
  BY <1>4 DEF Commands!Onboarding!Entity!LoadForUpdate, OnboardingPart!LoadForUpdate
<1>5. ASSUME NEW c, Commands!Onboarding!Entity!LoadForDelete(c)
      PROVE  OnboardingPart!LoadForDelete(c)
  BY <1>5 DEF Commands!Onboarding!Entity!LoadForDelete, OnboardingPart!LoadForDelete
<1>6. ASSUME NEW c, Commands!Onboarding!Entity!SaveOne(c)
      PROVE  OnboardingPart!SaveOne(c)
  BY <1>6 DEF Commands!Onboarding!Entity!SaveOne, OnboardingPart!SaveOne,
     Commands!Onboarding!Entity!Given, OnboardingPart!Given,
     Commands!Onboarding!Entity!Insertable, OnboardingPart!Insertable,
     Commands!Onboarding!Entity!Taken, OnboardingPart!Taken,
     Commands!Onboarding!Entity!Author, OnboardingPart!Author,
     Commands!Onboarding!Entity!Publish, OnboardingPart!Publish,
     Commands!Onboarding!Entity!NewEvent, OnboardingPart!NewEvent,
     Commands!Onboarding!Status
<1>7. ASSUME NEW c, Commands!Onboarding!Entity!SaveAll(c)
      PROVE  OnboardingPart!SaveAll(c)
  BY <1>7 DEF Commands!Onboarding!Entity!SaveAll, OnboardingPart!SaveAll,
     Commands!Onboarding!Entity!Given, OnboardingPart!Given,
     Commands!Onboarding!Entity!Insertable, OnboardingPart!Insertable,
     Commands!Onboarding!Entity!Taken, OnboardingPart!Taken,
     Commands!Onboarding!Entity!Author, OnboardingPart!Author,
     Commands!Onboarding!Entity!Publish, OnboardingPart!Publish,
     Commands!Onboarding!Entity!NewEvent, OnboardingPart!NewEvent,
     Commands!Onboarding!Entity!Items, OnboardingPart!Items,
     Commands!Onboarding!Entity!Ids, OnboardingPart!Ids, Commands!Onboarding!Status
<1>8. ASSUME NEW c, Commands!Onboarding!Entity!Overwrite(c)
      PROVE  OnboardingPart!Overwrite(c)
  BY <1>8 DEF Commands!Onboarding!Entity!Overwrite, OnboardingPart!Overwrite,
     Commands!Onboarding!Entity!Given, OnboardingPart!Given,
     Commands!Onboarding!Entity!Candidate, OnboardingPart!Candidate,
     Commands!Onboarding!Entity!Taken, OnboardingPart!Taken,
     Commands!Onboarding!Entity!Author, OnboardingPart!Author,
     Commands!Onboarding!Status
<1>9. ASSUME NEW c, Commands!Onboarding!Entity!Reload(c) PROVE OnboardingPart!Reload(c)
  BY <1>9 DEF Commands!Onboarding!Entity!Reload, OnboardingPart!Reload,
     Commands!Onboarding!Entity!Publish, OnboardingPart!Publish,
     Commands!Onboarding!Entity!NewEvent, OnboardingPart!NewEvent,
     Commands!Onboarding!Entity!NextItem, OnboardingPart!NextItem
<1>10. ASSUME NEW c, Commands!Onboarding!Entity!PublishAgain(c)
       PROVE  OnboardingPart!PublishAgain(c)
  BY <1>10 DEF Commands!Onboarding!Entity!PublishAgain, OnboardingPart!PublishAgain,
     Commands!Onboarding!Entity!NewEvent, OnboardingPart!NewEvent,
     Commands!Onboarding!Entity!NextItem, OnboardingPart!NextItem
<1>11. ASSUME NEW c, Commands!Onboarding!Entity!Find(c) PROVE OnboardingPart!Find(c)
  BY <1>11 DEF Commands!Onboarding!Entity!Find, OnboardingPart!Find
<1>12. ASSUME NEW c, Commands!Onboarding!Entity!Remove(c) PROVE OnboardingPart!Remove(c)
  BY <1>12 DEF Commands!Onboarding!Entity!Remove, OnboardingPart!Remove,
     Commands!Onboarding!Entity!Author, OnboardingPart!Author,
     Commands!Onboarding!Entity!Publish, OnboardingPart!Publish,
     Commands!Onboarding!Entity!NewEvent, OnboardingPart!NewEvent,
     Commands!Onboarding!Status
<1>13. ASSUME NEW c, Commands!Onboarding!Entity!RemoveAll(c)
       PROVE  OnboardingPart!RemoveAll(c)
  BY <1>13 DEF Commands!Onboarding!Entity!RemoveAll, OnboardingPart!RemoveAll,
     Commands!Onboarding!Entity!Author, OnboardingPart!Author,
     Commands!Onboarding!Entity!Items, OnboardingPart!Items,
     Commands!Onboarding!Entity!Ids, OnboardingPart!Ids, Commands!Onboarding!Status
<1>14. ASSUME NEW c, Commands!Onboarding!Entity!FindRemoved(c)
       PROVE  OnboardingPart!FindRemoved(c)
  BY <1>14 DEF Commands!Onboarding!Entity!FindRemoved, OnboardingPart!FindRemoved,
     Commands!Onboarding!Entity!Publish, OnboardingPart!Publish,
     Commands!Onboarding!Entity!NewEvent, OnboardingPart!NewEvent
<1>15. ASSUME NEW c, Commands!Onboarding!Entity!Announce(c)
       PROVE  OnboardingPart!Announce(c)
  BY <1>15 DEF Commands!Onboarding!Entity!Announce, OnboardingPart!Announce,
     Commands!Onboarding!Entity!DslValue, OnboardingPart!DslValue,
     Commands!Onboarding!Entity!NewEvent, OnboardingPart!NewEvent,
     Commands!Onboarding!KindOf
<1>16. ASSUME NEW c, Commands!Onboarding!Entity!Fail(c) PROVE OnboardingPart!Fail(c)
  BY <1>16 DEF Commands!Onboarding!Entity!Fail, OnboardingPart!Fail,
     Commands!Onboarding!Entity!BreaksKey, OnboardingPart!BreaksKey,
     Commands!Onboarding!Entity!At, OnboardingPart!At, Commands!Onboarding!Entity!Op,
     OnboardingPart!Op,
     Commands!Onboarding!Entity!Place, OnboardingPart!Place,
     Commands!Onboarding!Entity!Over, OnboardingPart!Over
<1>17. ASSUME NEW e, Commands!Onboarding!Entity!Apply(e) PROVE OnboardingPart!Apply(e)
  BY <1>17 DEF Commands!Onboarding!Entity!Apply, OnboardingPart!Apply,
     Commands!Onboarding!Entity!Saves, OnboardingPart!Saves,
     Commands!Onboarding!Entity!Projected, OnboardingPart!Projected,
     Commands!Onboarding!Entity!Taken, OnboardingPart!Taken
<1>18. ASSUME NEW e, Commands!Onboarding!Entity!ApplyFails(e)
       PROVE  OnboardingPart!ApplyFails(e)
  BY <1>18 DEF Commands!Onboarding!Entity!ApplyFails, OnboardingPart!ApplyFails,
     Commands!Onboarding!Entity!Saves, OnboardingPart!Saves,
     Commands!Onboarding!Entity!Taken, OnboardingPart!Taken
<1>19. Commands!Onboarding!Entity!Kafka => OnboardingPart!Kafka
  BY DEF Commands!Onboarding!Entity!Kafka, OnboardingPart!Kafka,
     Commands!Onboarding!Entity!Settle, OnboardingPart!Settle,
     Commands!Onboarding!Entity!Send, OnboardingPart!Send,
     Commands!Onboarding!Entity!SendFails, OnboardingPart!SendFails,
     Commands!Onboarding!Entity!Route, OnboardingPart!Route,
     Commands!Onboarding!Entity!Replay, OnboardingPart!Replay,
     Commands!Onboarding!Entity!StartReplay, OnboardingPart!StartReplay,
     Commands!Onboarding!Entity!Pending, OnboardingPart!Pending,
     Commands!Onboarding!Entity!Upcoming, OnboardingPart!Upcoming,
     Commands!Onboarding!Entity!Consume, OnboardingPart!Consume,
     Commands!Onboarding!Entity!Kind, OnboardingPart!Kind,
     Commands!Onboarding!StatusKind
<1>20. Commands!Onboarding!Entity!Crash => OnboardingPart!Crash
  BY DEF Commands!Onboarding!Entity!Crash, OnboardingPart!Crash,
     Commands!Onboarding!Entity!Over, OnboardingPart!Over,
     Commands!Onboarding!Entity!Resumptions, OnboardingPart!Resumptions,
     Commands!Onboarding!Entity!ReadAgain, OnboardingPart!ReadAgain,
     Commands!Onboarding!Entity!Projected, OnboardingPart!Projected,
     Commands!Onboarding!Entity!Kind, OnboardingPart!Kind,
     Commands!Onboarding!StatusKind
<1>21. ASSUME NEW c,
    Commands!Onboarding!Controller(c) \/ Commands!Onboarding!Resolver(c)
      PROVE  OnboardingPart!Request(c) \/ OnboardingPart!TurnAway(c)
  BY <1>1, <1>2, <1>21
     DEF Commands!Onboarding!Controller, Commands!Onboarding!ControllerCreate,
         Commands!Onboarding!ControllerBulkCreate,
         Commands!Onboarding!ControllerUpdate,
         Commands!Onboarding!ControllerBulkUpdate,
         Commands!Onboarding!ControllerDelete,
         Commands!Onboarding!ControllerBulkDelete, Commands!Onboarding!Resolver,
         Commands!Onboarding!createCustomerGatewayOnboarding,
         Commands!Onboarding!updateCustomerGatewayOnboarding,
         Commands!Onboarding!createOrUpdateCustomerGatewayOnboarding,
         Commands!Onboarding!deleteCustomerGatewayOnboarding,
         Commands!Onboarding!CreateCustomerGatewayOnboardingHandler,
         Commands!Onboarding!UpdateCustomerGatewayOnboardingHandler
<1>22. ASSUME NEW c, Commands!Onboarding!Service(c)
      PROVE  OnboardingPart!Request(c) \/ OnboardingPart!Continue(c)
  BY <1>1, <1>3, <1>4, <1>5, <1>15, <1>22
     DEF Commands!Onboarding!Service, Commands!Onboarding!ServiceCreate,
         Commands!Onboarding!ServiceBulkCreate, Commands!Onboarding!ServiceUpdate,
         Commands!Onboarding!ServiceBulkUpdate, Commands!Onboarding!ServiceDelete,
         Commands!Onboarding!ServiceBulkDelete, OnboardingPart!Continue
<1>23. ASSUME NEW c, Commands!Onboarding!Repository(c) PROVE OnboardingPart!Continue(c)
  BY <1>6, <1>7, <1>8, <1>9, <1>10, <1>11, <1>12, <1>13, <1>14, <1>23
     DEF Commands!Onboarding!Repository, Commands!Onboarding!RepositoryCreate,
         Commands!Onboarding!RepositoryBulkCreate,
         Commands!Onboarding!RepositoryUpdate,
         Commands!Onboarding!RepositoryBulkUpdate,
         Commands!Onboarding!RepositoryDelete,
         Commands!Onboarding!RepositoryBulkDelete, OnboardingPart!Continue
<1>24. ASSUME NEW e, Commands!Onboarding!handle(e)
       PROVE  OnboardingPart!Apply(e) \/ OnboardingPart!ApplyFails(e)
  BY <1>17, <1>18, <1>24
     DEF Commands!Onboarding!handle, Commands!Onboarding!Handled,
         Commands!Onboarding!onCustomerGatewayOnboardingCreated,
         Commands!Onboarding!onCustomerGatewayOnboardingUpdated,
         Commands!Onboarding!onCustomerGatewayOnboardingDeleted,
         Commands!Onboarding!onCustomerGatewayOnboardingStarted,
         Commands!Onboarding!onCustomerGatewayOnboardingApproved,
         Commands!Onboarding!onCustomerGatewayOnboardingRejected,
         Commands!Onboarding!onCustomerGatewayOnboardingExpired
<1>25. QED
  BY <1>16, <1>19, <1>20, <1>21, <1>22, <1>23, <1>24
     DEF Commands!Onboarding!Next, OnboardingPart!Next

\* The module takes its own steps and stands still during all others.
LEMMA OnboardingStep ==
    [Next]_vars /\ module = "onboarding" => [OnboardingPart!Next]_(OnboardingPart!vars)
<1>1. CASE AtCommands /\ Commands!Next /\ module = "onboarding"
  BY <1>1, OnboardingNext
     DEF Commands!Next, Commands!CustomerStep, Commands!OnboardingStep,
         Commands!StatusStep, Commands!SyncLogStep
<1>2. CASE AtQueries \/ AtReferrals \/ AtTraces \/ AtStart \/ UNCHANGED vars
  <2>1. UNCHANGED commandVars
    BY <1>2 DEF AtQueries, AtReferrals, AtTraces, AtStart, vars
  <2>2. QED
    BY <2>1, OnboardingStays
<1>3. QED
  BY <1>1, <1>2 DEF Next, Query

\* The properties of the two instances are the same.
LEMMA OnboardingSafe ==
    OnboardingPart!IInv =>
        /\ Commands!Onboarding!Entity!TypeOK
        /\ Commands!Onboarding!Entity!RowsGrounded
        /\ Commands!Onboarding!Entity!AcknowledgedAnnounced
        /\ Commands!Onboarding!Entity!BulkPrefix
        /\ Commands!Onboarding!Entity!RefusedCreationsLeaveNothing
        /\ Commands!Onboarding!Entity!CalmRowsAreLast
<1>1. ASSUME OnboardingPart!IInv
      PROVE  /\ OnboardingPart!TypeOK
             /\ OnboardingPart!RowsGrounded
             /\ OnboardingPart!AcknowledgedAnnounced
             /\ OnboardingPart!BulkPrefix
             /\ OnboardingPart!RefusedCreationsLeaveNothing
             /\ OnboardingPart!CalmRowsAreLast
  BY <1>1, OnboardingWellPosed, OnboardingPart!IInvSafe
<1>2. OnboardingPart!TypeOK => Commands!Onboarding!Entity!TypeOK
  BY Zenon DEF Commands!Onboarding!Entity!TypeOK, OnboardingPart!TypeOK,
     Commands!Onboarding!Entity!Kind, OnboardingPart!Kind,
     Commands!Onboarding!Entity!Event, OnboardingPart!Event,
     Commands!Onboarding!Entity!Place, OnboardingPart!Place,
     Commands!Onboarding!StatusKind, Commands!Onboarding!Status
<1>3. OnboardingPart!RowsGrounded => Commands!Onboarding!Entity!RowsGrounded
  BY DEF Commands!Onboarding!Entity!RowsGrounded, OnboardingPart!RowsGrounded,
     Commands!Onboarding!Entity!Unfounded, OnboardingPart!Unfounded,
     Commands!Onboarding!Entity!InTopics, OnboardingPart!InTopics,
     Commands!Onboarding!Entity!Range, OnboardingPart!Range
<1>4. OnboardingPart!AcknowledgedAnnounced =>
      Commands!Onboarding!Entity!AcknowledgedAnnounced
  BY DEF Commands!Onboarding!Entity!AcknowledgedAnnounced,
     OnboardingPart!AcknowledgedAnnounced, Commands!Onboarding!Entity!Announced,
     OnboardingPart!Announced, Commands!Onboarding!Entity!InTopics,
     OnboardingPart!InTopics, Commands!Onboarding!Entity!Range, OnboardingPart!Range,
     Commands!Onboarding!Entity!List, OnboardingPart!List,
     Commands!Onboarding!Entity!Op, OnboardingPart!Op
<1>5. OnboardingPart!BulkPrefix => Commands!Onboarding!Entity!BulkPrefix
  BY DEF Commands!Onboarding!Entity!BulkPrefix, OnboardingPart!BulkPrefix,
     Commands!Onboarding!Entity!DoneWith, OnboardingPart!DoneWith,
     Commands!Onboarding!Entity!Announced, OnboardingPart!Announced,
     Commands!Onboarding!Entity!InTopics, OnboardingPart!InTopics,
     Commands!Onboarding!Entity!Range, OnboardingPart!Range,
     Commands!Onboarding!Entity!List, OnboardingPart!List,
     Commands!Onboarding!Entity!Op, OnboardingPart!Op
<1>6. OnboardingPart!RefusedCreationsLeaveNothing =>
      Commands!Onboarding!Entity!RefusedCreationsLeaveNothing
  BY DEF Commands!Onboarding!Entity!RefusedCreationsLeaveNothing,
     OnboardingPart!RefusedCreationsLeaveNothing, Commands!Onboarding!Entity!Announced,
     OnboardingPart!Announced, Commands!Onboarding!Entity!InTopics,
     OnboardingPart!InTopics, Commands!Onboarding!Entity!Range, OnboardingPart!Range,
     Commands!Onboarding!Entity!Op, OnboardingPart!Op
<1>7. OnboardingPart!CalmRowsAreLast => Commands!Onboarding!Entity!CalmRowsAreLast
  BY DEF Commands!Onboarding!Entity!CalmRowsAreLast, OnboardingPart!CalmRowsAreLast,
     Commands!Onboarding!Entity!Unfounded, OnboardingPart!Unfounded,
     Commands!Onboarding!Entity!InTopics, OnboardingPart!InTopics,
     Commands!Onboarding!Entity!Range, OnboardingPart!Range,
     Commands!Onboarding!Entity!NamesTwice, OnboardingPart!NamesTwice,
     Commands!Onboarding!Entity!List, OnboardingPart!List,
     Commands!Onboarding!Entity!Op, OnboardingPart!Op
<1>8. QED
  BY <1>1, <1>2, <1>3, <1>4, <1>5, <1>6, <1>7

-----------------------------------------------------------------------------
(* The commands of onboarding statuses.                                    *)

StatusPart == INSTANCE EntityCommandsProofs WITH
    Scenarios <- Scenarios["status"], Default <- NotGiven, Required <- FALSE,
    Unique <- TRUE, OtherKeys <- FALSE, StatusKind <- {},
    KindOf <- Commands!Status!KindOf

LEMMA StatusWellPosed == StatusPart!WellPosed
BY PartsAssumption, Zenon DEF Commands!WellPosed, Commands!Status!Entity!WellPosed,
       StatusPart!WellPosed, Commands!Status!Entity!IsRequest, StatusPart!IsRequest,
       Commands!Status!Entity!Unsent, StatusPart!Unsent, Commands!Status!Entity!Kind,
       StatusPart!Kind, Commands!Status!Entity!Single, StatusPart!Single,
       Commands!Status!Entity!Bulk, StatusPart!Bulk, Commands!Status!Entity!Item,
       StatusPart!Item,
       Commands!Status!StatusKind, Commands!Status!KindOf

LEMMA StatusInit == Init /\ module = "status" => StatusPart!Init
BY DEF Init, CommandsAtRest, Commands!Init, Commands!Status!Init,
       Commands!Status!Entity!Init, StatusPart!Init, Commands!Status!Entity!Kind,
       StatusPart!Kind,
       Commands!Status!StatusKind

LEMMA StatusStays == UNCHANGED commandVars => UNCHANGED StatusPart!vars
BY DEF commandVars, StatusPart!vars, StatusPart!commandState, StatusPart!busState,
       StatusPart!replayState, StatusPart!history

LEMMA StatusNext == Commands!Status!Next => StatusPart!Next
<1> USE DEF Commands!Status!Entity!At, StatusPart!At, Commands!Status!Entity!Goto,
            StatusPart!Goto, Commands!Status!Entity!Op, StatusPart!Op,
            Commands!Status!Entity!List, StatusPart!List, Commands!Status!Entity!Now,
            StatusPart!Now, Commands!Status!Entity!HasNext, StatusPart!HasNext,
            Commands!Status!Entity!commandState, StatusPart!commandState,
            Commands!Status!Entity!busState, StatusPart!busState,
            Commands!Status!Entity!replayState, StatusPart!replayState,
            Commands!Status!Entity!history, StatusPart!history
<1>1. ASSUME NEW c, Commands!Status!Entity!Request(c) PROVE StatusPart!Request(c)
  BY <1>1 DEF Commands!Status!Entity!Request, StatusPart!Request,
     Commands!Status!Entity!Enter, StatusPart!Enter, Commands!Status!Entity!Quiet,
     StatusPart!Quiet, Commands!Status!Entity!Kind, StatusPart!Kind,
     Commands!Status!Entity!Over, StatusPart!Over, Commands!Status!Entity!Unsent,
     StatusPart!Unsent, Commands!Status!StatusKind
<1>2. ASSUME NEW c, Commands!Status!Entity!TurnAway(c) PROVE StatusPart!TurnAway(c)
  BY <1>2 DEF Commands!Status!Entity!TurnAway, StatusPart!TurnAway,
     Commands!Status!Entity!Enter, StatusPart!Enter, Commands!Status!Entity!Quiet,
     StatusPart!Quiet, Commands!Status!Entity!Kind, StatusPart!Kind,
     Commands!Status!Entity!Over, StatusPart!Over, Commands!Status!Entity!Unsent,
     StatusPart!Unsent, Commands!Status!StatusKind
<1>3. ASSUME NEW c, Commands!Status!Entity!Check(c) PROVE StatusPart!Check(c)
  BY <1>3 DEF Commands!Status!Entity!Check, StatusPart!Check,
     Commands!Status!Entity!Bulk, StatusPart!Bulk
<1>4. ASSUME NEW c, Commands!Status!Entity!LoadForUpdate(c)
      PROVE  StatusPart!LoadForUpdate(c)
  BY <1>4 DEF Commands!Status!Entity!LoadForUpdate, StatusPart!LoadForUpdate
<1>5. ASSUME NEW c, Commands!Status!Entity!LoadForDelete(c)
      PROVE  StatusPart!LoadForDelete(c)
  BY <1>5 DEF Commands!Status!Entity!LoadForDelete, StatusPart!LoadForDelete
<1>6. ASSUME NEW c, Commands!Status!Entity!SaveOne(c) PROVE StatusPart!SaveOne(c)
  BY <1>6 DEF Commands!Status!Entity!SaveOne, StatusPart!SaveOne,
     Commands!Status!Entity!Given, StatusPart!Given, Commands!Status!Entity!Insertable,
     StatusPart!Insertable, Commands!Status!Entity!Taken, StatusPart!Taken,
     Commands!Status!Entity!Author, StatusPart!Author, Commands!Status!Entity!Publish,
     StatusPart!Publish, Commands!Status!Entity!NewEvent, StatusPart!NewEvent
<1>7. ASSUME NEW c, Commands!Status!Entity!SaveAll(c) PROVE StatusPart!SaveAll(c)
  BY <1>7 DEF Commands!Status!Entity!SaveAll, StatusPart!SaveAll,
     Commands!Status!Entity!Given, StatusPart!Given, Commands!Status!Entity!Insertable,
     StatusPart!Insertable, Commands!Status!Entity!Taken, StatusPart!Taken,
     Commands!Status!Entity!Author, StatusPart!Author, Commands!Status!Entity!Publish,
     StatusPart!Publish, Commands!Status!Entity!NewEvent, StatusPart!NewEvent,
     Commands!Status!Entity!Items, StatusPart!Items, Commands!Status!Entity!Ids,
     StatusPart!Ids
<1>8. ASSUME NEW c, Commands!Status!Entity!Overwrite(c) PROVE StatusPart!Overwrite(c)
  BY <1>8 DEF Commands!Status!Entity!Overwrite, StatusPart!Overwrite,
     Commands!Status!Entity!Given, StatusPart!Given, Commands!Status!Entity!Candidate,
     StatusPart!Candidate, Commands!Status!Entity!Taken, StatusPart!Taken,
     Commands!Status!Entity!Author, StatusPart!Author
<1>9. ASSUME NEW c, Commands!Status!Entity!Reload(c) PROVE StatusPart!Reload(c)
  BY <1>9 DEF Commands!Status!Entity!Reload, StatusPart!Reload,
     Commands!Status!Entity!Publish, StatusPart!Publish,
     Commands!Status!Entity!NewEvent, StatusPart!NewEvent,
     Commands!Status!Entity!NextItem, StatusPart!NextItem
<1>10. ASSUME NEW c, Commands!Status!Entity!PublishAgain(c)
       PROVE  StatusPart!PublishAgain(c)
  BY <1>10 DEF Commands!Status!Entity!PublishAgain, StatusPart!PublishAgain,
     Commands!Status!Entity!NewEvent, StatusPart!NewEvent,
     Commands!Status!Entity!NextItem, StatusPart!NextItem
<1>11. ASSUME NEW c, Commands!Status!Entity!Find(c) PROVE StatusPart!Find(c)
  BY <1>11 DEF Commands!Status!Entity!Find, StatusPart!Find
<1>12. ASSUME NEW c, Commands!Status!Entity!Remove(c) PROVE StatusPart!Remove(c)
  BY <1>12 DEF Commands!Status!Entity!Remove, StatusPart!Remove,
     Commands!Status!Entity!Author, StatusPart!Author, Commands!Status!Entity!Publish,
     StatusPart!Publish, Commands!Status!Entity!NewEvent, StatusPart!NewEvent
<1>13. ASSUME NEW c, Commands!Status!Entity!RemoveAll(c) PROVE StatusPart!RemoveAll(c)
  BY <1>13 DEF Commands!Status!Entity!RemoveAll, StatusPart!RemoveAll,
     Commands!Status!Entity!Author, StatusPart!Author, Commands!Status!Entity!Items,
     StatusPart!Items, Commands!Status!Entity!Ids, StatusPart!Ids
<1>14. ASSUME NEW c, Commands!Status!Entity!FindRemoved(c)
       PROVE  StatusPart!FindRemoved(c)
  BY <1>14 DEF Commands!Status!Entity!FindRemoved, StatusPart!FindRemoved,
     Commands!Status!Entity!Publish, StatusPart!Publish,
     Commands!Status!Entity!NewEvent, StatusPart!NewEvent
<1>15. ASSUME NEW c, Commands!Status!Entity!Announce(c) PROVE StatusPart!Announce(c)
  BY <1>15 DEF Commands!Status!Entity!Announce, StatusPart!Announce,
     Commands!Status!Entity!DslValue, StatusPart!DslValue,
     Commands!Status!Entity!NewEvent, StatusPart!NewEvent, Commands!Status!KindOf
<1>16. ASSUME NEW c, Commands!Status!Entity!Fail(c) PROVE StatusPart!Fail(c)
  BY <1>16 DEF Commands!Status!Entity!Fail, StatusPart!Fail,
     Commands!Status!Entity!BreaksKey, StatusPart!BreaksKey,
     Commands!Status!Entity!At, StatusPart!At, Commands!Status!Entity!Op, StatusPart!Op,
     Commands!Status!Entity!Place, StatusPart!Place, Commands!Status!Entity!Over,
     StatusPart!Over
<1>17. ASSUME NEW e, Commands!Status!Entity!Apply(e) PROVE StatusPart!Apply(e)
  BY <1>17 DEF Commands!Status!Entity!Apply, StatusPart!Apply,
     Commands!Status!Entity!Saves, StatusPart!Saves, Commands!Status!Entity!Projected,
     StatusPart!Projected, Commands!Status!Entity!Taken, StatusPart!Taken
<1>18. ASSUME NEW e, Commands!Status!Entity!ApplyFails(e) PROVE StatusPart!ApplyFails(e)
  BY <1>18 DEF Commands!Status!Entity!ApplyFails, StatusPart!ApplyFails,
     Commands!Status!Entity!Saves, StatusPart!Saves, Commands!Status!Entity!Taken,
     StatusPart!Taken
<1>19. Commands!Status!Entity!Kafka => StatusPart!Kafka
  BY DEF Commands!Status!Entity!Kafka, StatusPart!Kafka, Commands!Status!Entity!Settle,
     StatusPart!Settle, Commands!Status!Entity!Send, StatusPart!Send,
     Commands!Status!Entity!SendFails, StatusPart!SendFails,
     Commands!Status!Entity!Route, StatusPart!Route, Commands!Status!Entity!Replay,
     StatusPart!Replay, Commands!Status!Entity!StartReplay, StatusPart!StartReplay,
     Commands!Status!Entity!Pending, StatusPart!Pending,
     Commands!Status!Entity!Upcoming, StatusPart!Upcoming,
     Commands!Status!Entity!Consume, StatusPart!Consume, Commands!Status!Entity!Kind,
     StatusPart!Kind, Commands!Status!StatusKind
<1>20. Commands!Status!Entity!Crash => StatusPart!Crash
  BY DEF Commands!Status!Entity!Crash, StatusPart!Crash,
     Commands!Status!Entity!Over, StatusPart!Over,
     Commands!Status!Entity!Resumptions, StatusPart!Resumptions,
     Commands!Status!Entity!ReadAgain, StatusPart!ReadAgain,
     Commands!Status!Entity!Projected, StatusPart!Projected,
     Commands!Status!Entity!Kind, StatusPart!Kind,
     Commands!Status!StatusKind
<1>21. ASSUME NEW c, Commands!Status!Controller(c) \/ Commands!Status!Resolver(c)
      PROVE  StatusPart!Request(c) \/ StatusPart!TurnAway(c)
  BY <1>1, <1>2, <1>21
     DEF Commands!Status!Controller, Commands!Status!ControllerCreate,
         Commands!Status!ControllerBulkCreate, Commands!Status!ControllerUpdate,
         Commands!Status!ControllerBulkUpdate, Commands!Status!ControllerDelete,
         Commands!Status!ControllerBulkDelete, Commands!Status!Resolver,
         Commands!Status!createCustomerOnboardingStatus,
         Commands!Status!updateCustomerOnboardingStatus,
         Commands!Status!createOrUpdateCustomerOnboardingStatus,
         Commands!Status!deleteCustomerOnboardingStatus,
         Commands!Status!CreateCustomerOnboardingStatusHandler,
         Commands!Status!UpdateCustomerOnboardingStatusHandler
<1>22. ASSUME NEW c, Commands!Status!Service(c)
      PROVE  StatusPart!Request(c) \/ StatusPart!Continue(c)
  BY <1>1, <1>3, <1>4, <1>5, <1>15, <1>22
     DEF Commands!Status!Service, Commands!Status!ServiceCreate,
         Commands!Status!ServiceBulkCreate, Commands!Status!ServiceUpdate,
         Commands!Status!ServiceBulkUpdate, Commands!Status!ServiceDelete,
         Commands!Status!ServiceBulkDelete, StatusPart!Continue
<1>23. ASSUME NEW c, Commands!Status!Repository(c) PROVE StatusPart!Continue(c)
  BY <1>6, <1>7, <1>8, <1>9, <1>10, <1>11, <1>12, <1>13, <1>14, <1>23
     DEF Commands!Status!Repository, Commands!Status!RepositoryCreate,
         Commands!Status!RepositoryBulkCreate, Commands!Status!RepositoryUpdate,
         Commands!Status!RepositoryBulkUpdate, Commands!Status!RepositoryDelete,
         Commands!Status!RepositoryBulkDelete, StatusPart!Continue
<1>24. ASSUME NEW e, Commands!Status!handle(e)
       PROVE  StatusPart!Apply(e) \/ StatusPart!ApplyFails(e)
  BY <1>17, <1>18, <1>24
     DEF Commands!Status!handle, Commands!Status!Handled,
         Commands!Status!onCustomerOnboardingStatusCreated,
         Commands!Status!onCustomerOnboardingStatusUpdated,
         Commands!Status!onCustomerOnboardingStatusDeleted
<1>25. QED
  BY <1>16, <1>19, <1>20, <1>21, <1>22, <1>23, <1>24
     DEF Commands!Status!Next, StatusPart!Next

\* The module takes its own steps and stands still during all others.
LEMMA StatusStep ==
    [Next]_vars /\ module = "status" => [StatusPart!Next]_(StatusPart!vars)
<1>1. CASE AtCommands /\ Commands!Next /\ module = "status"
  BY <1>1, StatusNext
     DEF Commands!Next, Commands!CustomerStep, Commands!OnboardingStep,
         Commands!StatusStep, Commands!SyncLogStep
<1>2. CASE AtQueries \/ AtReferrals \/ AtTraces \/ AtStart \/ UNCHANGED vars
  <2>1. UNCHANGED commandVars
    BY <1>2 DEF AtQueries, AtReferrals, AtTraces, AtStart, vars
  <2>2. QED
    BY <2>1, StatusStays
<1>3. QED
  BY <1>1, <1>2 DEF Next, Query

\* The properties of the two instances are the same.
LEMMA StatusSafe ==
    StatusPart!IInv =>
        /\ Commands!Status!Entity!TypeOK
        /\ Commands!Status!Entity!RowsGrounded
        /\ Commands!Status!Entity!AcknowledgedAnnounced
        /\ Commands!Status!Entity!BulkPrefix
        /\ Commands!Status!Entity!RefusedCreationsLeaveNothing
        /\ Commands!Status!Entity!CalmRowsAreLast
<1>1. ASSUME StatusPart!IInv
      PROVE  /\ StatusPart!TypeOK
             /\ StatusPart!RowsGrounded
             /\ StatusPart!AcknowledgedAnnounced
             /\ StatusPart!BulkPrefix
             /\ StatusPart!RefusedCreationsLeaveNothing
             /\ StatusPart!CalmRowsAreLast
  BY <1>1, StatusWellPosed, StatusPart!IInvSafe
<1>2. StatusPart!TypeOK => Commands!Status!Entity!TypeOK
  BY Zenon DEF Commands!Status!Entity!TypeOK, StatusPart!TypeOK,
     Commands!Status!Entity!Kind,
     StatusPart!Kind, Commands!Status!Entity!Event, StatusPart!Event,
     Commands!Status!Entity!Place, StatusPart!Place, Commands!Status!StatusKind
<1>3. StatusPart!RowsGrounded => Commands!Status!Entity!RowsGrounded
  BY DEF Commands!Status!Entity!RowsGrounded, StatusPart!RowsGrounded,
     Commands!Status!Entity!Unfounded, StatusPart!Unfounded,
     Commands!Status!Entity!InTopics, StatusPart!InTopics,
     Commands!Status!Entity!Range, StatusPart!Range
<1>4. StatusPart!AcknowledgedAnnounced => Commands!Status!Entity!AcknowledgedAnnounced
  BY DEF Commands!Status!Entity!AcknowledgedAnnounced,
     StatusPart!AcknowledgedAnnounced, Commands!Status!Entity!Announced,
     StatusPart!Announced, Commands!Status!Entity!InTopics, StatusPart!InTopics,
     Commands!Status!Entity!Range, StatusPart!Range, Commands!Status!Entity!List,
     StatusPart!List, Commands!Status!Entity!Op, StatusPart!Op
<1>5. StatusPart!BulkPrefix => Commands!Status!Entity!BulkPrefix
  BY DEF Commands!Status!Entity!BulkPrefix, StatusPart!BulkPrefix,
     Commands!Status!Entity!DoneWith, StatusPart!DoneWith,
     Commands!Status!Entity!Announced, StatusPart!Announced,
     Commands!Status!Entity!InTopics, StatusPart!InTopics,
     Commands!Status!Entity!Range, StatusPart!Range, Commands!Status!Entity!List,
     StatusPart!List, Commands!Status!Entity!Op, StatusPart!Op
<1>6. StatusPart!RefusedCreationsLeaveNothing =>
      Commands!Status!Entity!RefusedCreationsLeaveNothing
  BY DEF Commands!Status!Entity!RefusedCreationsLeaveNothing,
     StatusPart!RefusedCreationsLeaveNothing, Commands!Status!Entity!Announced,
     StatusPart!Announced, Commands!Status!Entity!InTopics, StatusPart!InTopics,
     Commands!Status!Entity!Range, StatusPart!Range, Commands!Status!Entity!Op,
     StatusPart!Op
<1>7. StatusPart!CalmRowsAreLast => Commands!Status!Entity!CalmRowsAreLast
  BY DEF Commands!Status!Entity!CalmRowsAreLast, StatusPart!CalmRowsAreLast,
     Commands!Status!Entity!Unfounded, StatusPart!Unfounded,
     Commands!Status!Entity!InTopics, StatusPart!InTopics,
     Commands!Status!Entity!Range, StatusPart!Range, Commands!Status!Entity!NamesTwice,
     StatusPart!NamesTwice, Commands!Status!Entity!List, StatusPart!List,
     Commands!Status!Entity!Op, StatusPart!Op
<1>8. QED
  BY <1>1, <1>2, <1>3, <1>4, <1>5, <1>6, <1>7

-----------------------------------------------------------------------------
(* The commands of catalog sync logs.                                      *)

SyncLogPart == INSTANCE EntityCommandsProofs WITH
    Scenarios <- Scenarios["synclog"], Default <- NotGiven, Required <- TRUE,
    Unique <- FALSE, OtherKeys <- FALSE, StatusKind <- Commands!SyncLog!StatusKind,
    KindOf <- Commands!SyncLog!KindOf

LEMMA SyncLogWellPosed == SyncLogPart!WellPosed
BY PartsAssumption, Zenon DEF Commands!WellPosed, Commands!SyncLog!Entity!WellPosed,
       SyncLogPart!WellPosed, Commands!SyncLog!Entity!IsRequest, SyncLogPart!IsRequest,
       Commands!SyncLog!Entity!Unsent, SyncLogPart!Unsent,
       Commands!SyncLog!Entity!Kind, SyncLogPart!Kind, Commands!SyncLog!Entity!Single,
       SyncLogPart!Single, Commands!SyncLog!Entity!Bulk, SyncLogPart!Bulk,
       Commands!SyncLog!Entity!Item, SyncLogPart!Item,
       Commands!SyncLog!StatusKind, Commands!SyncLog!KindOf

LEMMA SyncLogInit == Init /\ module = "synclog" => SyncLogPart!Init
BY DEF Init, CommandsAtRest, Commands!Init, Commands!SyncLog!Init,
       Commands!SyncLog!Entity!Init, SyncLogPart!Init, Commands!SyncLog!Entity!Kind,
       SyncLogPart!Kind,
       Commands!SyncLog!StatusKind

LEMMA SyncLogStays == UNCHANGED commandVars => UNCHANGED SyncLogPart!vars
BY DEF commandVars, SyncLogPart!vars, SyncLogPart!commandState, SyncLogPart!busState,
       SyncLogPart!replayState, SyncLogPart!history

LEMMA SyncLogNext == Commands!SyncLog!Next => SyncLogPart!Next
<1> USE DEF Commands!SyncLog!Entity!At, SyncLogPart!At, Commands!SyncLog!Entity!Goto,
            SyncLogPart!Goto, Commands!SyncLog!Entity!Op, SyncLogPart!Op,
            Commands!SyncLog!Entity!List, SyncLogPart!List,
            Commands!SyncLog!Entity!Now, SyncLogPart!Now,
            Commands!SyncLog!Entity!HasNext, SyncLogPart!HasNext,
            Commands!SyncLog!Entity!commandState, SyncLogPart!commandState,
            Commands!SyncLog!Entity!busState, SyncLogPart!busState,
            Commands!SyncLog!Entity!replayState, SyncLogPart!replayState,
            Commands!SyncLog!Entity!history, SyncLogPart!history
<1>1. ASSUME NEW c, Commands!SyncLog!Entity!Request(c) PROVE SyncLogPart!Request(c)
  BY <1>1 DEF Commands!SyncLog!Entity!Request, SyncLogPart!Request,
     Commands!SyncLog!Entity!Enter, SyncLogPart!Enter, Commands!SyncLog!Entity!Quiet,
     SyncLogPart!Quiet, Commands!SyncLog!Entity!Kind, SyncLogPart!Kind,
     Commands!SyncLog!Entity!Over, SyncLogPart!Over, Commands!SyncLog!Entity!Unsent,
     SyncLogPart!Unsent, Commands!SyncLog!StatusKind
<1>2. ASSUME NEW c, Commands!SyncLog!Entity!TurnAway(c) PROVE SyncLogPart!TurnAway(c)
  BY <1>2 DEF Commands!SyncLog!Entity!TurnAway, SyncLogPart!TurnAway,
     Commands!SyncLog!Entity!Enter, SyncLogPart!Enter, Commands!SyncLog!Entity!Quiet,
     SyncLogPart!Quiet, Commands!SyncLog!Entity!Kind, SyncLogPart!Kind,
     Commands!SyncLog!Entity!Over, SyncLogPart!Over, Commands!SyncLog!Entity!Unsent,
     SyncLogPart!Unsent, Commands!SyncLog!StatusKind
<1>3. ASSUME NEW c, Commands!SyncLog!Entity!Check(c) PROVE SyncLogPart!Check(c)
  BY <1>3 DEF Commands!SyncLog!Entity!Check, SyncLogPart!Check,
     Commands!SyncLog!Entity!Bulk, SyncLogPart!Bulk
<1>4. ASSUME NEW c, Commands!SyncLog!Entity!LoadForUpdate(c)
      PROVE  SyncLogPart!LoadForUpdate(c)
  BY <1>4 DEF Commands!SyncLog!Entity!LoadForUpdate, SyncLogPart!LoadForUpdate
<1>5. ASSUME NEW c, Commands!SyncLog!Entity!LoadForDelete(c)
      PROVE  SyncLogPart!LoadForDelete(c)
  BY <1>5 DEF Commands!SyncLog!Entity!LoadForDelete, SyncLogPart!LoadForDelete
<1>6. ASSUME NEW c, Commands!SyncLog!Entity!SaveOne(c) PROVE SyncLogPart!SaveOne(c)
  BY <1>6 DEF Commands!SyncLog!Entity!SaveOne, SyncLogPart!SaveOne,
     Commands!SyncLog!Entity!Given, SyncLogPart!Given,
     Commands!SyncLog!Entity!Insertable, SyncLogPart!Insertable,
     Commands!SyncLog!Entity!Taken, SyncLogPart!Taken, Commands!SyncLog!Entity!Author,
     SyncLogPart!Author, Commands!SyncLog!Entity!Publish, SyncLogPart!Publish,
     Commands!SyncLog!Entity!NewEvent, SyncLogPart!NewEvent
<1>7. ASSUME NEW c, Commands!SyncLog!Entity!SaveAll(c) PROVE SyncLogPart!SaveAll(c)
  BY <1>7 DEF Commands!SyncLog!Entity!SaveAll, SyncLogPart!SaveAll,
     Commands!SyncLog!Entity!Given, SyncLogPart!Given,
     Commands!SyncLog!Entity!Insertable, SyncLogPart!Insertable,
     Commands!SyncLog!Entity!Taken, SyncLogPart!Taken, Commands!SyncLog!Entity!Author,
     SyncLogPart!Author, Commands!SyncLog!Entity!Publish, SyncLogPart!Publish,
     Commands!SyncLog!Entity!NewEvent, SyncLogPart!NewEvent,
     Commands!SyncLog!Entity!Items, SyncLogPart!Items, Commands!SyncLog!Entity!Ids,
     SyncLogPart!Ids
<1>8. ASSUME NEW c, Commands!SyncLog!Entity!Overwrite(c) PROVE SyncLogPart!Overwrite(c)
  BY <1>8 DEF Commands!SyncLog!Entity!Overwrite, SyncLogPart!Overwrite,
     Commands!SyncLog!Entity!Given, SyncLogPart!Given,
     Commands!SyncLog!Entity!Candidate, SyncLogPart!Candidate,
     Commands!SyncLog!Entity!Taken, SyncLogPart!Taken, Commands!SyncLog!Entity!Author,
     SyncLogPart!Author
<1>9. ASSUME NEW c, Commands!SyncLog!Entity!Reload(c) PROVE SyncLogPart!Reload(c)
  BY <1>9 DEF Commands!SyncLog!Entity!Reload, SyncLogPart!Reload,
     Commands!SyncLog!Entity!Publish, SyncLogPart!Publish,
     Commands!SyncLog!Entity!NewEvent, SyncLogPart!NewEvent,
     Commands!SyncLog!Entity!NextItem, SyncLogPart!NextItem
<1>10. ASSUME NEW c, Commands!SyncLog!Entity!PublishAgain(c)
       PROVE  SyncLogPart!PublishAgain(c)
  BY <1>10 DEF Commands!SyncLog!Entity!PublishAgain, SyncLogPart!PublishAgain,
     Commands!SyncLog!Entity!NewEvent, SyncLogPart!NewEvent,
     Commands!SyncLog!Entity!NextItem, SyncLogPart!NextItem
<1>11. ASSUME NEW c, Commands!SyncLog!Entity!Find(c) PROVE SyncLogPart!Find(c)
  BY <1>11 DEF Commands!SyncLog!Entity!Find, SyncLogPart!Find
<1>12. ASSUME NEW c, Commands!SyncLog!Entity!Remove(c) PROVE SyncLogPart!Remove(c)
  BY <1>12 DEF Commands!SyncLog!Entity!Remove, SyncLogPart!Remove,
     Commands!SyncLog!Entity!Author, SyncLogPart!Author,
     Commands!SyncLog!Entity!Publish, SyncLogPart!Publish,
     Commands!SyncLog!Entity!NewEvent, SyncLogPart!NewEvent
<1>13. ASSUME NEW c, Commands!SyncLog!Entity!RemoveAll(c) PROVE SyncLogPart!RemoveAll(c)
  BY <1>13 DEF Commands!SyncLog!Entity!RemoveAll, SyncLogPart!RemoveAll,
     Commands!SyncLog!Entity!Author, SyncLogPart!Author, Commands!SyncLog!Entity!Items,
     SyncLogPart!Items, Commands!SyncLog!Entity!Ids, SyncLogPart!Ids
<1>14. ASSUME NEW c, Commands!SyncLog!Entity!FindRemoved(c)
       PROVE  SyncLogPart!FindRemoved(c)
  BY <1>14 DEF Commands!SyncLog!Entity!FindRemoved, SyncLogPart!FindRemoved,
     Commands!SyncLog!Entity!Publish, SyncLogPart!Publish,
     Commands!SyncLog!Entity!NewEvent, SyncLogPart!NewEvent
<1>15. ASSUME NEW c, Commands!SyncLog!Entity!Announce(c) PROVE SyncLogPart!Announce(c)
  BY <1>15 DEF Commands!SyncLog!Entity!Announce, SyncLogPart!Announce,
     Commands!SyncLog!Entity!DslValue, SyncLogPart!DslValue,
     Commands!SyncLog!Entity!NewEvent, SyncLogPart!NewEvent, Commands!SyncLog!KindOf
<1>16. ASSUME NEW c, Commands!SyncLog!Entity!Fail(c) PROVE SyncLogPart!Fail(c)
  BY <1>16 DEF Commands!SyncLog!Entity!Fail, SyncLogPart!Fail,
     Commands!SyncLog!Entity!BreaksKey, SyncLogPart!BreaksKey,
     Commands!SyncLog!Entity!At, SyncLogPart!At, Commands!SyncLog!Entity!Op, SyncLogPart!Op,
     Commands!SyncLog!Entity!Place, SyncLogPart!Place, Commands!SyncLog!Entity!Over,
     SyncLogPart!Over
<1>17. ASSUME NEW e, Commands!SyncLog!Entity!Apply(e) PROVE SyncLogPart!Apply(e)
  BY <1>17 DEF Commands!SyncLog!Entity!Apply, SyncLogPart!Apply,
     Commands!SyncLog!Entity!Saves, SyncLogPart!Saves,
     Commands!SyncLog!Entity!Projected, SyncLogPart!Projected,
     Commands!SyncLog!Entity!Taken, SyncLogPart!Taken
<1>18. ASSUME NEW e, Commands!SyncLog!Entity!ApplyFails(e)
       PROVE  SyncLogPart!ApplyFails(e)
  BY <1>18 DEF Commands!SyncLog!Entity!ApplyFails, SyncLogPart!ApplyFails,
     Commands!SyncLog!Entity!Saves, SyncLogPart!Saves, Commands!SyncLog!Entity!Taken,
     SyncLogPart!Taken
<1>19. Commands!SyncLog!Entity!Kafka => SyncLogPart!Kafka
  BY DEF Commands!SyncLog!Entity!Kafka, SyncLogPart!Kafka,
     Commands!SyncLog!Entity!Settle, SyncLogPart!Settle, Commands!SyncLog!Entity!Send,
     SyncLogPart!Send, Commands!SyncLog!Entity!SendFails, SyncLogPart!SendFails,
     Commands!SyncLog!Entity!Route, SyncLogPart!Route, Commands!SyncLog!Entity!Replay,
     SyncLogPart!Replay, Commands!SyncLog!Entity!StartReplay, SyncLogPart!StartReplay,
     Commands!SyncLog!Entity!Pending, SyncLogPart!Pending,
     Commands!SyncLog!Entity!Upcoming, SyncLogPart!Upcoming,
     Commands!SyncLog!Entity!Consume, SyncLogPart!Consume,
     Commands!SyncLog!Entity!Kind, SyncLogPart!Kind, Commands!SyncLog!StatusKind
<1>20. Commands!SyncLog!Entity!Crash => SyncLogPart!Crash
  BY DEF Commands!SyncLog!Entity!Crash, SyncLogPart!Crash,
     Commands!SyncLog!Entity!Over, SyncLogPart!Over,
     Commands!SyncLog!Entity!Resumptions, SyncLogPart!Resumptions,
     Commands!SyncLog!Entity!ReadAgain, SyncLogPart!ReadAgain,
     Commands!SyncLog!Entity!Projected, SyncLogPart!Projected,
     Commands!SyncLog!Entity!Kind, SyncLogPart!Kind,
     Commands!SyncLog!StatusKind
<1>21. ASSUME NEW c, Commands!SyncLog!Controller(c) \/ Commands!SyncLog!Resolver(c)
      PROVE  SyncLogPart!Request(c) \/ SyncLogPart!TurnAway(c)
  BY <1>1, <1>2, <1>21
     DEF Commands!SyncLog!Controller, Commands!SyncLog!ControllerCreate,
         Commands!SyncLog!ControllerBulkCreate, Commands!SyncLog!ControllerUpdate,
         Commands!SyncLog!ControllerBulkUpdate, Commands!SyncLog!ControllerDelete,
         Commands!SyncLog!ControllerBulkDelete, Commands!SyncLog!Resolver,
         Commands!SyncLog!createCatalogSyncLog, Commands!SyncLog!updateCatalogSyncLog,
         Commands!SyncLog!createOrUpdateCatalogSyncLog,
         Commands!SyncLog!deleteCatalogSyncLog,
         Commands!SyncLog!CreateCatalogSyncLogHandler,
         Commands!SyncLog!UpdateCatalogSyncLogHandler
<1>22. ASSUME NEW c, Commands!SyncLog!Service(c)
      PROVE  SyncLogPart!Request(c) \/ SyncLogPart!Continue(c)
  BY <1>1, <1>3, <1>4, <1>5, <1>15, <1>22
     DEF Commands!SyncLog!Service, Commands!SyncLog!ServiceCreate,
         Commands!SyncLog!ServiceBulkCreate, Commands!SyncLog!ServiceUpdate,
         Commands!SyncLog!ServiceBulkUpdate, Commands!SyncLog!ServiceDelete,
         Commands!SyncLog!ServiceBulkDelete, SyncLogPart!Continue
<1>23. ASSUME NEW c, Commands!SyncLog!Repository(c) PROVE SyncLogPart!Continue(c)
  BY <1>6, <1>7, <1>8, <1>9, <1>10, <1>11, <1>12, <1>13, <1>14, <1>23
     DEF Commands!SyncLog!Repository, Commands!SyncLog!RepositoryCreate,
         Commands!SyncLog!RepositoryBulkCreate, Commands!SyncLog!RepositoryUpdate,
         Commands!SyncLog!RepositoryBulkUpdate, Commands!SyncLog!RepositoryDelete,
         Commands!SyncLog!RepositoryBulkDelete, SyncLogPart!Continue
<1>24. ASSUME NEW e, Commands!SyncLog!handle(e)
       PROVE  SyncLogPart!Apply(e) \/ SyncLogPart!ApplyFails(e)
  BY <1>17, <1>18, <1>24
     DEF Commands!SyncLog!handle, Commands!SyncLog!Handled,
         Commands!SyncLog!onCatalogSyncLogCreated,
         Commands!SyncLog!onCatalogSyncLogUpdated,
         Commands!SyncLog!onCatalogSyncLogDeleted,
         Commands!SyncLog!onCatalogSyncCompleted, Commands!SyncLog!onCatalogSyncFailed
<1>25. QED
  BY <1>16, <1>19, <1>20, <1>21, <1>22, <1>23, <1>24
     DEF Commands!SyncLog!Next, SyncLogPart!Next

\* The module takes its own steps and stands still during all others.
LEMMA SyncLogStep ==
    [Next]_vars /\ module = "synclog" => [SyncLogPart!Next]_(SyncLogPart!vars)
<1>1. CASE AtCommands /\ Commands!Next /\ module = "synclog"
  BY <1>1, SyncLogNext
     DEF Commands!Next, Commands!CustomerStep, Commands!OnboardingStep,
         Commands!StatusStep, Commands!SyncLogStep
<1>2. CASE AtQueries \/ AtReferrals \/ AtTraces \/ AtStart \/ UNCHANGED vars
  <2>1. UNCHANGED commandVars
    BY <1>2 DEF AtQueries, AtReferrals, AtTraces, AtStart, vars
  <2>2. QED
    BY <2>1, SyncLogStays
<1>3. QED
  BY <1>1, <1>2 DEF Next, Query

\* The properties of the two instances are the same.
LEMMA SyncLogSafe ==
    SyncLogPart!IInv =>
        /\ Commands!SyncLog!Entity!TypeOK
        /\ Commands!SyncLog!Entity!RowsGrounded
        /\ Commands!SyncLog!Entity!AcknowledgedAnnounced
        /\ Commands!SyncLog!Entity!BulkPrefix
        /\ Commands!SyncLog!Entity!RefusedCreationsLeaveNothing
        /\ Commands!SyncLog!Entity!CalmRowsAreLast
<1>1. ASSUME SyncLogPart!IInv
      PROVE  /\ SyncLogPart!TypeOK
             /\ SyncLogPart!RowsGrounded
             /\ SyncLogPart!AcknowledgedAnnounced
             /\ SyncLogPart!BulkPrefix
             /\ SyncLogPart!RefusedCreationsLeaveNothing
             /\ SyncLogPart!CalmRowsAreLast
  BY <1>1, SyncLogWellPosed, SyncLogPart!IInvSafe
<1>2. SyncLogPart!TypeOK => Commands!SyncLog!Entity!TypeOK
  BY Zenon DEF Commands!SyncLog!Entity!TypeOK, SyncLogPart!TypeOK,
     Commands!SyncLog!Entity!Kind, SyncLogPart!Kind, Commands!SyncLog!Entity!Event,
     SyncLogPart!Event, Commands!SyncLog!Entity!Place, SyncLogPart!Place,
     Commands!SyncLog!StatusKind
<1>3. SyncLogPart!RowsGrounded => Commands!SyncLog!Entity!RowsGrounded
  BY DEF Commands!SyncLog!Entity!RowsGrounded, SyncLogPart!RowsGrounded,
     Commands!SyncLog!Entity!Unfounded, SyncLogPart!Unfounded,
     Commands!SyncLog!Entity!InTopics, SyncLogPart!InTopics,
     Commands!SyncLog!Entity!Range, SyncLogPart!Range
<1>4. SyncLogPart!AcknowledgedAnnounced => Commands!SyncLog!Entity!AcknowledgedAnnounced
  BY DEF Commands!SyncLog!Entity!AcknowledgedAnnounced,
     SyncLogPart!AcknowledgedAnnounced, Commands!SyncLog!Entity!Announced,
     SyncLogPart!Announced, Commands!SyncLog!Entity!InTopics, SyncLogPart!InTopics,
     Commands!SyncLog!Entity!Range, SyncLogPart!Range, Commands!SyncLog!Entity!List,
     SyncLogPart!List, Commands!SyncLog!Entity!Op, SyncLogPart!Op
<1>5. SyncLogPart!BulkPrefix => Commands!SyncLog!Entity!BulkPrefix
  BY DEF Commands!SyncLog!Entity!BulkPrefix, SyncLogPart!BulkPrefix,
     Commands!SyncLog!Entity!DoneWith, SyncLogPart!DoneWith,
     Commands!SyncLog!Entity!Announced, SyncLogPart!Announced,
     Commands!SyncLog!Entity!InTopics, SyncLogPart!InTopics,
     Commands!SyncLog!Entity!Range, SyncLogPart!Range, Commands!SyncLog!Entity!List,
     SyncLogPart!List, Commands!SyncLog!Entity!Op, SyncLogPart!Op
<1>6. SyncLogPart!RefusedCreationsLeaveNothing =>
      Commands!SyncLog!Entity!RefusedCreationsLeaveNothing
  BY DEF Commands!SyncLog!Entity!RefusedCreationsLeaveNothing,
     SyncLogPart!RefusedCreationsLeaveNothing, Commands!SyncLog!Entity!Announced,
     SyncLogPart!Announced, Commands!SyncLog!Entity!InTopics, SyncLogPart!InTopics,
     Commands!SyncLog!Entity!Range, SyncLogPart!Range, Commands!SyncLog!Entity!Op,
     SyncLogPart!Op
<1>7. SyncLogPart!CalmRowsAreLast => Commands!SyncLog!Entity!CalmRowsAreLast
  BY DEF Commands!SyncLog!Entity!CalmRowsAreLast, SyncLogPart!CalmRowsAreLast,
     Commands!SyncLog!Entity!Unfounded, SyncLogPart!Unfounded,
     Commands!SyncLog!Entity!InTopics, SyncLogPart!InTopics,
     Commands!SyncLog!Entity!Range, SyncLogPart!Range,
     Commands!SyncLog!Entity!NamesTwice, SyncLogPart!NamesTwice,
     Commands!SyncLog!Entity!List, SyncLogPart!List, Commands!SyncLog!Entity!Op,
     SyncLogPart!Op
<1>8. QED
  BY <1>1, <1>2, <1>3, <1>4, <1>5, <1>6, <1>7
-----------------------------------------------------------------------------
(* The commands: one of the four modules runs, and keeps its invariant.    *)


\* The invariant of the module that part "commands" runs.
CommandsHold ==
    /\ module \in {"customer", "onboarding", "status", "synclog"}
    /\ module = "customer" => CustomerPart!IInv
    /\ module = "onboarding" => OnboardingPart!IInv
    /\ module = "status" => StatusPart!IInv
    /\ module = "synclog" => SyncLogPart!IInv

LEMMA CommandsHoldInit == Init => CommandsHold
<1> SUFFICES ASSUME Init PROVE CommandsHold
  OBVIOUS
<1>1. module \in {"customer", "onboarding", "status", "synclog"}
  BY DEF Init, CommandsAtRest, Commands!Init
<1>2. module = "customer" => CustomerPart!IInv
  BY CustomerInit, CustomerWellPosed, CustomerPart!InitIInv
<1>3. module = "onboarding" => OnboardingPart!IInv
  BY OnboardingInit, OnboardingWellPosed, OnboardingPart!InitIInv
<1>4. module = "status" => StatusPart!IInv
  BY StatusInit, StatusWellPosed, StatusPart!InitIInv
<1>5. module = "synclog" => SyncLogPart!IInv
  BY SyncLogInit, SyncLogWellPosed, SyncLogPart!InitIInv
<1>6. QED
  BY <1>1, <1>2, <1>3, <1>4, <1>5 DEF CommandsHold

\* The module stays the same, and keeps its invariant.
LEMMA CommandsHoldStep == CommandsHold /\ [Next]_vars => CommandsHold'
<1> SUFFICES ASSUME CommandsHold, [Next]_vars PROVE CommandsHold'
  OBVIOUS
<1>1. module' = module
  BY DEF Next, Query, AtCommands, AtQueries, AtReferrals, AtTraces, AtStart,
     Commands!Next,
     Commands!CustomerStep, Commands!OnboardingStep, Commands!StatusStep,
     Commands!SyncLogStep, commandVars, vars
<1>2. ASSUME module = "customer" PROVE CustomerPart!IInv'
  BY <1>2, CustomerStep, CustomerWellPosed, CustomerPart!IInvStep DEF CommandsHold
<1>3. ASSUME module = "onboarding" PROVE OnboardingPart!IInv'
  BY <1>3, OnboardingStep, OnboardingWellPosed, OnboardingPart!IInvStep DEF CommandsHold
<1>4. ASSUME module = "status" PROVE StatusPart!IInv'
  BY <1>4, StatusStep, StatusWellPosed, StatusPart!IInvStep DEF CommandsHold
<1>5. ASSUME module = "synclog" PROVE SyncLogPart!IInv'
  BY <1>5, SyncLogStep, SyncLogWellPosed, SyncLogPart!IInvStep DEF CommandsHold
<1>6. QED
  BY <1>1, <1>2, <1>3, <1>4, <1>5 DEF CommandsHold

LEMMA CommandsHeld == Spec => []CommandsHold
BY CommandsHoldInit, CommandsHoldStep, PTL DEF Spec

\* The properties of ServiceParts are those of the module at work.
LEMMA CommandsSafe ==
    CommandsHold =>
        /\ Commands!TypeOK
        /\ RowsGrounded
        /\ AcknowledgedAnnounced
        /\ BulkPrefix
        /\ RefusedCreationsLeaveNothing
        /\ CalmRowsAreLast
<1> SUFFICES ASSUME CommandsHold
             PROVE  /\ Commands!TypeOK
                    /\ RowsGrounded
                    /\ AcknowledgedAnnounced
                    /\ BulkPrefix
                    /\ RefusedCreationsLeaveNothing
                    /\ CalmRowsAreLast
  OBVIOUS
<1> USE
   DEF RowsGrounded, AcknowledgedAnnounced, BulkPrefix, RefusedCreationsLeaveNothing,
            CalmRowsAreLast, Commands!TypeOK, Commands!RowsGrounded,
            Commands!AcknowledgedAnnounced, Commands!BulkPrefix,
            Commands!RefusedCreationsLeaveNothing, Commands!CalmRowsAreLast,
            Commands!Here
<1>1. CASE module = "customer"
  BY <1>1, CustomerSafe DEF CommandsHold
<1>2. CASE module = "onboarding"
  BY <1>2, OnboardingSafe DEF CommandsHold
<1>3. CASE module = "status"
  BY <1>3, StatusSafe DEF CommandsHold
<1>4. CASE module = "synclog"
  BY <1>4, SyncLogSafe DEF CommandsHold
<1>5. QED
  BY <1>1, <1>2, <1>3, <1>4, Zenon DEF CommandsHold

\* Whatever comes back, late, twice, after a crash or from a replay, a row is one
\* that a command wrote or that was there, or one that the announced status of a
\* missing entity made up.
THEOREM GroundedRows == Spec => []RowsGrounded
BY CommandsHeld, CommandsSafe, PTL

\* A command that was answered ok has handed an event to the publisher for every row
\* it wrote, unless a bulk update found the row gone.
THEOREM AcknowledgementsAnnounced == Spec => []AcknowledgedAnnounced
BY CommandsHeld, CommandsSafe, PTL

\* A bulk update that ends halfway is done with the entities in front of the first one
\* that names a row it wrote.
THEOREM BulkUpdatesStopAtPrefixes == Spec => []BulkPrefix
BY CommandsHeld, CommandsSafe, PTL

\* A creation that is refused leaves no row and no event.
THEOREM RefusalsLeaveNothing == Spec => []RefusedCreationsLeaveNothing
BY CommandsHeld, CommandsSafe, PTL

\* With one command at a time, no replay, nothing made up, no row named twice in a bulk
\* update and no restart that reads an event again that the table is past, the table
\* holds what the last command wrote, whatever comes back of it.
THEOREM CalmRowsLast == Spec => []CalmRowsAreLast
BY CommandsHeld, CommandsSafe, PTL

-----------------------------------------------------------------------------
(* All parts.                                                              *)

\* Each part keeps the types of its variables beside the others, with the commands
\* of any of the four modules at work on its rows.
THEOREM TypeCorrect == Spec => []TypeOK
<1> DEFINE Parted == part \in {"commands", "queries", "referrals", "traces", "start"}
<1>1. Spec => []Parted
  <2>1. Init => Parted
    BY DEF Init
  <2>2. Parted /\ [Next]_vars => Parted'
    BY DEF Next, Query, AtCommands, AtQueries, AtReferrals, AtTraces, AtStart, vars
  <2> HIDE DEF Parted
  <2>3. QED
    BY <2>1, <2>2, PTL DEF Spec
<1>2. Spec => []Referrals!TypeOK
  <2>1. ReadModel!TypeOK => Referrals!TypeOK
    BY Zenon DEF ReadModel!TypeOK, Referrals!TypeOK, ReadModel!Token, Referrals!Token,
           ReadModel!Stage, Referrals!Stage, ReadModel!Call, Referrals!Call,
           ReadModel!CallState, Referrals!CallState
  <2>2. ReadModel!Spec => []ReadModel!TypeOK
    BY ReadModel!TypeCorrect, ReadModelWellPosed
  <2>3. QED
    BY <2>1, <2>2, PartsReadModel, PTL
<1>3. Spec => []Messaging!TypeOK
  <2>1. Start!TypeOK => Messaging!TypeOK
    BY DEF Start!TypeOK, Messaging!TypeOK, Start!Place, Messaging!Place
  <2>2. Start!Spec => []Start!TypeOK
    BY Start!TypeCorrect, StartWellPosed
  <2>3. QED
    BY <2>1, <2>2, PartsStart, PTL
<1>4. TracesHold => Traces!TypeOK
  BY DEF TracesHold
<1>5. QED
  BY <1>1, <1>2, <1>3, <1>4, TracesHeld, QueriesHeld, QueriesSafe, CommandsHeld,
     CommandsSafe, PTL DEF TypeOK

=============================================================================
