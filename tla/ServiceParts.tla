----------------------------- MODULE ServiceParts -----------------------------
(***************************************************************************)
(* The parts of the service beside the catalog and the event pipeline, at  *)
(* work one at a time: the commands of the entity modules, their queries,  *)
(* the referral read model and the traces.  part tells which is at work,   *)
(* and module of which entity.  The parts meet in the tables only, and     *)
(* each has the writes of the others among its own steps.                  *)
(***************************************************************************)
EXTENDS Integers, Sequences, FiniteSets

\* EntityModules.
CONSTANTS Id, Value, Command, NoKind, NotGiven, Absent,
          NotStarted, InProgress, Approved, Rejected, Expired, Blocked, Scenarios

\* The queries.
CONSTANTS RowId, Column, Reader, Size, PageOfOne, NoCondition,
          Heap,         \* Heap[m]: the table of module m
          MaxTableWrites

\* ReferralReadModel.
CONSTANTS ReadRequest, Asked, User, InitialCustomers, Tree, AuthMode, Lifetime,
          Margin, FiveMinutes, NoToken, MaxTime, MaxLogins, MaxChanges

\* TraceDelivery.
CONSTANTS Invocation, DeliveryMode, NoOutcome, MaxFailures

\* KafkaBootstrap.
CONSTANTS Topic, ConsumerTopic, MaxRetries, MaxAttempts

VARIABLES
    part, module,
    rows, ask, stage, reads, item, local, sending, topic, consumed, seen,
    echoes, replayed, replaying, authored, wrote, lost, last, raced, incidents,
    heap, query, phase, data, total, pages, steady, writes,
    auth, internalAccessToken, internalAccessTokenExpiresAt, now, customers,
    progress, call, nodes, linked, round, logins, changes,
    mode, place, outcome, result, arrived, hit, kafkaConnected, connecting,
    httpConnected, failures,
    at, attempt, created, listed, toCreate, polls, toSubscribe, connected,
    adminConnected, consumerRunning, topicHandlers, subscribedTopics, initialized,
    consuming, stopping, runThrew

Commands == INSTANCE EntityModules

CustomerReads == INSTANCE CustomerQueries WITH
    Id <- RowId, Value <- Column, InitialHeap <- Heap["customer"],
    MaxWrites <- MaxTableWrites

OnboardingReads == INSTANCE OnboardingQueries WITH
    Id <- RowId, Value <- Column, InitialHeap <- Heap["onboarding"],
    MaxWrites <- MaxTableWrites

StatusReads == INSTANCE OnboardingStatusQueries WITH
    Id <- RowId, Value <- Column, InitialHeap <- Heap["status"],
    MaxWrites <- MaxTableWrites

SyncLogReads == INSTANCE SyncLogQueries WITH
    Id <- RowId, Value <- Column, InitialHeap <- Heap["synclog"],
    MaxWrites <- MaxTableWrites

Referrals == INSTANCE ReferralReadModel WITH
    stage <- progress, writes <- changes, MaxWrites <- MaxChanges

Traces == INSTANCE TraceDelivery

Messaging == INSTANCE KafkaBootstrap

ASSUME PartsAssumption ==
    /\ Commands!WellPosed
    /\ CustomerReads!Entity!WellPosed /\ OnboardingReads!Entity!WellPosed
    /\ StatusReads!Entity!WellPosed /\ SyncLogReads!Entity!WellPosed
    /\ PageOfOne \in Size
    /\ Referrals!WellPosed /\ Traces!WellPosed /\ Messaging!WellPosed

commandVars == <<module, rows, ask, stage, reads, item, local, sending, topic, consumed,
                 seen, echoes, replayed, replaying, authored, wrote, lost, last, raced,
                 incidents>>
queryVars == <<heap, query, phase, data, total, pages, steady, writes>>
referralVars == <<auth, internalAccessToken, internalAccessTokenExpiresAt, now, customers,
                  progress, call, nodes, linked, round, logins, changes>>
traceVars == <<mode, place, outcome, result, arrived, hit, kafkaConnected, connecting,
               httpConnected, failures>>
startVars == <<at, attempt, created, listed, toCreate, polls, toSubscribe, connected,
               adminConnected, consumerRunning, topicHandlers, subscribedTopics,
               initialized, consuming, stopping, runThrew>>
vars == <<part, commandVars, queryVars, referralVars, traceVars, startVars>>

-----------------------------------------------------------------------------
(* Init: the parts that are not at work are at rest.                       *)

CommandsAtRest ==
    /\ Commands!Init
    /\ \A c \in Command : ask[c] = Commands!Customer!Entity!Unsent
    /\ incidents = 0

ReferralsAtRest ==
    /\ Referrals!Init
    /\ auth = "login"

ReadsInit ==
    \/ module = "customer" /\ CustomerReads!Init
    \/ module = "onboarding" /\ OnboardingReads!Init
    \/ module = "status" /\ StatusReads!Init
    \/ module = "synclog" /\ SyncLogReads!Init

Init ==
    /\ Messaging!Init
    /\ \/ /\ part = "commands"
          /\ Commands!Init /\ ReadsInit /\ ReferralsAtRest
          /\ Traces!Init /\ mode = "REST"
       \/ /\ part = "queries"
          /\ CommandsAtRest /\ ReadsInit /\ ReferralsAtRest
          /\ Traces!Init /\ mode = "REST"
       \/ /\ part = "referrals"
          /\ CommandsAtRest /\ module = "customer" /\ ReadsInit
          /\ Referrals!Init
          /\ Traces!Init /\ mode = "REST"
       \/ /\ part = "traces"
          /\ CommandsAtRest /\ module = "customer" /\ ReadsInit /\ ReferralsAtRest
          /\ Traces!Init
       \/ /\ part = "start"
          /\ CommandsAtRest /\ module = "customer" /\ ReadsInit /\ ReferralsAtRest
          /\ Traces!Init /\ mode = "REST"

-----------------------------------------------------------------------------

AtCommands ==
    /\ part = "commands"
    /\ UNCHANGED <<part, queryVars, referralVars, traceVars, startVars>>

AtQueries ==
    /\ part = "queries"
    /\ UNCHANGED <<part, commandVars, referralVars, traceVars, startVars>>

AtReferrals ==
    /\ part = "referrals"
    /\ UNCHANGED <<part, commandVars, queryVars, traceVars, startVars>>

AtTraces ==
    /\ part = "traces"
    /\ UNCHANGED <<part, commandVars, queryVars, referralVars, startVars>>

AtStart ==
    /\ part = "start"
    /\ UNCHANGED <<part, commandVars, queryVars, referralVars, traceVars>>

Query ==
    /\ AtQueries
    /\ \/ module = "customer" /\ CustomerReads!Next
       \/ module = "onboarding" /\ OnboardingReads!Next
       \/ module = "status" /\ StatusReads!Next
       \/ module = "synclog" /\ SyncLogReads!Next

Next ==
    \/ AtCommands /\ Commands!Next
    \/ Query
    \/ AtReferrals /\ Referrals!Next
    \/ AtTraces /\ Traces!Next
    \/ AtStart /\ Messaging!Next

Spec == Init /\ [][Next]_vars

-----------------------------------------------------------------------------
(***************************************************************************)
(* Fairness: the part at work goes on as long as there is anything to do.  *)
(* What a request of the read model awaits settles.  So does the delivery  *)
(* of a trace, where every request has a timeout, but for one that is cut  *)
(* off in the middle of its answer: there it stays.                        *)
(***************************************************************************)
Work ==
    \/ part = "commands" /\ Commands!Work /\ AtCommands
    \/ part = "referrals" /\ (\E r \in ReadRequest : Referrals!Step(r)) /\ AtReferrals
    \/ /\ part = "traces"
       /\ (\E c \in Invocation : Traces!Deliver(c)) \/ Traces!Connect
       /\ AtTraces
    \/ part = "start" /\ Messaging!Start /\ AtStart

FairSpec == Spec /\ WF_vars(Work)

-----------------------------------------------------------------------------
(* Properties: those of the parts.                                         *)

\* The variables of every part have their types.
TypeOK ==
    /\ part \in {"commands", "queries", "referrals", "traces", "start"}
    /\ Commands!TypeOK
    /\ CustomerReads!Entity!TypeOK
    /\ Referrals!TypeOK
    /\ Traces!TypeOK
    /\ Messaging!TypeOK

\* Commands: see EntityCommands.
RowsGrounded == Commands!RowsGrounded
AcknowledgedAnnounced == Commands!AcknowledgedAnnounced
BulkPrefix == Commands!BulkPrefix
RefusedCreationsLeaveNothing == Commands!RefusedCreationsLeaveNothing
CalmRowsAreLast == Commands!CalmRowsAreLast
EventsDrain == Commands!EventsDrain

\* Queries: see EntityQueries.  These two depend on no constant of a module.
PagesAddUp == CustomerReads!Entity!PagesAddUp
CountAgrees == CustomerReads!Entity!CountAgrees

\* The read model: see ReferralReadModel.
CachedTokenInTime == Referrals!CachedTokenInTime
RefusalJustified == Referrals!RefusalJustified

\* Traces: see TraceDelivery.
OutcomeKept == Traces!OutcomeKept
LossExplained == Traces!LossExplained

\* The start: see KafkaBootstrap.
UpIsSubscribed == Messaging!UpIsSubscribed
SubscribedAreListed == Messaging!SubscribedAreListed
ImplementsStartup == Messaging!ImplementsStartup

\* RequestsSettle of the read model, CallsReturn of the traces, where a call whose trace
\* was cut off in the middle of the answer hangs, and StartEnds of the start: each part
\* comes to rest.
AnswersArrive ==
    <>[](Referrals!Settled /\ Traces!Settled /\ (part = "start" => Messaging!Settled))

=============================================================================
