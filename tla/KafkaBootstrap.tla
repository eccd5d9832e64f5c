---------------------------- MODULE KafkaBootstrap ----------------------------
(***************************************************************************)
(* The start of a KafkaModule: onModuleInit does not wait for              *)
(* bootstrapKafka, which connects, has the topics created, waits until     *)
(* they can be listed, subscribes and runs the consumer, and starts all    *)
(* over again five seconds after anything of it failed.  What KafkaService *)
(* and KafkaEventSubscriber remember of a failed attempt is there in the   *)
(* next one.  KAFKA_ENABLED is true.  A signal may end the process: the    *)
(* shutdown hook disconnects KafkaService and knows nothing of the attempt *)
(* or the timer, which go on until the process is gone.                    *)
(***************************************************************************)
EXTENDS Integers, FiniteSets

CONSTANTS
    Topic,          \* EVENT_ADMIN_TOPICS, of which EVENT_CONSUMER_TOPICS are part
    ConsumerTopic,
    MaxRetries,     \* maxRetries of bootstrapKafka: 10
    MaxAttempts     \* maxAttempts of waitForTopics: 10

\* What the constants have to be.
WellPosed ==
    /\ IsFiniteSet(Topic) /\ ConsumerTopic \subseteq Topic /\ ConsumerTopic # {}
    /\ MaxRetries \in Nat
    /\ MaxAttempts \in Nat \ {0}

VARIABLES
    at,             \* where the attempt is
    attempt,        \* the argument of bootstrapKafka
    created,        \* topics that the broker has
    listed,         \* topics that listTopics shows
    toCreate,       \* topics that ensureTopics has not been through
    polls,          \* attempts of waitForTopics
    toSubscribe,    \* topics that subscribe has not been through
    connected, adminConnected, consumerRunning,
    topicHandlers,  \* topicHandlers[t]: how many handlers topic t has
    subscribedTopics,
    initialized,
    consuming,      \* the consumer really runs
    stopping,       \* the shutdown hooks have been called
    runThrew        \* consumer.run threw, for the properties

attemptVars == <<at, attempt, toCreate, polls, toSubscribe>>
brokerVars == <<created, listed>>
serviceVars == <<connected, adminConnected, consumerRunning, topicHandlers,
                 subscribedTopics, initialized, consuming, stopping, runThrew>>
vars == <<attemptVars, brokerVars, serviceVars>>

Place == {"down", "connect", "create", "wait", "initialize", "subscribe", "run", "verify",
          "up", "recovery", "gaveUp", "stopped"}

TypeOK ==
    /\ at \in Place
    /\ attempt \in 0 .. MaxRetries + 1
    /\ created \subseteq Topic /\ listed \subseteq created
    /\ toCreate \subseteq Topic
    /\ polls \in 0 .. MaxAttempts
    /\ toSubscribe \subseteq ConsumerTopic
    /\ connected \in BOOLEAN /\ adminConnected \in BOOLEAN
    /\ consumerRunning \in BOOLEAN /\ consuming \in BOOLEAN
    /\ topicHandlers \in [ConsumerTopic -> Nat]
    /\ subscribedTopics \subseteq ConsumerTopic
    /\ initialized \in BOOLEAN /\ stopping \in BOOLEAN /\ runThrew \in BOOLEAN

Init ==
    /\ at = "down" /\ attempt = 0
    /\ created = {} /\ listed = {}
    /\ toCreate = {} /\ polls = 0 /\ toSubscribe = {}
    /\ connected = FALSE /\ adminConnected = FALSE
    /\ consumerRunning = FALSE /\ consuming = FALSE
    /\ topicHandlers = [t \in ConsumerTopic |-> 0]
    /\ subscribedTopics = {}
    /\ initialized = FALSE /\ stopping = FALSE /\ runThrew = FALSE

-----------------------------------------------------------------------------
(* KafkaModule.                                                            *)

Goto(place) == at' = place /\ UNCHANGED <<attempt, toCreate, polls, toSubscribe>>

\* onModuleInit.
Boot ==
    /\ at = "down"
    /\ at' = "connect" /\ attempt' = 1
    /\ UNCHANGED <<toCreate, polls, toSubscribe, brokerVars, serviceVars>>

\* Mutation: the retry that the last attempt leads to is made too.
RecoverOnceMore ==
    at' = IF attempt > MaxRetries + 1 THEN "gaveUp" ELSE "recovery"

\* scheduleKafkaRecovery, which the catch of bootstrapKafka calls.
Recover == at' = IF attempt > MaxRetries THEN "gaveUp" ELSE "recovery"

\* A step of the attempt throws, and with it the attempt.
Throw == Recover /\ UNCHANGED <<attempt, toCreate, polls, toSubscribe>>

\* Mutation: the timer calls bootstrapKafka with the attempt that failed.
RetrySame ==
    /\ at = "recovery"
    /\ at' = "connect" /\ attempt' = attempt
    /\ UNCHANGED <<toCreate, polls, toSubscribe, brokerVars, serviceVars>>

\* The timer calls bootstrapKafka for the next attempt.
Retry ==
    /\ at = "recovery"
    /\ at' = "connect" /\ attempt' = attempt + 1
    /\ UNCHANGED <<toCreate, polls, toSubscribe, brokerVars, serviceVars>>

\* verifyKafkaConnection throws nothing.
Verify ==
    /\ at = "verify"
    /\ Goto("up")
    /\ adminConnected' \in BOOLEAN
    /\ UNCHANGED <<brokerVars, connected, consumerRunning, topicHandlers,
                   subscribedTopics, initialized, consuming, stopping, runThrew>>

-----------------------------------------------------------------------------
(* KafkaService.connect and KafkaAdminService.                             *)

BeginCreation ==
    /\ at' = "create" /\ toCreate' = Topic
    /\ UNCHANGED <<attempt, polls, toSubscribe>>

\* It connects once, whoever asks first.
Connect ==
    /\ at = "connect"
    /\ \/ BeginCreation /\ connected' = TRUE
       \/ ~connected /\ Throw /\ UNCHANGED connected
    /\ UNCHANGED <<brokerVars, adminConnected, consumerRunning, topicHandlers,
                   subscribedTopics, initialized, consuming, stopping, runThrew>>

\* sendMessage connects as well: a command publishes while the module starts.
SendConnects ==
    /\ ~connected /\ at # "stopped"
    /\ connected' = TRUE
    /\ UNCHANGED <<attemptVars, brokerVars, adminConnected, consumerRunning,
                   topicHandlers, subscribedTopics, initialized, consuming, stopping,
                   runThrew>>

\* getAdminClient connects the admin client when it does not answer.
AdminAnswers == adminConnected' = TRUE
AdminFails == adminConnected' \in BOOLEAN

\* createTopicIfNotExists: a topic that is not listed is created, if it is not
\* there already.
CreateTopic(t) ==
    /\ at = "create" /\ t \in toCreate
    /\ \/ /\ AdminAnswers
          /\ created' = created \union {t}
          /\ toCreate' = toCreate \ {t}
          /\ UNCHANGED <<at, attempt, polls, toSubscribe>>
       \/ AdminFails /\ Throw /\ UNCHANGED created
    /\ UNCHANGED <<listed, connected, consumerRunning, topicHandlers, subscribedTopics,
                   initialized, consuming, stopping, runThrew>>

\* ensureTopics goes on to waitForTopics.
AllCreated ==
    /\ at = "create" /\ toCreate = {}
    /\ at' = "wait" /\ polls' = 0
    /\ UNCHANGED <<attempt, toCreate, toSubscribe, brokerVars, serviceVars>>

\* Mutation: after the last poll the start goes on without the topics.
GoOn ==
    /\ polls' = polls + 1
    /\ at' = IF polls + 1 < MaxAttempts THEN "wait" ELSE "initialize"
    /\ UNCHANGED <<attempt, toCreate, toSubscribe>>

\* Not all topics are listed yet, or they cannot be: another poll, or it throws.
PollAgain ==
    /\ polls' = polls + 1
    /\ IF polls + 1 < MaxAttempts THEN UNCHANGED at ELSE Recover
    /\ UNCHANGED <<attempt, toCreate, toSubscribe>>

\* waitForTopics: one poll.
PollTopics ==
    /\ at = "wait"
    /\ \/ Topic \subseteq listed /\ AdminAnswers /\ Goto("initialize")
       \/ ~(Topic \subseteq listed) /\ AdminAnswers /\ PollAgain
       \/ AdminFails /\ PollAgain
    /\ UNCHANGED <<brokerVars, connected, consumerRunning, topicHandlers,
                   subscribedTopics, initialized, consuming, stopping, runThrew>>

\* The broker tells of a topic that was created.
Propagate(t) ==
    /\ t \in created \ listed
    /\ listed' = listed \union {t}
    /\ UNCHANGED <<attemptVars, created, serviceVars>>

-----------------------------------------------------------------------------
(* KafkaEventSubscriber.initializeSubscriptions and KafkaService.subscribe. *)

\* Mutation: the subscriber counts as initialized before it has subscribed.
InitializeEarly ==
    /\ at = "initialize"
    /\ IF initialized
       THEN at' = "verify" /\ UNCHANGED toSubscribe
       ELSE at' = "subscribe" /\ toSubscribe' = ConsumerTopic
    /\ initialized' = TRUE
    /\ UNCHANGED <<attempt, toCreate, polls, brokerVars, connected, adminConnected,
                   consumerRunning, topicHandlers, subscribedTopics, consuming, stopping,
                   runThrew>>

Initialize ==
    /\ at = "initialize"
    /\ IF initialized
       THEN at' = "verify" /\ UNCHANGED toSubscribe
       ELSE at' = "subscribe" /\ toSubscribe' = ConsumerTopic
    /\ UNCHANGED <<attempt, toCreate, polls, brokerVars, serviceVars>>

\* The handler is there before the subscription, and stays when that fails.
SubscribeTopic(t) ==
    /\ at = "subscribe" /\ t \in toSubscribe
    /\ topicHandlers' = [topicHandlers EXCEPT ![t] = @ + 1]
    /\ \/ /\ subscribedTopics' = subscribedTopics \union {t}
          /\ toSubscribe' = toSubscribe \ {t}
          /\ UNCHANGED <<at, attempt, toCreate, polls>>
       \/ t \notin subscribedTopics /\ Throw /\ UNCHANGED subscribedTopics
    /\ UNCHANGED <<brokerVars, connected, adminConnected, consumerRunning, initialized,
                   consuming, stopping, runThrew>>

AllSubscribed ==
    /\ at = "subscribe" /\ toSubscribe = {}
    /\ Goto("run")
    /\ UNCHANGED <<brokerVars, serviceVars>>

\* consumer.run: consumerRunning is set before it, and nothing takes it back.
Run ==
    /\ at = "run"
    /\ consumerRunning' = TRUE
    /\ \/ /\ Goto("verify") /\ initialized' = TRUE
          /\ consuming' = (consuming \/ ~consumerRunning)
          /\ UNCHANGED runThrew
       \/ /\ ~consumerRunning /\ Throw /\ runThrew' = TRUE
          /\ UNCHANGED <<consuming, initialized>>
    /\ UNCHANGED <<brokerVars, connected, adminConnected, topicHandlers,
                   subscribedTopics, stopping>>

\* KafkaService.onModuleDestroy, on a signal.
Destroy ==
    /\ at \notin {"down", "stopped"} /\ ~stopping
    /\ stopping' = TRUE
    /\ connected' = FALSE /\ consumerRunning' = FALSE /\ consuming' = FALSE
    /\ UNCHANGED <<attemptVars, brokerVars, adminConnected, topicHandlers,
                   subscribedTopics, initialized, runThrew>>

\* The hooks have been through, or the process was killed at once.
Exit ==
    /\ at \notin {"down", "stopped"}
    /\ Goto("stopped")
    /\ UNCHANGED <<brokerVars, serviceVars>>

-----------------------------------------------------------------------------

Start ==
    \/ Boot \/ Retry \/ Connect \/ AllCreated \/ PollTopics
    \/ Initialize \/ AllSubscribed \/ Run \/ Verify
    \/ \E t \in Topic : CreateTopic(t)
    \/ \E t \in ConsumerTopic : SubscribeTopic(t)

Next ==
    \/ Start \/ SendConnects \/ Destroy \/ Exit
    \/ \E t \in Topic : Propagate(t)

Spec == Init /\ [][Next]_vars

\* The module is started, its timers fire and the broker answers, if only with an
\* error.
FairSpec == Spec /\ WF_vars(Start)

-----------------------------------------------------------------------------
(* The start, as Startup has it.                                           *)

AbstractStatus ==
    CASE at = "down" -> "down"
      [] at = "recovery" -> "waiting"
      [] at \in {"up", "gaveUp", "stopped"} -> at
      [] OTHER -> "trying"

StartupSpec == INSTANCE Startup WITH status <- AbstractStatus, tries <- attempt

-----------------------------------------------------------------------------
(* Properties.                                                             *)

\* The start makes one attempt at a time, retries MaxRetries times and no more, and
\* what is up stays up until the process ends.
ImplementsStartup == StartupSpec!Spec

\* Whatever attempts failed on the way, the consumer is run only when it is
\* subscribed to every topic, for it cannot subscribe afterwards; a module is up
\* with such a consumer as long as no shutdown has disconnected it, and one that
\* hears nothing had a run that threw; and a subscribed topic has a handler, and no
\* topic more handlers than there were attempts: a message is routed no more often
\* than that.
UpIsSubscribed ==
    /\ consumerRunning => subscribedTopics = ConsumerTopic
    /\ at = "up" /\ ~stopping => consumerRunning /\ (consuming \/ runThrew)
    /\ \A t \in ConsumerTopic :
          /\ t \in subscribedTopics => topicHandlers[t] >= 1
          /\ topicHandlers[t] =< attempt

\* A topic is subscribed to only when the broker has shown that it is there: a
\* consumer of a topic that is not would fail for good.
SubscribedAreListed == subscribedTopics \subseteq listed

\* The start comes to an end: the module is up, it has given up, or the process is
\* gone.
Settled == at \in {"up", "gaveUp", "stopped"}
StartEnds == <>Settled

=============================================================================
