----------------------------- MODULE EntityModules -----------------------------
(***************************************************************************)
(* The four entity modules of the service.  They share no table, no topic  *)
(* and no event, so one run looks at one of them at a time: module tells   *)
(* which.                                                                  *)
(***************************************************************************)
EXTENDS Integers, Sequences, FiniteSets

CONSTANTS
    Id, Value, Command, NoKind, NotGiven, Absent,
    NotStarted, InProgress, Approved, Rejected, Expired, Blocked,
    Scenarios       \* Scenarios[m]: the scenarios of module m

VARIABLES module, rows, ask, stage, reads, item, local, sending, topic, consumed, seen,
          echoes, replayed, replaying, authored, wrote, lost, last, raced, incidents

Customer == INSTANCE CustomerCommands WITH Scenarios <- Scenarios["customer"]

Onboarding == INSTANCE OnboardingCommands WITH Scenarios <- Scenarios["onboarding"]

Status == INSTANCE OnboardingStatusCommands WITH Scenarios <- Scenarios["status"]

SyncLog == INSTANCE SyncLogCommands WITH Scenarios <- Scenarios["synclog"]

\* What the constants have to be.
WellPosed ==
    /\ Customer!Entity!WellPosed /\ Onboarding!Entity!WellPosed
    /\ Status!Entity!WellPosed /\ SyncLog!Entity!WellPosed

vars == <<module, Customer!vars>>

Init ==
    \/ module = "customer" /\ Customer!Init
    \/ module = "onboarding" /\ Onboarding!Init
    \/ module = "status" /\ Status!Init
    \/ module = "synclog" /\ SyncLog!Init

CustomerStep == module = "customer" /\ Customer!Next /\ UNCHANGED module
OnboardingStep == module = "onboarding" /\ Onboarding!Next /\ UNCHANGED module
StatusStep == module = "status" /\ Status!Next /\ UNCHANGED module
SyncLogStep == module = "synclog" /\ SyncLog!Next /\ UNCHANGED module

Next == CustomerStep \/ OnboardingStep \/ StatusStep \/ SyncLogStep

Spec == Init /\ [][Next]_vars

-----------------------------------------------------------------------------
(* Fairness: that of EntityCommands, in the module that runs.              *)

Work ==
    /\ \/ module = "customer" /\ Customer!Entity!Work
       \/ module = "onboarding" /\ Onboarding!Entity!Work
       \/ module = "status" /\ Status!Entity!Work
       \/ module = "synclog" /\ SyncLog!Entity!Work
    /\ UNCHANGED module

FairSpec == Spec /\ WF_vars(Work)

-----------------------------------------------------------------------------
(* Properties: those of EntityCommands, in the module that runs.           *)

Here(customer, onboarding, status, synclog) ==
    CASE module = "customer" -> customer
      [] module = "onboarding" -> onboarding
      [] module = "status" -> status
      [] module = "synclog" -> synclog

TypeOK ==
    Here(Customer!Entity!TypeOK, Onboarding!Entity!TypeOK,
         Status!Entity!TypeOK, SyncLog!Entity!TypeOK)

RowsGrounded ==
    Here(Customer!Entity!RowsGrounded, Onboarding!Entity!RowsGrounded,
         Status!Entity!RowsGrounded, SyncLog!Entity!RowsGrounded)

AcknowledgedAnnounced ==
    Here(Customer!Entity!AcknowledgedAnnounced, Onboarding!Entity!AcknowledgedAnnounced,
         Status!Entity!AcknowledgedAnnounced, SyncLog!Entity!AcknowledgedAnnounced)

BulkPrefix ==
    Here(Customer!Entity!BulkPrefix, Onboarding!Entity!BulkPrefix,
         Status!Entity!BulkPrefix, SyncLog!Entity!BulkPrefix)

RefusedCreationsLeaveNothing ==
    Here(Customer!Entity!RefusedCreationsLeaveNothing,
         Onboarding!Entity!RefusedCreationsLeaveNothing,
         Status!Entity!RefusedCreationsLeaveNothing,
         SyncLog!Entity!RefusedCreationsLeaveNothing)

CalmRowsAreLast ==
    Here(Customer!Entity!CalmRowsAreLast, Onboarding!Entity!CalmRowsAreLast,
         Status!Entity!CalmRowsAreLast, SyncLog!Entity!CalmRowsAreLast)

\* This says nothing that depends on the module.
EventsDrain == Customer!Entity!EventsDrain

=============================================================================
