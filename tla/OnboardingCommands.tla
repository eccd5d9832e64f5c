------------------------- MODULE OnboardingCommands -------------------------
(***************************************************************************)
(* The commands on the onboarding of a customer at a payment gateway.  The *)
(* column is the status, of which the service announces four after an      *)
(* update.  Its rule on approved onboardings only warns.  The code, and the *)
(* pair of customer and gateway, are unique.                               *)
(***************************************************************************)
EXTENDS Integers, Sequences, FiniteSets

CONSTANTS Id, Command, Scenarios, NoKind, NotGiven, Absent
CONSTANTS NotStarted, InProgress, Approved, Rejected, Expired, Blocked

VARIABLES rows, ask, stage, reads, item, local, sending, topic, consumed, seen, echoes,
          replayed, replaying, authored, wrote, lost, last, raced, incidents

Status == {NotStarted, InProgress, Approved, Rejected, Expired, Blocked}

StatusKind == {"started", "approved", "rejected", "expired"}

\* applyDslServiceRules: the event that goes with a status.
KindOf(status) ==
    CASE status = InProgress -> "started"
      [] status = Approved -> "approved"
      [] status = Rejected -> "rejected"
      [] status = Expired -> "expired"
      [] OTHER -> NoKind

Entity == INSTANCE EntityCommands WITH
    Value <- Status, Default <- NotStarted, Required <- FALSE, Unique <- FALSE,
    OtherKeys <- TRUE

vars == Entity!vars
Init == Entity!Init

-----------------------------------------------------------------------------
(* CustomerGatewayOnboardingCommandController.                             *)

ControllerCreate(c) == Entity!Op(c) = "create" /\ Entity!Request(c)
ControllerBulkCreate(c) == Entity!Op(c) = "bulkCreate" /\ Entity!Request(c)

\* A body that names another id than the URL is refused.
ControllerUpdate(c) ==
    /\ Entity!Op(c) = "update"
    /\ Entity!Request(c) \/ Entity!TurnAway(c)

ControllerDelete(c) == Entity!Op(c) = "delete" /\ Entity!Request(c)

\* PUT bulk and DELETE bulk are declared after PUT :id and DELETE :id, which take
\* them for the id 'bulk'.
ControllerBulkUpdate(c) == Entity!Op(c) = "bulkUpdate" /\ Entity!TurnAway(c)
ControllerBulkDelete(c) == Entity!Op(c) = "bulkDelete" /\ Entity!TurnAway(c)

-----------------------------------------------------------------------------
(* CustomerGatewayOnboardingResolver and the command handlers.             *)

CreateCustomerGatewayOnboardingHandler(c) == Entity!Op(c) = "create" /\ Entity!Request(c)
UpdateCustomerGatewayOnboardingHandler(c) == Entity!Op(c) = "update" /\ Entity!Request(c)

createCustomerGatewayOnboarding(c) == CreateCustomerGatewayOnboardingHandler(c)
updateCustomerGatewayOnboarding(c) == UpdateCustomerGatewayOnboardingHandler(c)

\* The DTO has the entity under input, where neither the service nor TypeORM finds
\* its columns: both commands are refused.
createOrUpdateCustomerGatewayOnboarding(c) ==
    Entity!Op(c) \in {"create", "update"} /\ Entity!TurnAway(c)

\* The payload of the command is the id itself, and the handler looks for its id.
deleteCustomerGatewayOnboarding(c) == Entity!Op(c) = "delete" /\ Entity!TurnAway(c)

-----------------------------------------------------------------------------
(* CustomerGatewayOnboardingCommandService.                                *)

ServiceCreate(c) == Entity!Op(c) = "create" /\ Entity!Check(c)
ServiceBulkCreate(c) == Entity!Op(c) = "bulkCreate" /\ Entity!Check(c)
ServiceUpdate(c) == Entity!LoadForUpdate(c) \/ Entity!Announce(c)
ServiceDelete(c) == Entity!LoadForDelete(c)

\* Only a caller inside the process gets to these two.
ServiceBulkUpdate(c) ==
    /\ Entity!Op(c) = "bulkUpdate"
    /\ Entity!Request(c) \/ Entity!Check(c)
ServiceBulkDelete(c) ==
    /\ Entity!Op(c) = "bulkDelete"
    /\ Entity!Request(c) \/ Entity!Check(c)

-----------------------------------------------------------------------------
(* CustomerGatewayOnboardingCommandRepository.                             *)

RepositoryCreate(c) == Entity!SaveOne(c)
RepositoryBulkCreate(c) == Entity!SaveAll(c)
RepositoryUpdate(c) == Entity!Overwrite(c) \/ Entity!Reload(c)
RepositoryBulkUpdate(c) == Entity!PublishAgain(c)
RepositoryDelete(c) == Entity!Find(c) \/ Entity!Remove(c)
RepositoryBulkDelete(c) == Entity!RemoveAll(c) \/ Entity!FindRemoved(c)

\* A projection, at the table or refused by it.
Handled(e, kind) == e.kind = kind /\ (Entity!Apply(e) \/ Entity!ApplyFails(e))

onCustomerGatewayOnboardingCreated(e) == Handled(e, "created")
onCustomerGatewayOnboardingUpdated(e) == Handled(e, "updated")
onCustomerGatewayOnboardingDeleted(e) == Handled(e, "deleted")
onCustomerGatewayOnboardingStarted(e) == Handled(e, "started")
onCustomerGatewayOnboardingApproved(e) == Handled(e, "approved")
onCustomerGatewayOnboardingRejected(e) == Handled(e, "rejected")
onCustomerGatewayOnboardingExpired(e) == Handled(e, "expired")

handle(e) ==
    \/ onCustomerGatewayOnboardingCreated(e) \/ onCustomerGatewayOnboardingUpdated(e)
    \/ onCustomerGatewayOnboardingDeleted(e) \/ onCustomerGatewayOnboardingStarted(e)
    \/ onCustomerGatewayOnboardingApproved(e)
    \/ onCustomerGatewayOnboardingRejected(e)
    \/ onCustomerGatewayOnboardingExpired(e)

-----------------------------------------------------------------------------

Controller(c) ==
    \/ ControllerCreate(c) \/ ControllerBulkCreate(c)
    \/ ControllerUpdate(c) \/ ControllerBulkUpdate(c)
    \/ ControllerDelete(c) \/ ControllerBulkDelete(c)

Resolver(c) ==
    \/ createCustomerGatewayOnboarding(c) \/ updateCustomerGatewayOnboarding(c)
    \/ createOrUpdateCustomerGatewayOnboarding(c) \/ deleteCustomerGatewayOnboarding(c)

Service(c) ==
    \/ ServiceCreate(c) \/ ServiceBulkCreate(c)
    \/ ServiceUpdate(c) \/ ServiceBulkUpdate(c)
    \/ ServiceDelete(c) \/ ServiceBulkDelete(c)

Repository(c) ==
    \/ RepositoryCreate(c) \/ RepositoryBulkCreate(c)
    \/ RepositoryUpdate(c) \/ RepositoryBulkUpdate(c)
    \/ RepositoryDelete(c) \/ RepositoryBulkDelete(c)

Next ==
    \/ \E c \in Command :
          Controller(c) \/ Resolver(c) \/ Service(c) \/ Repository(c) \/ Entity!Fail(c)
    \/ \E e \in local \union echoes : handle(e)
    \/ Entity!Kafka
    \/ Entity!Crash

Spec == Init /\ [][Next]_vars

-----------------------------------------------------------------------------
(* Properties.                                                             *)

Final == {Approved, Rejected, Expired, Blocked}

Advances(from, to) ==
    \/ from = to
    \/ from = NotStarted
    \/ from = InProgress /\ to \in Final

\* Clients ask for the next status when the command before is over.
InOrder ==
    \A c, d \in Command : \A i \in Entity!Items(c), j \in Entity!Items(d) :
        i.id = j.id /\ i.value # j.value /\ Advances(i.value, j.value)
            => stage[d] = "waiting" \/ stage[c] \in Entity!Over

OrderedSpec == Init /\ InOrder /\ [][Next /\ InOrder']_vars

\* 'El estado avanza NOT_STARTED -> IN_PROGRESS -> APPROVED | REJECTED | EXPIRED |
\* BLOCKED': with clients that ask for one status after the other, no step takes an
\* onboarding back.
StatusAdvances ==
    [][\A id \in Id :
          rows[id] # Absent /\ rows'[id] # Absent => Advances(rows[id], rows'[id])]_vars

=============================================================================
