-------------------------- MODULE SyncLogCommands ---------------------------
(***************************************************************************)
(* The commands on an entry of the catalog synchronisation log.  The column*)
(* is the categoryCode, which rule CAT_SYNC_001 asks for (CAT_SYNC_002 asks*)
(* for syncedAt in the same way); nothing is unique.                       *)
(***************************************************************************)
EXTENDS Integers, Sequences, FiniteSets

CONSTANTS Id, Value, Command, Scenarios, NoKind, NotGiven, Absent

VARIABLES rows, ask, stage, reads, item, local, sending, topic, consumed, seen, echoes,
          replayed, replaying, authored, wrote, lost, last, raced, incidents

\* The two events of the catalog synchronisation, which the repository handles.  No
\* command announces them.
StatusKind == {"completed", "failed"}
KindOf(value) == NoKind

Entity == INSTANCE EntityCommands WITH
    Default <- NotGiven, Required <- TRUE, Unique <- FALSE,
    OtherKeys <- FALSE

vars == Entity!vars
Init == Entity!Init

-----------------------------------------------------------------------------
(* CatalogSyncLogCommandController.                                        *)

ControllerCreate(c) == Entity!Op(c) = "create" /\ Entity!Request(c)
ControllerBulkCreate(c) == Entity!Op(c) = "bulkCreate" /\ Entity!Request(c)

\* A body that names another id than the URL is refused.
ControllerUpdate(c) ==
    /\ Entity!Op(c) = "update"
    /\ Entity!Request(c) \/ Entity!TurnAway(c)

ControllerDelete(c) == Entity!Op(c) = "delete" /\ Entity!Request(c)

\* PUT bulk and DELETE bulk are declared after PUT :id and DELETE :id, which take
\* them for the id 'bulk'.
ControllerBulkUpdate(c) == Entity!Op(c) = "bulkUpdate" /\ Entity!TurnAway(c)
ControllerBulkDelete(c) == Entity!Op(c) = "bulkDelete" /\ Entity!TurnAway(c)

-----------------------------------------------------------------------------
(* CatalogSyncLogResolver and the command handlers.                        *)

CreateCatalogSyncLogHandler(c) == Entity!Op(c) = "create" /\ Entity!Request(c)
UpdateCatalogSyncLogHandler(c) == Entity!Op(c) = "update" /\ Entity!Request(c)

createCatalogSyncLog(c) == CreateCatalogSyncLogHandler(c)
updateCatalogSyncLog(c) == UpdateCatalogSyncLogHandler(c)

\* The DTO has the entity under input, where neither the service nor TypeORM finds
\* its columns: both commands are refused.
createOrUpdateCatalogSyncLog(c) ==
    Entity!Op(c) \in {"create", "update"} /\ Entity!TurnAway(c)

\* The payload of the command is the id itself, and the handler looks for its id.
deleteCatalogSyncLog(c) == Entity!Op(c) = "delete" /\ Entity!TurnAway(c)

-----------------------------------------------------------------------------
(* CatalogSyncLogCommandService.                                           *)

ServiceCreate(c) == Entity!Op(c) = "create" /\ Entity!Check(c)
ServiceBulkCreate(c) == Entity!Op(c) = "bulkCreate" /\ Entity!Check(c)
ServiceUpdate(c) == Entity!LoadForUpdate(c) \/ Entity!Announce(c)
ServiceDelete(c) == Entity!LoadForDelete(c)

\* Only a caller inside the process gets to these two.
ServiceBulkUpdate(c) ==
    /\ Entity!Op(c) = "bulkUpdate"
    /\ Entity!Request(c) \/ Entity!Check(c)
ServiceBulkDelete(c) ==
    /\ Entity!Op(c) = "bulkDelete"
    /\ Entity!Request(c) \/ Entity!Check(c)

-----------------------------------------------------------------------------
(* CatalogSyncLogCommandRepository.                                        *)

RepositoryCreate(c) == Entity!SaveOne(c)
RepositoryBulkCreate(c) == Entity!SaveAll(c)
RepositoryUpdate(c) == Entity!Overwrite(c) \/ Entity!Reload(c)
RepositoryBulkUpdate(c) == Entity!PublishAgain(c)
RepositoryDelete(c) == Entity!Find(c) \/ Entity!Remove(c)
RepositoryBulkDelete(c) == Entity!RemoveAll(c) \/ Entity!FindRemoved(c)

\* A projection, at the table or refused by it.
Handled(e, kind) == e.kind = kind /\ (Entity!Apply(e) \/ Entity!ApplyFails(e))

onCatalogSyncLogCreated(e) == Handled(e, "created")
onCatalogSyncLogUpdated(e) == Handled(e, "updated")
onCatalogSyncLogDeleted(e) == Handled(e, "deleted")
onCatalogSyncCompleted(e) == Handled(e, "completed")
onCatalogSyncFailed(e) == Handled(e, "failed")

handle(e) ==
    \/ onCatalogSyncLogCreated(e) \/ onCatalogSyncLogUpdated(e)
    \/ onCatalogSyncLogDeleted(e) \/ onCatalogSyncCompleted(e)
    \/ onCatalogSyncFailed(e)

-----------------------------------------------------------------------------

Controller(c) ==
    \/ ControllerCreate(c) \/ ControllerBulkCreate(c)
    \/ ControllerUpdate(c) \/ ControllerBulkUpdate(c)
    \/ ControllerDelete(c) \/ ControllerBulkDelete(c)

Resolver(c) ==
    \/ createCatalogSyncLog(c) \/ updateCatalogSyncLog(c)
    \/ createOrUpdateCatalogSyncLog(c) \/ deleteCatalogSyncLog(c)

Service(c) ==
    \/ ServiceCreate(c) \/ ServiceBulkCreate(c)
    \/ ServiceUpdate(c) \/ ServiceBulkUpdate(c)
    \/ ServiceDelete(c) \/ ServiceBulkDelete(c)

Repository(c) ==
    \/ RepositoryCreate(c) \/ RepositoryBulkCreate(c)
    \/ RepositoryUpdate(c) \/ RepositoryBulkUpdate(c)
    \/ RepositoryDelete(c) \/ RepositoryBulkDelete(c)

Next ==
    \/ \E c \in Command :
          Controller(c) \/ Resolver(c) \/ Service(c) \/ Repository(c) \/ Entity!Fail(c)
    \/ \E e \in local \union echoes : handle(e)
    \/ Entity!Kafka
    \/ Entity!Crash

Spec == Init /\ [][Next]_vars

=============================================================================
