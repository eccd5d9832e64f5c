------------------------- MODULE MCKafkaEventPipeline -------------------------
(***************************************************************************)
(* Two updates of one customer, whose idempotency keys are the same; or an *)
(* update and a deletion of it, whose producer is not trusted.             *)
(***************************************************************************)
EXTENDS KafkaEventPipeline, TLC

CONSTANTS update1, update2, deletion, customer, customerUpdated, customerDeleted

UpdateTopic == {customerUpdated}
BothTopics == {customerUpdated, customerDeleted}
MCAgg == {customer}

Update1 == [id |-> update1, topic |-> customerUpdated, agg |-> customer]
Update2 == [id |-> update2, topic |-> customerUpdated, agg |-> customer]
Deletion == [id |-> deletion, topic |-> customerDeleted, agg |-> customer]

TwoUpdates == {Update1, Update2}
UpdateAndDeletion == {Update1, Deletion}
JustUpdate == {Update1}

\* The two updates differ in nothing but their names.
UpdateSymmetry == Permutations({update1, update2})

=============================================================================
