-------------------------- MODULE OnboardingQueries --------------------------
(***************************************************************************)
(* The queries on onboardings.  The GraphQL pages are of size one: see     *)
(* customergatewayonboardingsWithPagination.                               *)
(***************************************************************************)
EXTENDS Integers, Sequences, FiniteSets

CONSTANTS Id, Value, Reader, Size, PageOfOne, NoCondition, InitialHeap
CONSTANT MaxWrites

VARIABLES heap, query, phase, data, total, pages, steady, writes

Entity == INSTANCE EntityQueries

vars == Entity!vars
Init == Entity!Init

-----------------------------------------------------------------------------
(* CustomerGatewayOnboardingQueryController.                               *)

ControllerFindAll(r) == Entity!AskAny(r, "findAll")
ControllerFindByField(r) == Entity!AskFor(r, "findAndCount", Value)
ControllerFindWithPagination(r) == \E size \in Size : Entity!Turn(r, size)
ControllerCount(r) == Entity!AskAny(r, "count")
ControllerFindAndCount(r) == Entity!AskAny(r, "findAndCount")
ControllerFindOne(r) == Entity!AskAny(r, "findOne")
ControllerFindOneOrFail(r) == Entity!AskAny(r, "findOne")
ControllerFindById(r) == Entity!AskFor(r, "findOne", Id)

-----------------------------------------------------------------------------
(* CustomerGatewayOnboardingResolver and the query handlers.               *)

customergatewayonboardings(r) == Entity!AskAny(r, "findAll")
customergatewayonboarding(r) == Entity!AskAny(r, "findById")
customergatewayonboardingsByField(r) == Entity!AskAny(r, "findByField")

\* The arguments have page and limit, where the service looks for page and size:
\* it keeps the size that PaginationArgs starts with.
customergatewayonboardingsWithPagination(r) ==
    Entity!Turn(r, PageOfOne) \/ Entity!TurnToZero(r, PageOfOne)

totalCustomerGatewayOnboardings(r) == Entity!AskAny(r, "count")
searchCustomerGatewayOnboardings(r) == Entity!AskAny(r, "findAndCount")
findOneCustomerGatewayOnboarding(r) == Entity!AskAny(r, "findOne")
findOneCustomerGatewayOnboardingOrFail(r) == Entity!AskAny(r, "findOneOrFail")

GetAllCustomerGatewayOnboardingHandler(r) == Entity!AskAny(r, "findAll")
GetCustomerGatewayOnboardingByFieldHandler(r) == Entity!AskAny(r, "findByField")
GetCustomerGatewayOnboardingByIdHandler(r) == Entity!AskFor(r, "findOne", Id)

-----------------------------------------------------------------------------
(* CustomerGatewayOnboardingQueryService.                                  *)

Answers(r, op) == query[r].op = op /\ Entity!Answer(r)

ServiceFindAll(r) == Answers(r, "findAll")
ServiceFindById(r) == Answers(r, "findById")
ServiceFindByField(r) == Answers(r, "findByField")
ServiceFindWithPagination(r) == Answers(r, "findWithPagination")
ServiceCount(r) == Answers(r, "count")
ServiceFindAndCount(r) == Answers(r, "findAndCount")
ServiceFindOne(r) == Answers(r, "findOne")
ServiceFindOneOrFail(r) == Answers(r, "findOneOrFail")

-----------------------------------------------------------------------------
(* CustomerGatewayOnboardingQueryRepository.                               *)

findAll(r) == query[r].op = "findAll" /\ (Entity!Select(r) \/ Entity!Fail(r))
findWithPagination(r) ==
    query[r].op = "findWithPagination" /\ (Entity!Select(r) \/ Entity!Fail(r))
count(r) == query[r].op = "count" /\ (Entity!Count(r) \/ Entity!Fail(r))
findAndCount(r) ==
    /\ query[r].op \in Entity!Counted
    /\ Entity!Select(r) \/ Entity!Count(r) \/ Entity!Fail(r)
findOne(r) == query[r].op \in Entity!One /\ (Entity!Select(r) \/ Entity!Fail(r))

-----------------------------------------------------------------------------
(* CustomerGatewayOnboardingService and its CustomerGatewayOnboardingRepository,*)
(* for callers inside the process: the same reads, where null stands for   *)
(* notFound, and writes that announce nothing, row by row.  The writes of  *)
(* the commands change the table in the same ways.                         *)

facadeFindAll(r) == Entity!AskAny(r, "findAll")
facadeFindById(r) == Entity!AskAny(r, "findById")
facadeFindWithPagination(r) ==
    \E size \in Size : Entity!Turn(r, size) \/ Entity!TurnToZero(r, size)
facadeCount(r) == Entity!AskAny(r, "count")
facadeFindAndCount(r) == Entity!AskAny(r, "findAndCount")
facadeFindOne(r) == Entity!AskAny(r, "findOne")
facadeFindOneOrFail(r) == Entity!AskAny(r, "findOne")

facadeCreate == \E id \in Id, value \in Value : Entity!Save(id, value)
facadeUpdate == \E id \in Entity!Present, value \in Value : Entity!Save(id, value)
facadeDelete == \E id \in Id : Entity!Delete(id)

Facade(r) ==
    \/ facadeFindAll(r) \/ facadeFindById(r) \/ facadeFindWithPagination(r)
    \/ facadeCount(r) \/ facadeFindAndCount(r)
    \/ facadeFindOne(r) \/ facadeFindOneOrFail(r)

Write == facadeCreate \/ facadeUpdate \/ facadeDelete

-----------------------------------------------------------------------------

Controller(r) ==
    \/ ControllerFindAll(r) \/ ControllerFindByField(r) \/ ControllerFindWithPagination(r)
    \/ ControllerCount(r) \/ ControllerFindAndCount(r)
    \/ ControllerFindOne(r) \/ ControllerFindOneOrFail(r) \/ ControllerFindById(r)

Resolver(r) ==
    \/ customergatewayonboardings(r)
    \/ customergatewayonboarding(r)
    \/ customergatewayonboardingsByField(r)
    \/ customergatewayonboardingsWithPagination(r)
    \/ totalCustomerGatewayOnboardings(r)
    \/ searchCustomerGatewayOnboardings(r)
    \/ findOneCustomerGatewayOnboarding(r)
    \/ findOneCustomerGatewayOnboardingOrFail(r)

Handler(r) ==
    \/ GetAllCustomerGatewayOnboardingHandler(r)
    \/ GetCustomerGatewayOnboardingByFieldHandler(r)
    \/ GetCustomerGatewayOnboardingByIdHandler(r)

Service(r) ==
    \/ ServiceFindAll(r) \/ ServiceFindById(r) \/ ServiceFindByField(r)
    \/ ServiceFindWithPagination(r) \/ ServiceCount(r) \/ ServiceFindAndCount(r)
    \/ ServiceFindOne(r) \/ ServiceFindOneOrFail(r)

Repository(r) ==
    findAll(r) \/ findWithPagination(r) \/ count(r) \/ findAndCount(r) \/ findOne(r)

Next ==
    \/ \E r \in Reader :
          \/ Controller(r) \/ Resolver(r) \/ Handler(r) \/ Facade(r)
          \/ Service(r) \/ Repository(r)
    \/ Write

Spec == Init /\ [][Next]_vars

=============================================================================
