----------------------- MODULE CustomerWriteModelProofs -----------------------
(***************************************************************************)
(* Proofs about CustomerWriteModel: its state is well typed, rows are as   *)
(* commands wrote them unless a save is overtaken, what the service cache  *)
(* answers for was done, and the rows are the last written ones while one  *)
(* command follows another.                                                *)
(***************************************************************************)
EXTENDS CustomerWriteModel, TLAPS

\* A bag with one more of an element of S is a bag over S.
LEMMA BagAddType ==
    ASSUME NEW S, NEW B, IsABag(B), DOMAIN B \subseteq S, NEW x \in S
    PROVE  /\ IsABag(BagAdd(B, x))
           /\ DOMAIN BagAdd(B, x) \subseteq S
BY DEF IsABag, BagAdd

\* A bag with one less of an element is a bag over the same elements or fewer.
LEMMA BagRemoveType ==
    ASSUME NEW S, NEW B, IsABag(B), DOMAIN B \subseteq S, NEW x
    PROVE  /\ IsABag(BagRemove(B, x))
           /\ DOMAIN BagRemove(B, x) \subseteq S
BY DEF IsABag, BagRemove

\* What is in a bag after adding or removing an element.
LEMMA BagElements ==
    ASSUME NEW B, NEW x
    PROVE  /\ DOMAIN BagAdd(B, x) = DOMAIN B \union {x}
           /\ DOMAIN BagRemove(B, x) \subseteq DOMAIN B
BY DEF BagAdd, BagRemove

-----------------------------------------------------------------------------
(* Types of the operators.                                                 *)

\* A row is an entity.
LEMMA RowPartial == Row \subseteq Partial
BY DEF Row, Partial

\* What a DTO makes of an entity is an entity, and of a row a row; and doing it
\* again, also after another entity was laid on it, changes no more.
LEMMA OverlayType ==
    ASSUME NEW row \in Partial, NEW dto \in Partial
    PROVE  /\ Overlay(row, dto) \in Partial
           /\ row \in Row => Overlay(row, dto) \in Row
           /\ Overlay(Overlay(row, dto), dto) = Overlay(row, dto)
           /\ \A entity \in Partial :
                 row = Overlay(row, entity) /\ entity = Overlay(entity, dto)
                     => row = Overlay(row, dto)
BY DEF Overlay, Given, Row, Partial

\* A new customer is an entity, and what is inserted is a row.
LEMMA InsertedType ==
    /\ NewCustomer \in Partial
    /\ \A entity \in Partial : Inserted(entity) \in Row
<1>1. [riskLevel |-> DefaultLevel, externalReference |-> DefaultReference] \in Row
  BY DataAssumption DEF Row
<1>2. NewCustomer \in Partial
  BY DataAssumption DEF NewCustomer, Partial
<1>3. QED
  BY <1>1, <1>2, OverlayType, RowPartial DEF Inserted

\* A request is not the empty slot.
LEMMA BusyRequest ==
    ASSUME TypeOK, NEW c \in Client, request[c] # Idle
    PROVE  /\ request[c] \in Request
           /\ request[c].command \in Command
           /\ request[c].at \in {"load", "lookup", "find", "write", "reload", "answer"}
           /\ request[c].row \in Partial \union {Absent}
           /\ request[c].wrote \in BOOLEAN
BY DEF TypeOK, Request

\* What a command names.
LEMMA CommandType ==
    ASSUME NEW cmd \in Command
    PROVE  /\ cmd.op \in {"create", "update", "delete"}
           /\ cmd.op \in {"create", "update"} => cmd.dto \in Partial
           /\ cmd.op \in {"update", "delete"} => cmd.id \in Id
BY DataAssumption DEF Command

\* What the service asks of the repository is a call, once there is a candidate.
LEMMA CallType ==
    ASSUME TypeOK, NEW c \in Client, request[c] # Idle,
           Op(c) # "delete" => request[c].row \in Partial
    PROVE  CallOf(c) \in Call
<1>1. request[c].command \in Command
  BY BusyRequest
<1>2. CASE Op(c) = "create"
  BY <1>2 DEF CallOf, Call, Op
<1>3. CASE Op(c) = "update"
  <2>1. Target(c) \in Id
    BY <1>1, <1>3, CommandType DEF Op, Target
  <2>2. QED
    BY <1>3, <2>1 DEF CallOf, Call, Op
<1>4. CASE Op(c) = "delete"
  <2>1. Target(c) \in Id
    BY <1>1, <1>4, CommandType DEF Op, Target
  <2>2. QED
    BY <1>4, <2>1 DEF CallOf, Call, Op
<1>5. QED
  BY <1>1, <1>2, <1>3, <1>4, CommandType DEF Op

-----------------------------------------------------------------------------
(***************************************************************************)
(* The inductive invariant.                                                *)
(***************************************************************************)

\* Some write in A was to id.
Known(id, A) == \E w \in A : w[1] = id

\* Some write in A does what the command asks, or removed the customer that it
\* updates; and the same of a call of the repository.
Backed(cmd, A) ==
    \E w \in A : \/ Answers(cmd, w[1], w[2])
                 \/ cmd.op = "update" /\ w = <<cmd.id, Absent>>

CallBacked(call, A) ==
    CASE call.op = "create" -> \E id \in Id : <<id, Inserted(call.row)>> \in A
      [] call.op = "update" ->
            \/ \E row \in Row : <<call.id, row>> \in A /\ row = Overlay(row, call.row)
            \/ <<call.id, Absent>> \in A
      [] call.op = "delete" -> <<call.id, Absent>> \in A

\* A request is where its operation can be; past the load it has its candidate,
\* which the DTO changes no further; it names an id that was written, and past
\* the write it is backed by one.
Formed(r, A) ==
    /\ r.at = "load" => r.command.op # "create"
    /\ r.at = "reload" => r.command.op = "update"
    /\ r.at = "find" => r.command.op = "delete"
    /\ r.at = "write" /\ r.command.op = "delete" => r.row \in Row
    /\ r.command.op # "delete" /\ r.at # "load" => r.row \in Partial
    /\ r.command.op = "create" => r.row = Overlay(NewCustomer, r.command.dto)
    /\ r.command.op = "update" /\ r.at # "load" =>
          r.row = Overlay(r.row, r.command.dto)
    /\ r.command.op # "create" => Known(r.command.id, A)
    /\ r.at = "reload" =>
          \/ \E row \in Row : <<r.command.id, row>> \in A /\ row = Overlay(row, r.row)
          \/ <<r.command.id, Absent>> \in A
    /\ r.at = "answer" => Backed(r.command, A)

RequestsFormed ==
    \A c \in Client : request[c] # Idle => Formed(request[c], authored)

\* A row that was written and is not there was removed by a command.
AbsentWasRemoved ==
    \A id \in Id :
        rows[id] = Absent /\ Known(id, authored) => <<id, Absent>> \in authored

\* A row of id is authored: as a whole, unless a save was overtaken, and by column.
RowAuthored(id, row, A, o) ==
    (o \/ <<id, row>> \in A) /\ ColumnsAuthored(id, row, A)

\* What an event on its way writes was written by a command.
EventAuthored(e, A, o) ==
    IF e.kind = "deleted" THEN <<e.id, Absent>> \in A ELSE RowAuthored(e.id, e.row, A, o)

EventsAuthored ==
    /\ \A e \in DOMAIN echoes : EventAuthored(e, authored, overtaken)
    /\ \A p \in DOMAIN projections : EventAuthored(p.event, authored, overtaken)

\* What a repository entry answers for was done.
CallsBacked == \A call \in repositoryCache : CallBacked(call, authored)

IInv ==
    /\ TypeOK
    /\ RequestsFormed
    /\ RowsAuthored
    /\ AbsentWasRemoved
    /\ EventsAuthored
    /\ CallsBacked
    /\ CachedAnswersBacked

-----------------------------------------------------------------------------
(***************************************************************************)
(* Types are kept.                                                         *)
(***************************************************************************)

\* Any request may come next in a slot, or none.
LEMMA SlotType ==
    ASSUME TypeOK, NEW c \in Client, NEW r \in Request \union {Idle}
    PROVE  [request EXCEPT ![c] = r] \in [Client -> Request \union {Idle}]
BY DEF TypeOK

\* A request that moves on, with another candidate or not, is a request.
LEMMA MoveType ==
    ASSUME NEW r \in Request,
           NEW place \in {"load", "lookup", "find", "write", "reload", "answer"},
           NEW row \in Partial \union {Absent}, NEW wrote \in BOOLEAN
    PROVE  /\ [r EXCEPT !.at = place] \in Request
           /\ [r EXCEPT !.at = place, !.row = row] \in Request
           /\ [r EXCEPT !.at = place, !.wrote = wrote] \in Request
BY DEF Request

\* So is the slot of a request that moves on.
LEMMA MoveSlotType ==
    ASSUME TypeOK, NEW c \in Client, request[c] # Idle,
           NEW place \in {"load", "lookup", "find", "write", "reload", "answer"},
           NEW row \in Partial \union {Absent}, NEW wrote \in BOOLEAN
    PROVE  /\ [request EXCEPT ![c].at = place] \in [Client -> Request \union {Idle}]
           /\ [request EXCEPT ![c].at = place, ![c].row = row]
                 \in [Client -> Request \union {Idle}]
           /\ [request EXCEPT ![c].at = place, ![c].wrote = wrote]
                 \in [Client -> Request \union {Idle}]
<1>1. request[c] \in Request /\ request \in [Client -> Request \union {Idle}]
  BY BusyRequest DEF TypeOK
<1>2. /\ [request EXCEPT ![c].at = place]
            = [request EXCEPT ![c] = [request[c] EXCEPT !.at = place]]
      /\ [request EXCEPT ![c].at = place, ![c].row = row]
            = [request EXCEPT ![c] = [request[c] EXCEPT !.at = place, !.row = row]]
      /\ [request EXCEPT ![c].at = place, ![c].wrote = wrote]
            = [request EXCEPT ![c] = [request[c] EXCEPT !.at = place, !.wrote = wrote]]
  BY <1>1
<1>3. QED
  BY <1>1, <1>2, MoveType, SlotType

\* The case of neither.
LEMMA PlaceSlotType ==
    ASSUME TypeOK, NEW c \in Client, request[c] # Idle,
           NEW place \in {"load", "lookup", "find", "write", "reload", "answer"}
    PROVE  [request EXCEPT ![c].at = place] \in [Client -> Request \union {Idle}]
<1>1. PICK row \in Partial \union {Absent} : TRUE
  OBVIOUS
<1>2. PICK wrote \in BOOLEAN : TRUE
  OBVIOUS
<1>3. QED
  BY <1>1, <1>2, MoveSlotType

\* A refused command leaves an empty slot and a reply.
LEMMA RefuseType ==
    ASSUME TypeOK, NEW c \in Client, request[c] # Idle, Refuse(c)
    PROVE  /\ request' \in [Client -> Request \union {Idle}]
           /\ reply' \in [Client -> Reply \union {NoReply}]
<1>1. /\ request[c].command \in Command
      /\ request[c].wrote \in BOOLEAN
  BY BusyRequest
<1>2. [command |-> request[c].command, ok |-> FALSE, done |-> request[c].wrote] \in Reply
  BY <1>1 DEF Reply
<1>3. QED
  BY <1>2, SlotType DEF Refuse, TypeOK

\* Publishing an event keeps the bags bags.
LEMMA PublishType ==
    ASSUME TypeOK, NEW e \in Event, Publish(e)
    PROVE  /\ IsABag(projections') /\ DOMAIN projections' \subseteq Projection
           /\ IsABag(echoes') /\ DOMAIN echoes' \subseteq Event
           /\ projectionCache' \subseteq Event
           /\ processed' \subseteq {"created", "updated", "deleted"} \X Id
<1>1. Incoming(e, FALSE) \in Projection
  BY DEF Projection, Incoming
<1>2. \A p \in Projection : /\ IsABag(BagAdd(projections, p))
                            /\ DOMAIN BagAdd(projections, p) \subseteq Projection
  BY BagAddType DEF TypeOK
<1>3. /\ IsABag(BagAdd(echoes, e))
      /\ DOMAIN BagAdd(echoes, e) \subseteq Event
  BY BagAddType DEF TypeOK
<1>4. QED
  BY <1>1, <1>2, <1>3, Zenon DEF Publish, TypeOK

\* The write of a row keeps the table and the history typed.
LEMMA AuthorType ==
    ASSUME TypeOK, NEW id \in Id, NEW row \in Row \union {Absent}, Author(id, row)
    PROVE  /\ rows' \in [Id -> Row \union {Absent}]
           /\ last' \in [Id -> Row \union {Absent}]
           /\ authored' \subseteq Id \X (Row \union {Absent})
           /\ raced' \in BOOLEAN /\ overtaken' \in BOOLEAN
BY DEF Author, TypeOK

\* An answer that says ok is a reply.
LEMMA ReplyType ==
    ASSUME NEW cmd \in Command, NEW done \in BOOLEAN
    PROVE  [command |-> cmd, ok |-> TRUE, done |-> done] \in Reply
BY DEF Reply

\* A command that is taken or answered from the cache keeps the types.
LEMMA StartTypes ==
    ASSUME TypeOK, NEW c \in Client, NEW cmd \in Command,
           AnswerFromCache(c, cmd) \/ StartCommand(c, cmd)
    PROVE  TypeOK'
<1>1. CASE AnswerFromCache(c, cmd)
  <2>1. Holds(cmd) \in BOOLEAN
    BY DEF Holds
  <2>2. [command |-> cmd, ok |-> TRUE, done |-> Holds(cmd)] \in Reply
    BY <2>1, ReplyType, Zenon
  <2>3. reply' \in [Client -> Reply \union {NoReply}]
    BY <1>1, <2>2 DEF AnswerFromCache, TypeOK
  <2>4. ask' \in Seq(Client \X Command)
    BY <1>1 DEF AnswerFromCache, Sends, TypeOK
  <2>5. QED
    BY <1>1, <2>3, <2>4 DEF AnswerFromCache, TypeOK, caches, delivery, history
<1>2. CASE StartCommand(c, cmd)
  <2>1. PICK r :
            /\ r = IF cmd.op = "create"
                   THEN [command |-> cmd, at |-> "lookup",
                         row |-> Overlay(NewCustomer, cmd.dto), wrote |-> FALSE]
                   ELSE [command |-> cmd, at |-> "load", row |-> Absent, wrote |-> FALSE]
            /\ request' = [request EXCEPT ![c] = r]
    BY <1>2 DEF StartCommand
  <2>2. cmd.op = "create" => Overlay(NewCustomer, cmd.dto) \in Partial
    BY CommandType, InsertedType, OverlayType
  <2>3. r \in Request
    BY <2>1, <2>2 DEF Request
  <2>4. request' \in [Client -> Request \union {Idle}]
    BY <2>1, <2>3, SlotType
  <2>5. /\ reply' \in [Client -> Reply \union {NoReply}]
        /\ serviceCache' \subseteq Command
        /\ ask' \in Seq(Client \X Command)
    BY <1>2 DEF StartCommand, Sends, TypeOK
  <2>6. raced' \in BOOLEAN
    BY <1>2, Zenon DEF StartCommand, TypeOK
  <2>7. QED
    BY <1>2, <2>4, <2>5, <2>6 DEF StartCommand, TypeOK, delivery
<1>3. QED
  BY <1>1, <1>2

\* So do the reads of a command.
LEMMA ReadTypes ==
    ASSUME TypeOK, RequestsFormed, NEW c \in Client,
           \/ LoadForUpdate(c) \/ LoadForDelete(c) \/ LookUp(c) \/ Find(c)
    PROVE  TypeOK'
<1>0. request[c] # Idle /\ request[c].command \in Command
  BY BusyRequest DEF LoadForUpdate, LoadForDelete, LookUp, Find, At
<1>1. CASE LoadForUpdate(c)
  <2>1. rows[Target(c)] \in Row \union {Absent} /\ request[c].command.dto \in Partial
    BY <1>0, <1>1, CommandType DEF LoadForUpdate, Op, Target, TypeOK
  <2>2. PICK base : base = IF rows[Target(c)] = Absent THEN NewCustomer ELSE rows[Target(c)]
    OBVIOUS
  <2>3. base \in Partial
    BY <2>1, <2>2, InsertedType, RowPartial
  <2>4. Overlay(base, request[c].command.dto) \in Partial
    BY <2>1, <2>3, OverlayType
  <2>5. /\ request' \in [Client -> Request \union {Idle}]
        /\ reply' \in [Client -> Reply \union {NoReply}]
    <3>1. CASE Refuse(c)
      BY <1>0, <3>1, RefuseType
    <3>2. CASE ~Refuse(c)
      <4>1. /\ request' = [request EXCEPT ![c].at = "lookup",
                              ![c].row = Overlay(base, request[c].command.dto)]
            /\ UNCHANGED reply
        BY <1>1, <2>2, <3>2 DEF LoadForUpdate
      <4>2. QED
        BY <1>0, <2>4, <4>1, MoveSlotType DEF TypeOK
    <3>3. QED
      BY <3>1, <3>2
  <2>6. QED
    BY <1>1, <2>5 DEF LoadForUpdate, TypeOK, caches, delivery, history
<1>2. CASE LoadForDelete(c)
  <2>1. [request EXCEPT ![c].at = "lookup"] \in [Client -> Request \union {Idle}]
    BY <1>0, PlaceSlotType
  <2>2. /\ request' \in [Client -> Request \union {Idle}]
        /\ reply' \in [Client -> Reply \union {NoReply}]
    BY <1>0, <1>2, <2>1, RefuseType DEF LoadForDelete, TypeOK
  <2>3. QED
    BY <1>2, <2>2 DEF LoadForDelete, TypeOK, caches, delivery, history
<1>3. CASE LookUp(c)
  <2>1. PICK place \in {"find", "write", "answer"} :
            request' = [request EXCEPT ![c].at = place]
    BY <1>3 DEF LookUp
  <2>2. request' \in [Client -> Request \union {Idle}]
    BY <1>0, <2>1, PlaceSlotType
  <2>3. repositoryCache' \subseteq Call
    BY <1>3 DEF LookUp, TypeOK
  <2>4. QED
    BY <1>3, <2>2, <2>3 DEF LookUp, TypeOK, delivery, history
<1>4. CASE Find(c)
  <2>1. Op(c) = "delete"
    BY <1>0, <1>4 DEF Find, At, Op, RequestsFormed, Formed
  <2>2. rows[Target(c)] \in Row \union {Absent}
    BY <1>0, <2>1, CommandType DEF Op, Target, TypeOK
  <2>3. [request EXCEPT ![c].at = "write", ![c].row = rows[Target(c)]]
            \in [Client -> Request \union {Idle}]
    BY <1>0, <2>2, MoveSlotType, RowPartial
  <2>4. /\ request' \in [Client -> Request \union {Idle}]
        /\ reply' \in [Client -> Reply \union {NoReply}]
    BY <1>0, <1>4, <2>3, RefuseType DEF Find, TypeOK
  <2>5. QED
    BY <1>4, <2>4 DEF Find, TypeOK, caches, delivery, history
<1>5. QED
  BY <1>1, <1>2, <1>3, <1>4

\* So do its writes.
LEMMA WriteTypes ==
    ASSUME TypeOK, RequestsFormed, NEW c \in Client,
           Save(c) \/ Overwrite(c) \/ Reload(c) \/ Remove(c)
    PROVE  TypeOK'
<1>0. /\ request[c] # Idle /\ request[c].command \in Command
      /\ request[c].row \in Partial \union {Absent}
      /\ \A wrote \in BOOLEAN :
            [request EXCEPT ![c].at = "answer", ![c].wrote = wrote]
                \in [Client -> Request \union {Idle}]
      /\ \A wrote \in BOOLEAN :
            [request EXCEPT ![c].at = "reload", ![c].wrote = wrote]
                \in [Client -> Request \union {Idle}]
  <2>1. request[c] # Idle
    BY DEF Save, Overwrite, Reload, Remove, At
  <2>2. PICK row \in Partial \union {Absent} : TRUE
    OBVIOUS
  <2>3. QED
    BY <2>1, <2>2, BusyRequest, MoveSlotType
<1>1. /\ [request EXCEPT ![c].at = "answer"] \in [Client -> Request \union {Idle}]
      /\ [request EXCEPT ![c].at = "reload"] \in [Client -> Request \union {Idle}]
  BY <1>0, PlaceSlotType
<1>2. request[c].at = "write" =>
          /\ Op(c) = "delete" => request[c].row \in Row
          /\ Op(c) # "delete" => request[c].row \in Partial
  BY <1>0 DEF RequestsFormed, Formed, Op
<1>3. Op(c) # "create" => Target(c) \in Id /\ rows[Target(c)] \in Row \union {Absent}
  BY <1>0, CommandType DEF Op, Target, TypeOK
<1>4. Op(c) # "delete" /\ request[c].at # "load" => CallOf(c) \in Call
  BY <1>0, CallType DEF RequestsFormed, Formed, Op
<1>5. Op(c) = "delete" => CallOf(c) \in Call
  BY <1>0, CallType
<1>6. CASE Save(c)
  <2>1. Inserted(request[c].row) \in Row /\ CallOf(c) \in Call
    BY <1>2, <1>4, <1>6, InsertedType DEF Save, At
  <2>2. CASE Refuse(c) /\ UNCHANGED <<rows, repositoryCache, projectionCache, delivery, history>>
    <3>1. /\ request' \in [Client -> Request \union {Idle}]
          /\ reply' \in [Client -> Reply \union {NoReply}]
      BY <1>0, <2>2, RefuseType
    <3>2. UNCHANGED <<serviceCache, ask, incidents>>
      BY <1>6 DEF Save
    <3>3. QED
      BY <2>2, <3>1, <3>2 DEF TypeOK, delivery, history
  <2>3. CASE \E id \in Id :
             /\ Author(id, Inserted(request[c].row))
             /\ Publish([kind |-> "created", id |-> id, row |-> Inserted(request[c].row)])
             /\ repositoryCache' = repositoryCache \union {CallOf(c)}
             /\ request' = [request EXCEPT ![c].at = "answer", ![c].wrote = TRUE]
             /\ UNCHANGED reply
    <3>1. PICK id \in Id :
             /\ Author(id, Inserted(request[c].row))
             /\ Publish([kind |-> "created", id |-> id, row |-> Inserted(request[c].row)])
             /\ repositoryCache' = repositoryCache \union {CallOf(c)}
             /\ request' = [request EXCEPT ![c].at = "answer", ![c].wrote = TRUE]
             /\ UNCHANGED reply
      BY <2>3
    <3>2. [kind |-> "created", id |-> id, row |-> Inserted(request[c].row)] \in Event
      BY <2>1 DEF Event
    <3>3. UNCHANGED <<serviceCache, ask, incidents>>
      BY <1>6 DEF Save
    <3>4. request' \in [Client -> Request \union {Idle}]
      BY <1>0, <3>1
    <3>5. repositoryCache' \subseteq Call
      BY <2>1, <3>1 DEF TypeOK
    <3>6. /\ rows' \in [Id -> Row \union {Absent}]
          /\ last' \in [Id -> Row \union {Absent}]
          /\ authored' \subseteq Id \X (Row \union {Absent})
          /\ raced' \in BOOLEAN /\ overtaken' \in BOOLEAN
      BY <2>1, <3>1, AuthorType
    <3>7. /\ IsABag(projections') /\ DOMAIN projections' \subseteq Projection
          /\ IsABag(echoes') /\ DOMAIN echoes' \subseteq Event
          /\ projectionCache' \subseteq Event
          /\ processed' \subseteq {"created", "updated", "deleted"} \X Id
      BY <3>1, <3>2, PublishType
    <3>8. QED
      BY <3>1, <3>3, <3>4, <3>5, <3>6, <3>7 DEF TypeOK
  <2>4. QED
    BY <1>6, <2>2, <2>3 DEF Save
<1>7. CASE Overwrite(c)
  <2>1. /\ request[c].row \in Partial /\ Target(c) \in Id
        /\ rows[Target(c)] \in Row \union {Absent}
    BY <1>2, <1>3, <1>7 DEF Overwrite, At
  <2>2. /\ request' \in [Client -> Request \union {Idle}]
        /\ rows' \in [Id -> Row \union {Absent}]
        /\ last' \in [Id -> Row \union {Absent}]
        /\ authored' \subseteq Id \X (Row \union {Absent})
        /\ raced' \in BOOLEAN /\ overtaken' \in BOOLEAN
    <3>1. CASE rows[Target(c)] = Absent
      BY <1>1, <1>7, <3>1 DEF Overwrite, TypeOK, history
    <3>2. CASE rows[Target(c)] # Absent
      <4>1. /\ Author(Target(c), Overlay(rows[Target(c)], request[c].row))
            /\ request' = [request EXCEPT ![c].at = "reload", ![c].wrote = TRUE]
        BY <1>7, <3>2 DEF Overwrite
      <4>2. request' \in [Client -> Request \union {Idle}]
        BY <1>0, <4>1
      <4>3. Overlay(rows[Target(c)], request[c].row) \in Row
        BY <2>1, <3>2, OverlayType, RowPartial
      <4>4. QED
        BY <2>1, <4>1, <4>2, <4>3, AuthorType
    <3>3. QED
      BY <3>1, <3>2
  <2>3. QED
    BY <1>7, <2>2 DEF Overwrite, TypeOK, caches, delivery
<1>8. CASE Reload(c)
  <2>1. Op(c) = "update"
    BY <1>0, <1>8 DEF Reload, At, Op, RequestsFormed, Formed
  <2>2. Target(c) \in Id /\ CallOf(c) \in Call
    BY <1>3, <1>4, <1>8, <2>1 DEF Reload, At
  <2>3. CASE rows[Target(c)] = Absent
    <3>1. Refuse(c) /\ UNCHANGED <<repositoryCache, projectionCache, delivery>>
      BY <1>8, <2>3 DEF Reload
    <3>2. /\ request' \in [Client -> Request \union {Idle}]
          /\ reply' \in [Client -> Reply \union {NoReply}]
      BY <1>0, <3>1, RefuseType
    <3>3. QED
      BY <1>8, <3>1, <3>2 DEF Reload, TypeOK, delivery, history
  <2>4. CASE rows[Target(c)] # Absent
    <3>1. /\ Publish([kind |-> "updated", id |-> Target(c), row |-> rows[Target(c)]])
          /\ repositoryCache' = repositoryCache \union {CallOf(c)}
          /\ request' = [request EXCEPT ![c].at = "answer"]
          /\ UNCHANGED reply
      BY <1>8, <2>4 DEF Reload
    <3>2. [kind |-> "updated", id |-> Target(c), row |-> rows[Target(c)]] \in Event
      BY <1>3, <2>1, <2>2, <2>4 DEF Event
    <3>3. /\ IsABag(projections') /\ DOMAIN projections' \subseteq Projection
          /\ IsABag(echoes') /\ DOMAIN echoes' \subseteq Event
          /\ projectionCache' \subseteq Event
          /\ processed' \subseteq {"created", "updated", "deleted"} \X Id
      BY <3>1, <3>2, PublishType
    <3>4. request' \in [Client -> Request \union {Idle}]
      BY <1>1, <3>1
    <3>5. repositoryCache' \subseteq Call
      BY <2>2, <3>1 DEF TypeOK
    <3>6. QED
      BY <1>8, <3>1, <3>3, <3>4, <3>5 DEF Reload, TypeOK, history
  <2>5. QED
    BY <2>3, <2>4
<1>9. CASE Remove(c)
  <2>1. /\ Op(c) = "delete" /\ Target(c) \in Id
        /\ request[c].row \in Row /\ CallOf(c) \in Call
    BY <1>2, <1>3, <1>5, <1>9 DEF Remove, At
  <2>2. [kind |-> "deleted", id |-> Target(c), row |-> request[c].row] \in Event
    BY <2>1 DEF Event
  <2>3. /\ IsABag(projections') /\ DOMAIN projections' \subseteq Projection
        /\ IsABag(echoes') /\ DOMAIN echoes' \subseteq Event
        /\ projectionCache' \subseteq Event
        /\ processed' \subseteq {"created", "updated", "deleted"} \X Id
    BY <1>9, <2>2, PublishType DEF Remove
  <2>4. /\ rows' \in [Id -> Row \union {Absent}]
        /\ last' \in [Id -> Row \union {Absent}]
        /\ authored' \subseteq Id \X (Row \union {Absent})
        /\ raced' \in BOOLEAN /\ overtaken' \in BOOLEAN
    BY <1>9, <2>1, AuthorType DEF Remove
  <2>5. /\ request' \in [Client -> Request \union {Idle}]
        /\ repositoryCache' \subseteq Call
    BY <1>0, <1>9, <2>1 DEF Remove, TypeOK
  <2>6. QED
    BY <1>9, <2>3, <2>4, <2>5 DEF Remove, TypeOK
<1>10. QED
  BY <1>6, <1>7, <1>8, <1>9

\* So do its end, with an answer or an error.
LEMMA EndTypes ==
    ASSUME TypeOK, NEW c \in Client, Answer(c) \/ Fail(c)
    PROVE  TypeOK'
<1>0. request[c] # Idle /\ request[c].command \in Command
  BY BusyRequest DEF Answer, Fail, At
<1>1. CASE Answer(c)
  <2>1. PICK done : done = (request[c].wrote \/ Holds(request[c].command))
    OBVIOUS
  <2>2. done \in BOOLEAN
    BY <2>1
  <2>3. [command |-> request[c].command, ok |-> TRUE,
         done |-> request[c].wrote \/ Holds(request[c].command)] \in Reply
    BY <1>0, <2>1, <2>2, ReplyType, Zenon
  <2>4. reply' \in [Client -> Reply \union {NoReply}]
    BY <1>1, <2>3 DEF Answer, TypeOK
  <2>5. request' \in [Client -> Request \union {Idle}]
    BY <1>1, SlotType DEF Answer
  <2>6. serviceCache' \subseteq Command
    BY <1>0, <1>1 DEF Answer, TypeOK
  <2>7. QED
    BY <1>1, <2>4, <2>5, <2>6 DEF Answer, TypeOK, delivery, history
<1>2. CASE Fail(c)
  <2>1. /\ request' \in [Client -> Request \union {Idle}]
        /\ reply' \in [Client -> Reply \union {NoReply}]
    BY <1>0, <1>2, RefuseType DEF Fail
  <2>2. incidents' \in Nat
    BY <1>2 DEF Fail, GoesWrong, TypeOK
  <2>3. QED
    BY <1>2, <2>1, <2>2 DEF Fail, TypeOK, caches, delivery, history
<1>3. QED
  BY <1>1, <1>2

\* Saving the columns that differ is saving the entity, if the row is as it was found;
\* writing all of them is in any case.
LEMMA ColumnsType ==
    ASSUME NEW entity \in Row, NEW found \in Row, NEW row \in Row
    PROVE  /\ Differing(entity, found) \in Partial
           /\ Overlay(row, Differing(entity, found)) \in Row
           /\ Overlay(row, Differing(entity, row)) = entity
           /\ Overlay(row, Differing(entity, found)).riskLevel
                  \in {row.riskLevel, entity.riskLevel}
           /\ Overlay(row, Differing(entity, found)).externalReference
                  \in {row.externalReference, entity.externalReference}
BY DataAssumption DEF Differing, Overlay, Given, Row, Partial

LEMMA WholeRow ==
    ASSUME NEW entity \in Row, NEW row \in Row
    PROVE  Overlay(row, entity) = entity
BY DataAssumption DEF Overlay, Given, Row

\* What a projection is made of.
LEMMA ProjectionParts ==
    ASSUME TypeOK, NEW p \in DOMAIN projections
    PROVE  /\ p \in Projection /\ p.event \in Event
           /\ p.event.kind \in {"created", "updated", "deleted"}
           /\ p.event.id \in Id /\ p.event.row \in Row
           /\ p.found \in Row \union {Absent, Unread}
           /\ rows[p.event.id] \in Row \union {Absent}
BY DEF TypeOK, Projection, Event

\* What a projection leaves: the row of its event, no row, or the row that is there
\* with the columns that differed when the projection looked.
LEMMA ProjectedCases ==
    ASSUME TypeOK, NEW p \in DOMAIN projections, AtWrite(p)
    PROVE  \/ Projected(p) = Absent /\ (p.event.kind = "deleted" \/ rows[p.event.id] = Absent)
           \/ Projected(p) = p.event.row /\ p.event.kind # "deleted"
           \/ /\ p.event.kind = "created"
              /\ p.found \in Row /\ rows[p.event.id] \in Row /\ rows[p.event.id] # p.found
              /\ Projected(p) = Overlay(rows[p.event.id], Differing(p.event.row, p.found))
<1>1. /\ p.event.kind \in {"created", "updated", "deleted"}
      /\ p.event.row \in Row
      /\ p.found \in Row \union {Absent, Unread}
      /\ rows[p.event.id] \in Row \union {Absent}
  BY ProjectionParts
<1>2. CASE p.event.kind = "deleted"
  BY <1>2 DEF Projected, Inserts
<1>3. CASE p.event.kind = "updated"
  <2>1. Projected(p) = IF rows[p.event.id] = Absent THEN Absent
                       ELSE Overlay(rows[p.event.id], p.event.row)
    BY <1>3 DEF Projected, Inserts, ColumnsSet
  <2>2. QED
    BY <1>1, <1>3, <2>1, WholeRow
<1>4. CASE p.event.kind = "created"
  <2>1. p.found \in Row \union {Absent}
    BY <1>1, <1>4 DEF AtWrite
  <2>2. CASE p.found = Absent
    BY <1>4, <2>2 DEF Projected, Inserts
  <2>3. CASE p.found \in Row /\ rows[p.event.id] = Absent
    BY <1>4, <2>3, DataAssumption DEF Projected, Inserts
  <2>4. CASE p.found \in Row /\ rows[p.event.id] # Absent
    <3>1. Projected(p) = Overlay(rows[p.event.id], Differing(p.event.row, p.found))
      BY <1>4, <2>4, DataAssumption DEF Projected, Inserts, ColumnsSet
    <3>2. QED
      BY <1>1, <1>4, <2>4, <3>1, ColumnsType
  <2>5. QED
    BY <2>1, <2>2, <2>3, <2>4
<1>5. QED
  BY <1>1, <1>2, <1>3, <1>4

\* What a projection leaves is a row or none.
LEMMA ProjectedType ==
    ASSUME TypeOK, NEW p \in DOMAIN projections, AtWrite(p)
    PROVE  Projected(p) \in Row \union {Absent}
<1>1. p.event.row \in Row
  BY ProjectionParts
<1>2. \A found, row \in Row : Overlay(row, Differing(p.event.row, found)) \in Row
  BY <1>1, ColumnsType
<1>3. QED
  BY <1>1, <1>2, ProjectedCases

\* Projections and echoes keep the types.
LEMMA EventTypes ==
    ASSUME TypeOK,
           \/ \E p \in BagToSet(projections) : LoadForSave(p) \/ Apply(p) \/ ApplyFails(p)
           \/ \E e \in BagToSet(echoes) : RouteEcho(e) \/ SkipEcho(e) \/ LoseEcho(e)
    PROVE  TypeOK'
<1>1. /\ \A p \in DOMAIN projections : p \in Projection /\ p.event \in Event
      /\ \A e \in DOMAIN echoes : e \in Event
  BY DEF TypeOK, Projection
<1>2. /\ \A p : /\ IsABag(BagRemove(projections, p))
                /\ DOMAIN BagRemove(projections, p) \subseteq Projection
      /\ \A e : IsABag(BagRemove(echoes, e)) /\ DOMAIN BagRemove(echoes, e) \subseteq Event
  BY BagRemoveType DEF TypeOK
<1>3. ASSUME NEW p \in DOMAIN projections, Apply(p)
      PROVE  TypeOK'
  <2>1. /\ projections' = BagRemove(projections, p)
        /\ AtWrite(p) /\ rows' = [rows EXCEPT ![p.event.id] = Projected(p)]
        /\ projectionCache' \subseteq projectionCache \union {p.event}
        /\ UNCHANGED <<serviceCache, repositoryCache, request, echoes, processed, reply,
                       last, authored, raced, ask, incidents>>
    BY <1>3 DEF Apply
  <2>2. /\ rows' \in [Id -> Row \union {Absent}]
        /\ overtaken' \in BOOLEAN
    <3>1. Projected(p) \in Row \union {Absent}
      BY <2>1, ProjectedType
    <3>2. overtaken' \in BOOLEAN
      BY <1>3, Zenon DEF Apply, TypeOK
    <3>3. QED
      BY <2>1, <3>1, <3>2 DEF TypeOK
  <2>3. projectionCache' \subseteq Event
    BY <1>1, <2>1 DEF TypeOK
  <2>4. QED
    BY <1>2, <2>1, <2>2, <2>3 DEF TypeOK
<1>4. ASSUME NEW p \in DOMAIN projections, ApplyFails(p)
      PROVE  TypeOK'
  <2>1. incidents' \in Nat /\ projections' = BagRemove(projections, p)
    BY <1>4 DEF ApplyFails, GoesWrong, TypeOK
  <2>2. QED
    BY <1>2, <1>4, <2>1 DEF ApplyFails, TypeOK, caches, history
<1>9. ASSUME NEW p \in DOMAIN projections, LoadForSave(p)
      PROVE  TypeOK'
  <2>1. [p EXCEPT !.found = rows[p.event.id]] \in Projection
    BY <1>1, ProjectionParts DEF Projection
  <2>2. \A B, q : IsABag(B) /\ DOMAIN B \subseteq Projection /\ q \in Projection
            => IsABag(BagAdd(B, q)) /\ DOMAIN BagAdd(B, q) \subseteq Projection
    BY BagAddType
  <2>3. IsABag(projections') /\ DOMAIN projections' \subseteq Projection
    BY <1>2, <1>9, <2>1, <2>2 DEF LoadForSave
  <2>4. QED
    BY <1>9, <2>3 DEF LoadForSave, TypeOK, caches, history
<1>5. ASSUME NEW e \in DOMAIN echoes, RouteEcho(e)
      PROVE  TypeOK'
  <2>1. Incoming(e, TRUE) \in Projection
    BY <1>1 DEF Projection, Incoming
  <2>2. \A p \in Projection : /\ IsABag(BagAdd(projections, p))
                              /\ DOMAIN BagAdd(projections, p) \subseteq Projection
    BY BagAddType DEF TypeOK
  <2>3. IsABag(projections') /\ DOMAIN projections' \subseteq Projection
    BY <1>5, <2>1, <2>2, Zenon DEF RouteEcho
  <2>4. processed' \subseteq {"created", "updated", "deleted"} \X Id
    BY <1>1, <1>5 DEF RouteEcho, TypeOK, Event
  <2>5. IsABag(echoes') /\ DOMAIN echoes' \subseteq Event
    BY <1>2, <1>5 DEF RouteEcho
  <2>6. QED
    BY <1>5, <2>3, <2>4, <2>5 DEF RouteEcho, TypeOK, caches, history
<1>6. ASSUME NEW e \in DOMAIN echoes, SkipEcho(e)
      PROVE  TypeOK'
  BY <1>2, <1>6 DEF SkipEcho, TypeOK, caches, history
<1>7. ASSUME NEW e \in DOMAIN echoes, LoseEcho(e)
      PROVE  TypeOK'
  <2>1. incidents' \in Nat
    BY <1>7 DEF LoseEcho, GoesWrong, TypeOK
  <2>2. QED
    BY <1>2, <1>7, <2>1 DEF LoseEcho, TypeOK, caches, history
<1>8. QED
  BY <1>3, <1>4, <1>5, <1>6, <1>7, <1>9 DEF BagToSet

\* Every step keeps the types.
LEMMA TypeStep ==
    ASSUME TypeOK, RequestsFormed, [Next]_vars
    PROVE  TypeOK'
<1>1. CASE UNCHANGED vars
  BY <1>1 DEF vars, TypeOK, caches, delivery, history
<1>2. ASSUME NEW c \in Client, NEW cmd \in Command,
             AnswerFromCache(c, cmd) \/ StartCommand(c, cmd)
      PROVE  TypeOK'
  BY <1>2, StartTypes
<1>3. ASSUME NEW c \in Client, Continue(c)
      PROVE  TypeOK'
  BY <1>3, ReadTypes, WriteTypes, EndTypes DEF Continue
<1>4. QED
  BY <1>1, <1>2, <1>3, EventTypes DEF Next

-----------------------------------------------------------------------------
(***************************************************************************)
(* What backs a command goes on backing it.                                *)
(***************************************************************************)

\* More writes back no less.
LEMMA BackingGrows ==
    ASSUME NEW A, NEW B, A \subseteq B
    PROVE  /\ \A id : Known(id, A) => Known(id, B)
           /\ \A cmd : Backed(cmd, A) => Backed(cmd, B)
           /\ \A call \in Call : CallBacked(call, A) => CallBacked(call, B)
           /\ \A r : Formed(r, A) => Formed(r, B)
<1>1. \A id : Known(id, A) => Known(id, B)
  BY DEF Known
<1>2. \A cmd : Backed(cmd, A) => Backed(cmd, B)
  BY DEF Backed
<1>3. \A call \in Call : CallBacked(call, A) => CallBacked(call, B)
  BY DEF CallBacked, Call
<1>4. \A r : Formed(r, A) => Formed(r, B)
  BY <1>1, <1>2 DEF Formed
<1>5. QED
  BY <1>1, <1>2, <1>3, <1>4

\* An authored row or event stays authored.
LEMMA AuthorshipGrows ==
    ASSUME authored \subseteq authored', overtaken => overtaken'
    PROVE  /\ \A id, row : RowAuthored(id, row, authored, overtaken)
                            => RowAuthored(id, row, authored', overtaken')
           /\ \A e : EventAuthored(e, authored, overtaken)
                        => EventAuthored(e, authored', overtaken')
<1>1. ASSUME NEW id, NEW row, RowAuthored(id, row, authored, overtaken)
      PROVE  RowAuthored(id, row, authored', overtaken')
  <2>1. ColumnsAuthored(id, row, authored')
    BY <1>1 DEF RowAuthored, ColumnsAuthored
  <2>2. overtaken' \/ <<id, row>> \in authored'
    BY <1>1 DEF RowAuthored
  <2>3. QED
    BY <2>1, <2>2, Zenon DEF RowAuthored
<1>2. ASSUME NEW e, EventAuthored(e, authored, overtaken)
      PROVE  EventAuthored(e, authored', overtaken')
  BY <1>1, <1>2, Zenon DEF EventAuthored
<1>3. QED
  BY <1>1, <1>2

\* An id that is not fresh is known.
LEMMA FreshKnown ==
    ASSUME NEW id
    PROVE  Fresh(id) <=> ~Known(id, authored)
BY DEF Fresh, Known

\* Nothing takes a write back.
LEMMA AuthoredGrows ==
    ASSUME [Next]_vars
    PROVE  authored \subseteq authored' /\ (overtaken => overtaken')
<1>1. \A id, row : Author(id, row) => authored \subseteq authored' /\ overtaken' = overtaken
  BY DEF Author
<1>2. \A p : Apply(p) => authored' = authored /\ (overtaken => overtaken')
  BY Zenon DEF Apply
<1>3. authored \subseteq authored'
  BY <1>1, <1>2
     DEF Next, vars, history, AnswerFromCache, StartCommand, Continue, LoadForUpdate,
         LoadForDelete, LookUp, Save, Overwrite, Reload, Find, Remove, Answer, Fail,
         LoadForSave, ApplyFails, RouteEcho, SkipEcho, LoseEcho
<1>4. (\A p : ~Apply(p)) => overtaken' = overtaken
  BY <1>1
     DEF Next, vars, history, AnswerFromCache, StartCommand, Continue, LoadForUpdate,
         LoadForDelete, LookUp, Save, Overwrite, Reload, Find, Remove, Answer, Fail,
         LoadForSave, ApplyFails, RouteEcho, SkipEcho, LoseEcho
<1>5. overtaken => overtaken'
  BY <1>2, <1>4, Zenon
<1>6. QED
  BY <1>3, <1>5

\* A slot whose next request is formed leaves the requests formed.
LEMMA SlotFormed ==
    ASSUME TypeOK, RequestsFormed, authored \subseteq authored',
           NEW c \in Client, NEW r,
           request' = [request EXCEPT ![c] = r],
           r # Idle => Formed(r, authored')
    PROVE  RequestsFormed'
<1>1. \A d \in Client : d # c => request'[d] = request[d]
  BY DEF TypeOK
<1>2. request'[c] = r
  BY DEF TypeOK
<1>3. \A d \in Client : request[d] # Idle => Formed(request[d], authored')
  BY BackingGrows DEF RequestsFormed
<1>4. QED
  BY <1>1, <1>2, <1>3 DEF RequestsFormed

\* So does a step that leaves the requests alone.
LEMMA SameFormed ==
    ASSUME RequestsFormed, authored \subseteq authored', UNCHANGED request
    PROVE  RequestsFormed'
BY BackingGrows DEF RequestsFormed

\* What backs the call of a command backs the command.
LEMMA CallBacksCommand ==
    ASSUME TypeOK, NEW c \in Client, request[c] # Idle,
           NEW A, A \subseteq Id \X (Row \union {Absent}),
           Formed(request[c], A), request[c].at # "load", CallBacked(CallOf(c), A)
    PROVE  Backed(request[c].command, A)
<1>1. request[c].command \in Command /\ Op(c) \in {"create", "update", "delete"}
  BY BusyRequest, CommandType DEF Op
<1>2. CASE Op(c) = "create"
  <2>1. PICK id \in Id : <<id, Inserted(request[c].row)>> \in A
    BY <1>2 DEF CallBacked, CallOf
  <2>2. Answers(request[c].command, id, Inserted(request[c].row))
    BY <1>2 DEF Answers, Formed, Op
  <2>3. QED
    BY <2>1, <2>2 DEF Backed
<1>3. CASE Op(c) = "update"
  <2>1. \/ \E row \in Row : <<Target(c), row>> \in A /\ row = Overlay(row, request[c].row)
        \/ <<Target(c), Absent>> \in A
    BY <1>3 DEF CallBacked, CallOf
  <2>2. ASSUME NEW row \in Row, <<Target(c), row>> \in A,
               row = Overlay(row, request[c].row)
        PROVE  Backed(request[c].command, A)
    <3>1. /\ request[c].row \in Partial /\ request[c].command.dto \in Partial
          /\ request[c].row = Overlay(request[c].row, request[c].command.dto)
      BY <1>1, <1>3, CommandType DEF Formed, Op
    <3>2. row = Overlay(row, request[c].command.dto)
      BY <2>2, <3>1, OverlayType, RowPartial
    <3>3. Answers(request[c].command, Target(c), row)
      BY <1>3, <3>2, DataAssumption DEF Answers, Op, Target
    <3>4. QED
      BY <2>2, <3>3 DEF Backed
  <2>3. CASE <<Target(c), Absent>> \in A
    BY <1>3, <2>3 DEF Backed, Op, Target
  <2>4. QED
    BY <2>1, <2>2, <2>3
<1>4. CASE Op(c) = "delete"
  <2>1. <<Target(c), Absent>> \in A
    BY <1>4 DEF CallBacked, CallOf
  <2>2. Answers(request[c].command, Target(c), Absent)
    BY <1>4 DEF Answers, Op, Target
  <2>3. QED
    BY <2>1, <2>2 DEF Backed
<1>5. QED
  BY <1>1, <1>2, <1>3, <1>4

\* The write of a command backs its call.
LEMMA AuthorBacksCall ==
    ASSUME TypeOK, NEW c \in Client, request[c] # Idle,
           NEW id \in Id, NEW row, Author(id, row),
           \/ Op(c) = "create" /\ row = Inserted(request[c].row)
           \/ /\ Op(c) = "update" /\ id = Target(c)
              /\ row \in Row /\ row = Overlay(row, request[c].row)
           \/ Op(c) = "delete" /\ id = Target(c) /\ row = Absent
    PROVE  CallBacked(CallOf(c), authored')
<1>1. <<id, row>> \in authored'
  BY DEF Author
<1>2. QED
  BY <1>1 DEF CallBacked, CallOf

-----------------------------------------------------------------------------
(***************************************************************************)
(* The commands keep the invariant.                                        *)
(***************************************************************************)

\* A command that starts is formed.
LEMMA StartFormed ==
    ASSUME IInv, NEW c \in Client, NEW cmd \in Command,
           AnswerFromCache(c, cmd) \/ StartCommand(c, cmd)
    PROVE  RequestsFormed'
<1>1. authored \subseteq authored'
  BY DEF AnswerFromCache, StartCommand, history
<1>2. CASE AnswerFromCache(c, cmd)
  BY <1>1, <1>2, SameFormed DEF AnswerFromCache, IInv
<1>3. CASE StartCommand(c, cmd)
  <2>1. PICK r :
            /\ r = IF cmd.op = "create"
                   THEN [command |-> cmd, at |-> "lookup",
                         row |-> Overlay(NewCustomer, cmd.dto), wrote |-> FALSE]
                   ELSE [command |-> cmd, at |-> "load", row |-> Absent, wrote |-> FALSE]
            /\ request' = [request EXCEPT ![c] = r]
    BY <1>3 DEF StartCommand
  <2>2. CASE cmd.op = "create"
    <3>1. Overlay(NewCustomer, cmd.dto) \in Partial
      BY <2>2, CommandType, InsertedType, OverlayType
    <3>2. /\ r.command = cmd /\ r.at = "lookup"
          /\ r.row = Overlay(NewCustomer, cmd.dto)
      BY <2>1, <2>2
    <3>3. Formed(r, authored')
      BY <2>2, <3>1, <3>2 DEF Formed
    <3>4. QED
      BY <1>1, <2>1, <3>3, SlotFormed DEF IInv
  <2>3. CASE cmd.op # "create"
    <3>1. Known(cmd.id, authored')
      BY <1>1, <1>3, <2>3, FreshKnown, BackingGrows DEF StartCommand
    <3>2. r.command = cmd /\ r.at = "load"
      BY <2>1, <2>3
    <3>3. Formed(r, authored')
      BY <2>3, <3>1, <3>2 DEF Formed
    <3>4. QED
      BY <1>1, <2>1, <3>3, SlotFormed DEF IInv
  <2>4. QED
    BY <2>2, <2>3
<1>4. QED
  BY <1>2, <1>3

\* A refused command leaves nothing to be formed.
LEMMA RefuseFormed ==
    ASSUME IInv, NEW c \in Client, Refuse(c), authored \subseteq authored'
    PROVE  RequestsFormed'
BY SlotFormed DEF Refuse, IInv

\* A command that moves on with the candidate it has.
LEMMA MoveFormed ==
    ASSUME IInv, authored \subseteq authored', NEW c \in Client, request[c] # Idle,
           NEW r \in Request, request' = [request EXCEPT ![c] = r],
           r.command = request[c].command,
           r.row = request[c].row, request[c].at # "load",
           \/ r.at = "find" /\ Op(c) = "delete"
           \/ r.at = "write" /\ Op(c) # "delete"
           \/ r.at = "reload" /\ Op(c) = "update" /\ CallBacked(CallOf(c), authored')
           \/ r.at = "answer" /\ CallBacked(CallOf(c), authored')
                              /\ authored' \subseteq Id \X (Row \union {Absent})
    PROVE  RequestsFormed'
<1>1. Formed(request[c], authored')
  BY BackingGrows DEF IInv, RequestsFormed
<1>2. r.at = "reload" =>
          \/ \E row \in Row : <<r.command.id, row>> \in authored' /\ row = Overlay(row, r.row)
          \/ <<r.command.id, Absent>> \in authored'
  BY DEF CallBacked, CallOf, Op, Target
<1>3. r.at = "answer" => Backed(r.command, authored')
  BY <1>1, CallBacksCommand DEF IInv
<1>4. Formed(r, authored')
  BY <1>1, <1>2, <1>3 DEF Formed, Op
<1>5. QED
  BY <1>4, SlotFormed DEF IInv

\* A command whose candidate is read is formed.
LEMMA ReadFormed ==
    ASSUME IInv, NEW c \in Client,
           \/ LoadForUpdate(c) \/ LoadForDelete(c) \/ LookUp(c) \/ Find(c)
    PROVE  RequestsFormed'
<1>0. /\ TypeOK /\ request[c] # Idle /\ Formed(request[c], authored)
      /\ request[c] \in Request /\ request[c].command \in Command
      /\ authored' = authored
  BY BusyRequest
     DEF LoadForUpdate, LoadForDelete, LookUp, Find, At, history, IInv, RequestsFormed
<1>1. CASE LoadForUpdate(c)
  <2>1. rows[Target(c)] \in Row \union {Absent} /\ request[c].command.dto \in Partial
    BY <1>0, <1>1, CommandType DEF LoadForUpdate, Op, Target, TypeOK
  <2>2. PICK base : base = IF rows[Target(c)] = Absent THEN NewCustomer ELSE rows[Target(c)]
    OBVIOUS
  <2>3. PICK row : row = Overlay(base, request[c].command.dto)
    OBVIOUS
  <2>4. row \in Partial /\ Overlay(row, request[c].command.dto) = row
    BY <2>1, <2>2, <2>3, InsertedType, OverlayType, RowPartial
  <2>5. CASE ~Refuse(c)
    <3>1. request' = [request EXCEPT ![c].at = "lookup", ![c].row = row]
      BY <1>1, <2>2, <2>3, <2>5 DEF LoadForUpdate
    <3>2. PICK r : r = [request[c] EXCEPT !.at = "lookup", !.row = row]
      OBVIOUS
    <3>3. request' = [request EXCEPT ![c] = r]
      BY <1>0, <3>1, <3>2 DEF TypeOK
    <3>4. r.at = "lookup" /\ r.row = row /\ r.command = request[c].command
      BY <1>0, <3>2 DEF Request
    <3>5. Op(c) = "update"
      BY <1>1 DEF LoadForUpdate
    <3>6. Formed(r, authored')
      BY <1>0, <2>4, <3>4, <3>5 DEF Formed, Op
    <3>7. QED
      BY <1>0, <3>3, <3>6, SlotFormed DEF IInv
  <2>6. QED
    BY <1>0, <2>5, RefuseFormed
<1>2. CASE LoadForDelete(c)
  <2>1. CASE ~Refuse(c)
    <3>1. request' = [request EXCEPT ![c].at = "lookup"] /\ Op(c) = "delete"
      BY <1>2, <2>1 DEF LoadForDelete
    <3>2. PICK r : r = [request[c] EXCEPT !.at = "lookup"]
      OBVIOUS
    <3>3. request' = [request EXCEPT ![c] = r]
      BY <1>0, <3>1, <3>2 DEF TypeOK
    <3>4. r.at = "lookup" /\ r.command = request[c].command
      BY <1>0, <3>2 DEF Request
    <3>5. Formed(r, authored')
      BY <1>0, <3>1, <3>4 DEF Formed, Op
    <3>6. QED
      BY <1>0, <3>3, <3>5, SlotFormed DEF IInv
  <2>2. QED
    BY <1>0, <2>1, RefuseFormed
<1>3. CASE LookUp(c)
  <2>1. PICK place \in {"find", "write", "answer"} :
            /\ request' = [request EXCEPT ![c].at = place]
            /\ place = "answer" => CallOf(c) \in repositoryCache
            /\ place = "find" => Op(c) = "delete"
            /\ place = "write" => Op(c) # "delete"
    BY <1>3 DEF LookUp
  <2>2. PICK r : r = [request[c] EXCEPT !.at = place]
    OBVIOUS
  <2>3. request' = [request EXCEPT ![c] = r]
    BY <1>0, <2>1, <2>2 DEF TypeOK
  <2>4. /\ r \in Request /\ r.at = place
        /\ r.row = request[c].row /\ r.command = request[c].command
    BY <1>0, <2>1, <2>2 DEF Request
  <2>5. place = "answer" => CallBacked(CallOf(c), authored')
    BY <1>0, <2>1 DEF IInv, CallsBacked
  <2>6. authored' \subseteq Id \X (Row \union {Absent}) /\ request[c].at # "load"
    BY <1>0, <1>3 DEF TypeOK, LookUp, At
  <2>7. QED
    BY <1>0, <2>1, <2>3, <2>4, <2>5, <2>6, MoveFormed
<1>4. CASE Find(c)
  <2>1. Op(c) = "delete"
    BY <1>0, <1>4 DEF Find, At, Op, Formed
  <2>2. rows[Target(c)] \in Row \union {Absent}
    BY <1>0, <2>1, CommandType DEF Op, Target, TypeOK
  <2>3. CASE rows[Target(c)] # Absent
    <3>1. PICK r : r = [request[c] EXCEPT !.at = "write", !.row = rows[Target(c)]]
      OBVIOUS
    <3>2. request' = [request EXCEPT ![c] = r]
      BY <1>0, <1>4, <2>3, <3>1 DEF Find, TypeOK
    <3>3. /\ r.at = "write" /\ r.row \in Row
          /\ r.command = request[c].command
      BY <1>0, <2>2, <2>3, <3>1 DEF Request
    <3>4. Formed(r, authored')
      BY <1>0, <2>1, <3>3 DEF Formed, Op
    <3>5. QED
      BY <1>0, <3>2, <3>4, SlotFormed DEF IInv
  <2>4. CASE rows[Target(c)] = Absent
    BY <1>0, <1>4, <2>4, RefuseFormed DEF Find
  <2>5. QED
    BY <2>3, <2>4
<1>5. QED
  BY <1>1, <1>2, <1>3, <1>4

\* Repository entries go on being backed, and so are they with that of a call
\* that is backed.
LEMMA EntriesBacked ==
    ASSUME IInv, authored \subseteq authored', NEW call,
           repositoryCache' \subseteq repositoryCache \union {call},
           call \in repositoryCache' => CallBacked(call, authored')
    PROVE  CallsBacked'
<1>1. \A k \in repositoryCache : CallBacked(k, authored')
  BY BackingGrows DEF IInv, TypeOK, CallsBacked
<1>2. QED
  BY <1>1 DEF CallsBacked

\* So are they when no entry is added.
LEMMA SameEntriesBacked ==
    ASSUME IInv, authored \subseteq authored', repositoryCache' \subseteq repositoryCache
    PROVE  CallsBacked'
<1>1. \A k \in repositoryCache : CallBacked(k, authored')
  BY BackingGrows DEF IInv, TypeOK, CallsBacked
<1>2. QED
  BY <1>1 DEF CallsBacked

\* A command that wrote is formed and its repository entry backed.
LEMMA WriteFormed ==
    ASSUME IInv, TypeOK', NEW c \in Client,
           Save(c) \/ Overwrite(c) \/ Reload(c) \/ Remove(c),
           authored \subseteq authored'
    PROVE  RequestsFormed' /\ CallsBacked'
<1>0. /\ TypeOK /\ request[c] # Idle /\ Formed(request[c], authored)
      /\ request[c] \in Request /\ request[c].command \in Command
      /\ request[c].at \in {"write", "reload"}
      /\ authored' \subseteq Id \X (Row \union {Absent})
  BY BusyRequest
     DEF Save, Overwrite, Reload, Remove, At, IInv, TypeOK, RequestsFormed
<1>1. CASE Save(c)
  <2>1. CASE Refuse(c) /\ UNCHANGED repositoryCache
    BY <1>0, <2>1, RefuseFormed, SameEntriesBacked
  <2>2. CASE \E id \in Id :
             /\ Author(id, Inserted(request[c].row))
             /\ repositoryCache' = repositoryCache \union {CallOf(c)}
             /\ request' = [request EXCEPT ![c].at = "answer", ![c].wrote = TRUE]
    <3>1. CallBacked(CallOf(c), authored') /\ Op(c) = "create"
      BY <1>0, <1>1, <2>2, AuthorBacksCall DEF Save
    <3>2. PICK r : r = [request[c] EXCEPT !.at = "answer", !.wrote = TRUE]
      OBVIOUS
    <3>3. request' = [request EXCEPT ![c] = r]
      BY <1>0, <2>2, <3>2 DEF TypeOK
    <3>4. /\ r \in Request /\ r.at = "answer"
          /\ r.row = request[c].row /\ r.command = request[c].command
      BY <1>0, <3>2 DEF Request
    <3>5. RequestsFormed'
      BY <1>0, <3>1, <3>3, <3>4, MoveFormed
    <3>6. CallsBacked'
      BY <2>2, <3>1, EntriesBacked
    <3>7. QED
      BY <3>5, <3>6
  <2>3. QED
    BY <1>1, <2>1, <2>2 DEF Save
<1>2. CASE Overwrite(c)
  <2>1. Op(c) = "update" /\ Target(c) \in Id
    BY <1>0, <1>2, CommandType DEF Overwrite, Op, Target
  <2>2. CallBacked(CallOf(c), authored')
    <3>1. CASE rows[Target(c)] = Absent
      <4>1. <<Target(c), Absent>> \in authored
        BY <1>0, <2>1, <3>1 DEF Formed, Op, Target, IInv, AbsentWasRemoved
      <4>2. <<Target(c), Absent>> \in authored'
        BY <4>1
      <4>3. QED
        BY <2>1, <4>2 DEF CallBacked, CallOf
    <3>2. CASE rows[Target(c)] # Absent
      <4>1. PICK row : row = Overlay(rows[Target(c)], request[c].row)
        OBVIOUS
      <4>2. Author(Target(c), row)
        BY <1>2, <3>2, <4>1 DEF Overwrite
      <4>3. request[c].row \in Partial /\ rows[Target(c)] \in Row
        BY <1>0, <1>2, <2>1, <3>2 DEF Overwrite, At, Formed, Op, TypeOK
      <4>4. row \in Row /\ row = Overlay(row, request[c].row)
        BY <4>1, <4>3, OverlayType, RowPartial
      <4>5. QED
        BY <1>0, <2>1, <4>2, <4>4, AuthorBacksCall
    <3>3. QED
      BY <3>1, <3>2
  <2>3. PICK r \in Request : /\ request' = [request EXCEPT ![c] = r]
                             /\ r.at = "reload" /\ r.row = request[c].row
                             /\ r.command = request[c].command
    <3>1. CASE rows[Target(c)] = Absent
      <4>1. PICK r : r = [request[c] EXCEPT !.at = "reload"]
        OBVIOUS
      <4>2. request' = [request EXCEPT ![c] = r]
        BY <1>0, <1>2, <3>1, <4>1 DEF Overwrite, TypeOK
      <4>3. /\ r \in Request /\ r.at = "reload"
            /\ r.row = request[c].row /\ r.command = request[c].command
        BY <1>0, <4>1 DEF Request
      <4>4. QED
        BY <4>2, <4>3
    <3>2. CASE rows[Target(c)] # Absent
      <4>1. PICK r : r = [request[c] EXCEPT !.at = "reload", !.wrote = TRUE]
        OBVIOUS
      <4>2. request' = [request EXCEPT ![c] = r]
        BY <1>0, <1>2, <3>2, <4>1 DEF Overwrite, TypeOK
      <4>3. /\ r \in Request /\ r.at = "reload"
            /\ r.row = request[c].row /\ r.command = request[c].command
        BY <1>0, <4>1 DEF Request
      <4>4. QED
        BY <4>2, <4>3
    <3>3. QED
      BY <3>1, <3>2
  <2>4. RequestsFormed'
    BY <1>0, <2>1, <2>2, <2>3, MoveFormed
  <2>5. CallsBacked'
    BY <1>2, <2>2, EntriesBacked DEF Overwrite, caches
  <2>6. QED
    BY <2>4, <2>5
<1>3. CASE Reload(c)
  <2>1. Op(c) = "update" /\ request[c].at = "reload"
    BY <1>0, <1>3 DEF Reload, At, Op, Formed
  <2>2. CallBacked(CallOf(c), authored')
    BY <1>0, <2>1 DEF Formed, CallBacked, CallOf, Op, Target
  <2>3. CASE rows[Target(c)] = Absent
    <3>1. Refuse(c) /\ UNCHANGED repositoryCache
      BY <1>3, <2>3 DEF Reload
    <3>2. QED
      BY <3>1, RefuseFormed, SameEntriesBacked
  <2>4. CASE rows[Target(c)] # Absent
    <3>1. PICK r : r = [request[c] EXCEPT !.at = "answer"]
      OBVIOUS
    <3>2. request' = [request EXCEPT ![c] = r]
      BY <1>0, <1>3, <2>4, <3>1 DEF Reload, TypeOK
    <3>3. /\ r \in Request /\ r.at = "answer"
          /\ r.row = request[c].row /\ r.command = request[c].command
      BY <1>0, <3>1 DEF Request
    <3>4. RequestsFormed'
      BY <1>0, <2>2, <3>2, <3>3, MoveFormed
    <3>5. CallsBacked'
      BY <1>3, <2>2, <2>4, EntriesBacked DEF Reload
    <3>6. QED
      BY <3>4, <3>5
  <2>5. QED
    BY <2>3, <2>4
<1>4. CASE Remove(c)
  <2>1. Op(c) = "delete" /\ Target(c) \in Id
    BY <1>0, <1>4, CommandType DEF Remove, Op, Target
  <2>2. CallBacked(CallOf(c), authored')
    BY <1>0, <1>4, <2>1, AuthorBacksCall DEF Remove
  <2>3. PICK r : r = [request[c] EXCEPT !.at = "answer", !.wrote = TRUE]
    OBVIOUS
  <2>4. request' = [request EXCEPT ![c] = r]
    BY <1>0, <1>4, <2>3 DEF Remove, TypeOK
  <2>5. /\ r \in Request /\ r.at = "answer"
        /\ r.row = request[c].row /\ r.command = request[c].command
    BY <1>0, <2>3 DEF Request
  <2>6. RequestsFormed'
    BY <1>0, <2>2, <2>4, <2>5, MoveFormed
  <2>7. CallsBacked'
    BY <1>4, <2>2, EntriesBacked DEF Remove
  <2>8. QED
    BY <2>6, <2>7
<1>5. QED
  BY <1>1, <1>2, <1>3, <1>4

\* The service entries go on being backed, and so is that of the command that
\* is answered.
LEMMA AnswersBacked ==
    ASSUME IInv, [Next]_vars
    PROVE  CachedAnswersBacked'
<1>0. authored \subseteq authored'
  BY AuthoredGrows
<1>1. CachedAnswersBacked = (\A cmd \in serviceCache : Backed(cmd, authored))
  BY DEF CachedAnswersBacked, Backed
<1>2. CachedAnswersBacked' = (\A cmd \in serviceCache' : Backed(cmd, authored'))
  BY DEF CachedAnswersBacked, Backed
<1>3. \A cmd \in serviceCache : Backed(cmd, authored')
  BY <1>0, <1>1, BackingGrows DEF IInv
<1>4. CASE serviceCache' \subseteq serviceCache
  BY <1>2, <1>3, <1>4
<1>5. CASE \E c \in Client : Answer(c)
  <2>1. PICK c \in Client : Answer(c)
    BY <1>5
  <2>2. Backed(request[c].command, authored)
    BY <2>1 DEF Answer, At, IInv, RequestsFormed, Formed
  <2>3. Backed(request[c].command, authored')
    BY <1>0, <2>2, BackingGrows
  <2>4. serviceCache' = serviceCache \union {request[c].command}
    BY <2>1 DEF Answer
  <2>5. QED
    BY <1>2, <1>3, <2>3, <2>4
<1>6. CASE /\ ~ \E c \in Client : Answer(c)
           /\ Next
  <2>1. serviceCache' \subseteq serviceCache
    BY <1>6
       DEF Next, caches, AnswerFromCache, StartCommand, Continue, LoadForUpdate,
           LoadForDelete, LookUp, Save, Overwrite, Reload, Find, Remove, Fail,
           LoadForSave, Apply, ApplyFails, RouteEcho, SkipEcho, LoseEcho
  <2>2. QED
    BY <1>4, <2>1
<1>7. QED
  BY <1>4, <1>5, <1>6 DEF vars, caches

-----------------------------------------------------------------------------
(***************************************************************************)
(* Rows and events.                                                        *)
(***************************************************************************)

\* Writing an authored row, or the absence left by an authored removal, keeps
\* the table authored.
LEMMA WrittenRows ==
    ASSUME IInv, authored \subseteq authored', overtaken => overtaken',
           authored' \subseteq Id \X (Row \union {Absent}),
           NEW id \in Id, NEW row \in Row \union {Absent},
           row = Absent => <<id, Absent>> \in authored' \/ ~Known(id, authored'),
           row # Absent => RowAuthored(id, row, authored', overtaken'),
           rows' = [rows EXCEPT ![id] = row],
           \A i \in Id \ {id} : Known(i, authored') => Known(i, authored)
    PROVE  RowsAuthored' /\ AbsentWasRemoved'
<1>1. \A i \in Id : rows'[i] = IF i = id THEN row ELSE rows[i]
  BY DEF IInv, TypeOK
<1>2. \A i \in Id : rows[i] # Absent => RowAuthored(i, rows[i], authored', overtaken')
  BY AuthorshipGrows DEF IInv, RowsAuthored, RowAuthored
<1>3. RowsAuthored'
  BY <1>1, <1>2 DEF RowsAuthored, RowAuthored
<1>4. AbsentWasRemoved'
  BY <1>1 DEF IInv, AbsentWasRemoved
<1>5. QED
  BY <1>3, <1>4

\* So does writing nothing.
LEMMA SameRows ==
    ASSUME IInv, UNCHANGED <<rows, authored, overtaken>>
    PROVE  RowsAuthored' /\ AbsentWasRemoved'
BY DEF IInv, RowsAuthored, AbsentWasRemoved

\* A row that was written as it is is authored.
LEMMA WrittenAuthored ==
    ASSUME NEW A, NEW o, NEW id, NEW row \in Row, <<id, row>> \in A
    PROVE  RowAuthored(id, row, A, o)
<1>1. row # Absent
  BY DataAssumption
<1>2. QED
  BY <1>1 DEF RowAuthored, ColumnsAuthored

\* The write of a command keeps the table authored.
LEMMA AuthoredRows ==
    ASSUME IInv, NEW id \in Id, NEW row \in Row \union {Absent}, Author(id, row)
    PROVE  RowsAuthored' /\ AbsentWasRemoved'
<1>1. /\ authored' = authored \union {<<id, row>>}
      /\ rows' = [rows EXCEPT ![id] = row]
      /\ UNCHANGED overtaken
  BY DEF Author
<1>2. \A i \in Id \ {id} : Known(i, authored') => Known(i, authored)
  BY <1>1 DEF Known
<1>3. authored' \subseteq Id \X (Row \union {Absent})
  BY <1>1 DEF IInv, TypeOK
<1>4. row # Absent => RowAuthored(id, row, authored', overtaken')
  BY <1>1, WrittenAuthored
<1>5. QED
  BY <1>1, <1>2, <1>3, <1>4, WrittenRows

\* A row made of the columns of two authored rows is authored by column.
LEMMA MixedColumns ==
    ASSUME NEW A, NEW id, NEW row, NEW other, NEW mixed,
           ColumnsAuthored(id, row, A), ColumnsAuthored(id, other, A),
           mixed.riskLevel \in {row.riskLevel, other.riskLevel},
           mixed.externalReference \in {row.externalReference, other.externalReference}
    PROVE  ColumnsAuthored(id, mixed, A)
BY DEF ColumnsAuthored

\* A projection keeps the table authored, as its event is; but the save of a creation
\* that was overtaken only by column.
LEMMA ProjectedRows ==
    ASSUME IInv, NEW p \in DOMAIN projections, Apply(p)
    PROVE  RowsAuthored' /\ AbsentWasRemoved'
<1>1. /\ TypeOK /\ p.event \in Event /\ p.event.id \in Id /\ p.event.row \in Row
      /\ EventAuthored(p.event, authored, overtaken)
  BY ProjectionParts DEF IInv, EventsAuthored
<1>2. /\ AtWrite(p)
      /\ rows' = [rows EXCEPT ![p.event.id] = Projected(p)]
      /\ authored' = authored
      /\ overtaken => overtaken'
      /\ p.event.kind = "created" /\ rows[p.event.id] # p.found => overtaken'
      /\ authored \subseteq Id \X (Row \union {Absent})
  BY <1>1, Zenon DEF Apply, TypeOK
<1>3. Projected(p) \in Row \union {Absent}
  BY <1>1, <1>2, ProjectedType
<1>4. Projected(p) = Absent =>
          <<p.event.id, Absent>> \in authored \/ ~Known(p.event.id, authored)
  <2>1. SUFFICES ASSUME Projected(p) = Absent, Known(p.event.id, authored)
                 PROVE  <<p.event.id, Absent>> \in authored
    OBVIOUS
  <2>2. p.event.kind = "deleted" \/ rows[p.event.id] = Absent
    <3>1. p.event.row # Absent
      BY <1>1, DataAssumption
    <3>2. \A found, row \in Row : Overlay(row, Differing(p.event.row, found)) # Absent
      BY <1>1, ColumnsType, DataAssumption
    <3>3. QED
      BY <1>1, <1>2, <2>1, <3>1, <3>2, ProjectedCases
  <2>3. CASE p.event.kind = "deleted"
    BY <1>1, <2>3 DEF EventAuthored
  <2>4. CASE rows[p.event.id] = Absent
    BY <1>1, <2>1, <2>4 DEF IInv, AbsentWasRemoved
  <2>5. QED
    BY <2>2, <2>3, <2>4
<1>5. Projected(p) # Absent =>
          RowAuthored(p.event.id, Projected(p), authored, overtaken')
  <2>1. SUFFICES ASSUME Projected(p) # Absent
                 PROVE  RowAuthored(p.event.id, Projected(p), authored, overtaken')
    OBVIOUS
  <2>2. CASE Projected(p) = p.event.row /\ p.event.kind # "deleted"
    <3>1. RowAuthored(p.event.id, p.event.row, authored, overtaken)
      BY <1>1, <2>2 DEF EventAuthored
    <3>2. QED
      BY <1>2, <2>2, <3>1 DEF RowAuthored
  <2>3. CASE /\ p.event.kind = "created"
             /\ p.found \in Row /\ rows[p.event.id] \in Row /\ rows[p.event.id] # p.found
             /\ Projected(p) = Overlay(rows[p.event.id], Differing(p.event.row, p.found))
    <3>1. ColumnsAuthored(p.event.id, p.event.row, authored)
      BY <1>1, <2>3 DEF EventAuthored, RowAuthored
    <3>2. ColumnsAuthored(p.event.id, rows[p.event.id], authored)
      BY <1>1, <2>3, DataAssumption DEF IInv, RowsAuthored
    <3>3. /\ Projected(p).riskLevel \in {rows[p.event.id].riskLevel, p.event.row.riskLevel}
          /\ Projected(p).externalReference
                \in {rows[p.event.id].externalReference, p.event.row.externalReference}
      BY <1>1, <2>3, ColumnsType
    <3>4. ColumnsAuthored(p.event.id, Projected(p), authored)
      BY <3>1, <3>2, <3>3, MixedColumns
    <3>5. QED
      BY <1>2, <2>3, <3>4 DEF RowAuthored
  <2>4. QED
    BY <1>1, <1>2, <2>1, <2>2, <2>3, ProjectedCases
<1>6. QED
  BY <1>1, <1>2, <1>3, <1>4, <1>5, WrittenRows

\* The event of an authored write, published, leaves the events authored.
LEMMA PublishAuthored ==
    ASSUME IInv, authored \subseteq authored', overtaken => overtaken',
           NEW e \in Event, Publish(e), EventAuthored(e, authored', overtaken')
    PROVE  EventsAuthored'
<1>1. /\ \A x \in DOMAIN echoes : EventAuthored(x, authored', overtaken')
      /\ \A p \in DOMAIN projections : EventAuthored(p.event, authored', overtaken')
  BY AuthorshipGrows DEF IInv, EventsAuthored
<1>2. DOMAIN echoes' = DOMAIN echoes \union {e}
  <2>1. DOMAIN BagAdd(echoes, e) = DOMAIN echoes \union {e}
    BY BagElements
  <2>2. QED
    BY <2>1 DEF Publish
<1>3. PICK p : p = Incoming(e, FALSE)
  OBVIOUS
<1>4. p.event = e /\ p \in Projection
  BY <1>3 DEF Projection, Incoming
<1>5. DOMAIN projections' \subseteq DOMAIN projections \union {p}
  <2>1. DOMAIN BagAdd(projections, p) = DOMAIN projections \union {p}
    BY BagElements
  <2>2. projections' = projections \/ projections' = BagAdd(projections, p)
    BY <1>3 DEF Publish
  <2>3. QED
    BY <2>1, <2>2
<1>6. QED
  BY <1>1, <1>2, <1>4, <1>5 DEF EventsAuthored

\* So does handling events.
LEMMA HandledAuthored ==
    ASSUME IInv, authored \subseteq authored', overtaken => overtaken',
           DOMAIN echoes' \subseteq DOMAIN echoes,
           \A p \in DOMAIN projections' :
               \/ p.event \in DOMAIN echoes
               \/ \E q \in DOMAIN projections : p.event = q.event
    PROVE  EventsAuthored'
<1>1. /\ \A x \in DOMAIN echoes : EventAuthored(x, authored', overtaken')
      /\ \A p \in DOMAIN projections : EventAuthored(p.event, authored', overtaken')
  BY AuthorshipGrows DEF IInv, EventsAuthored
<1>2. QED
  BY <1>1 DEF EventsAuthored

\* A command keeps the rows and the events authored.
LEMMA ContinueAuthored ==
    ASSUME IInv, NEW c \in Client, Continue(c), authored \subseteq authored',
           overtaken => overtaken'
    PROVE  RowsAuthored' /\ AbsentWasRemoved' /\ EventsAuthored'
<1>0. /\ TypeOK /\ request[c] # Idle /\ Formed(request[c], authored)
      /\ request[c].command \in Command
  BY BusyRequest
     DEF Continue, LoadForUpdate, LoadForDelete, LookUp, Save, Overwrite, Reload, Find,
         Remove, Answer, Fail, At, IInv, RequestsFormed
<1>1. CASE UNCHANGED <<rows, authored, overtaken, projections, echoes>>
  BY <1>1, SameRows, HandledAuthored
<1>2. CASE Save(c) /\ ~UNCHANGED <<rows, authored, overtaken, projections, echoes>>
  <2>1. Inserted(request[c].row) \in Row
    BY <1>0, <1>2, InsertedType DEF Save, At, Formed, Op
  <2>2. PICK id \in Id :
            /\ Author(id, Inserted(request[c].row))
            /\ Publish([kind |-> "created", id |-> id, row |-> Inserted(request[c].row)])
    BY <1>2 DEF Save, delivery, history
  <2>3. PICK e : e = [kind |-> "created", id |-> id, row |-> Inserted(request[c].row)]
    OBVIOUS
  <2>4. e \in Event /\ EventAuthored(e, authored', overtaken')
    BY <2>1, <2>2, <2>3, WrittenAuthored DEF Event, EventAuthored, Author
  <2>5. EventsAuthored'
    BY <2>2, <2>3, <2>4, PublishAuthored
  <2>6. QED
    BY <2>1, <2>2, <2>5, AuthoredRows
<1>3. CASE Overwrite(c)
  <2>1. request[c].row \in Partial /\ Target(c) \in Id
    BY <1>0, <1>3, CommandType DEF Overwrite, At, Formed, Op, Target
  <2>2. EventsAuthored'
    BY <1>3, HandledAuthored DEF Overwrite, delivery
  <2>3. CASE rows[Target(c)] = Absent
    BY <1>3, <2>2, <2>3, SameRows DEF Overwrite, history
  <2>4. CASE rows[Target(c)] # Absent
    <3>1. rows[Target(c)] \in Row
      BY <1>0, <2>1, <2>4 DEF TypeOK
    <3>2. Overlay(rows[Target(c)], request[c].row) \in Row
      BY <2>1, <3>1, OverlayType, RowPartial
    <3>3. QED
      BY <1>3, <2>1, <2>2, <2>4, <3>2, AuthoredRows DEF Overwrite
  <2>5. QED
    BY <2>3, <2>4
<1>4. CASE Reload(c) /\ rows[Target(c)] # Absent
  <2>1. Target(c) \in Id
    BY <1>0, <1>4, CommandType DEF Reload, At, Formed, Op, Target
  <2>2. rows[Target(c)] \in Row /\ RowAuthored(Target(c), rows[Target(c)], authored, overtaken)
    BY <1>4, <2>1 DEF IInv, TypeOK, RowsAuthored, RowAuthored
  <2>3. PICK e : e = [kind |-> "updated", id |-> Target(c), row |-> rows[Target(c)]]
    OBVIOUS
  <2>6. UNCHANGED <<rows, authored, overtaken>>
    BY <1>4 DEF Reload, history
  <2>4. e \in Event /\ EventAuthored(e, authored', overtaken')
    BY <2>1, <2>2, <2>3, <2>6 DEF Event, EventAuthored
  <2>5. EventsAuthored'
    BY <1>4, <2>3, <2>4, PublishAuthored DEF Reload
  <2>7. QED
    BY <2>5, <2>6, SameRows
<1>5. CASE Remove(c)
  <2>1. Target(c) \in Id /\ request[c].row \in Row
    BY <1>0, <1>5, CommandType DEF Remove, At, Formed, Op, Target
  <2>2. PICK e : e = [kind |-> "deleted", id |-> Target(c), row |-> request[c].row]
    OBVIOUS
  <2>3. Author(Target(c), Absent) /\ Publish(e)
    BY <1>5, <2>2 DEF Remove
  <2>4. e \in Event /\ EventAuthored(e, authored', overtaken')
    BY <2>1, <2>2, <2>3 DEF Event, EventAuthored, Author
  <2>5. EventsAuthored'
    BY <2>3, <2>4, PublishAuthored
  <2>6. QED
    BY <2>1, <2>3, <2>5, AuthoredRows
<1>6. QED
  BY <1>1, <1>2, <1>3, <1>4, <1>5
     DEF Continue, LoadForUpdate, LoadForDelete, LookUp, Reload, Find, Answer, Fail,
         delivery, history

\* An event that is handled keeps the rows and the events authored.
LEMMA EventAuthoredStep ==
    ASSUME IInv,
           \/ \E p \in BagToSet(projections) : LoadForSave(p) \/ Apply(p) \/ ApplyFails(p)
           \/ \E e \in BagToSet(echoes) : RouteEcho(e) \/ SkipEcho(e) \/ LoseEcho(e)
    PROVE  RowsAuthored' /\ AbsentWasRemoved' /\ EventsAuthored'
<1>1. /\ \A p : DOMAIN BagRemove(projections, p) \subseteq DOMAIN projections
      /\ \A e : DOMAIN BagRemove(echoes, e) \subseteq DOMAIN echoes
  BY BagElements
<1>2. authored \subseteq authored' /\ (overtaken => overtaken')
  BY AuthoredGrows DEF Next
<1>3. ASSUME NEW p \in DOMAIN projections, Apply(p)
      PROVE  RowsAuthored' /\ AbsentWasRemoved' /\ EventsAuthored'
  <2>1. EventsAuthored'
    BY <1>1, <1>2, <1>3, HandledAuthored DEF Apply
  <2>2. QED
    BY <1>3, <2>1, ProjectedRows
<1>4. ASSUME NEW p \in DOMAIN projections, ApplyFails(p)
      PROVE  RowsAuthored' /\ AbsentWasRemoved' /\ EventsAuthored'
  BY <1>1, <1>2, <1>4, HandledAuthored, SameRows DEF ApplyFails, history
<1>5. ASSUME NEW e \in DOMAIN echoes, RouteEcho(e)
      PROVE  RowsAuthored' /\ AbsentWasRemoved' /\ EventsAuthored'
  <2>1. PICK p : p = Incoming(e, TRUE)
    OBVIOUS
  <2>2. p.event = e /\ p \in Projection
    BY <2>1 DEF Projection, Incoming, IInv, TypeOK
  <2>3. DOMAIN BagAdd(projections, p) = DOMAIN projections \union {p}
    BY BagElements
  <2>4. projections' = BagAdd(projections, p)
    BY <1>5, <2>1 DEF RouteEcho
  <2>5. EventsAuthored'
    BY <1>1, <1>2, <1>5, <2>2, <2>3, <2>4, HandledAuthored DEF RouteEcho
  <2>6. QED
    BY <1>5, <2>5, SameRows DEF RouteEcho, history
<1>6. ASSUME NEW e \in DOMAIN echoes, SkipEcho(e) \/ LoseEcho(e)
      PROVE  RowsAuthored' /\ AbsentWasRemoved' /\ EventsAuthored'
  BY <1>1, <1>2, <1>6, HandledAuthored, SameRows DEF SkipEcho, LoseEcho, history
<1>7. ASSUME NEW p \in DOMAIN projections, LoadForSave(p)
      PROVE  RowsAuthored' /\ AbsentWasRemoved' /\ EventsAuthored'
  <2>1. PICK q : q = [p EXCEPT !.found = rows[p.event.id]]
    OBVIOUS
  <2>2. q.event = p.event
    BY <2>1, ProjectionParts DEF IInv, Projection
  <2>3. projections' = BagAdd(BagRemove(projections, p), q)
    BY <1>7, <2>1 DEF LoadForSave
  <2>4. DOMAIN projections' \subseteq DOMAIN projections \union {q}
    <3>1. PICK B : B = BagRemove(projections, p)
      OBVIOUS
    <3>2. DOMAIN BagAdd(B, q) = DOMAIN B \union {q} /\ DOMAIN B \subseteq DOMAIN projections
      BY <1>1, <3>1, BagElements
    <3>3. QED
      BY <2>3, <3>1, <3>2
  <2>5. EventsAuthored'
    BY <1>2, <1>7, <2>2, <2>4, HandledAuthored DEF LoadForSave
  <2>6. QED
    BY <1>7, <2>5, SameRows DEF LoadForSave, history
<1>8. QED
  BY <1>3, <1>4, <1>5, <1>6, <1>7 DEF BagToSet

-----------------------------------------------------------------------------
(***************************************************************************)
(* The theorems.                                                           *)
(***************************************************************************)

\* The invariant holds before anything is asked.
LEMMA InitInvariant == Init => IInv
<1> SUFFICES ASSUME Init PROVE IInv
  OBVIOUS
<1>1. EmptyBag = [x \in {} |-> 1] /\ IsABag(EmptyBag) /\ DOMAIN EmptyBag = {}
  BY DEF EmptyBag, SetToBag, IsABag
<1>2. TypeOK
  <2>1. ask \in Seq(Client \X Command) /\ incidents \in Nat
    BY ScenarioAssumption DEF Init
  <2>2. QED
    BY <1>1, <2>1 DEF Init, TypeOK
<1>3. RequestsFormed /\ RowsAuthored /\ AbsentWasRemoved /\ CallsBacked /\ CachedAnswersBacked
  BY DEF Init, RequestsFormed, RowsAuthored, AbsentWasRemoved, Known, CallsBacked,
         CachedAnswersBacked
<1>4. EventsAuthored
  BY <1>1 DEF Init, EventsAuthored
<1>5. QED
  BY <1>2, <1>3, <1>4 DEF IInv

\* Every step keeps the invariant.
LEMMA NextInvariant == IInv /\ [Next]_vars => IInv'
<1> SUFFICES ASSUME IInv, [Next]_vars PROVE IInv'
  OBVIOUS
<1>1. /\ TypeOK' /\ CachedAnswersBacked'
      /\ authored \subseteq authored' /\ (overtaken => overtaken')
  BY TypeStep, AuthoredGrows, AnswersBacked DEF IInv
<1>2. CASE UNCHANGED vars
  <2>1. UNCHANGED <<rows, repositoryCache, request, projections, echoes, authored,
                    overtaken>>
    BY <1>2 DEF vars, caches, delivery, history
  <2>2. RequestsFormed' /\ CallsBacked' /\ RowsAuthored' /\ AbsentWasRemoved' /\ EventsAuthored'
    BY <1>1, <2>1, SameFormed, SameEntriesBacked, SameRows, HandledAuthored DEF IInv
  <2>3. QED
    BY <1>1, <2>2 DEF IInv
<1>3. ASSUME NEW c \in Client, NEW cmd \in Command,
             AnswerFromCache(c, cmd) \/ StartCommand(c, cmd)
      PROVE  IInv'
  <2>1. UNCHANGED <<rows, repositoryCache, projections, echoes, authored, overtaken>>
    BY <1>3 DEF AnswerFromCache, StartCommand, caches, delivery, history
  <2>2. RequestsFormed' /\ CallsBacked' /\ RowsAuthored' /\ AbsentWasRemoved' /\ EventsAuthored'
    BY <1>1, <1>3, <2>1, StartFormed, SameEntriesBacked, SameRows, HandledAuthored
  <2>3. QED
    BY <1>1, <2>2 DEF IInv
<1>4. ASSUME NEW c \in Client, Continue(c)
      PROVE  IInv'
  <2>1. RowsAuthored' /\ AbsentWasRemoved' /\ EventsAuthored'
    BY <1>1, <1>4, ContinueAuthored
  <2>2. RequestsFormed' /\ CallsBacked'
    <3>1. CASE LoadForUpdate(c) \/ LoadForDelete(c) \/ LookUp(c) \/ Find(c)
      <4>1. repositoryCache' \subseteq repositoryCache
        BY <3>1 DEF LoadForUpdate, LoadForDelete, LookUp, Find, caches
      <4>2. QED
        BY <1>1, <3>1, <4>1, ReadFormed, SameEntriesBacked
    <3>2. CASE Save(c) \/ Overwrite(c) \/ Reload(c) \/ Remove(c)
      BY <1>1, <3>2, WriteFormed
    <3>3. CASE Answer(c)
      <4>1. request' = [request EXCEPT ![c] = Idle] /\ UNCHANGED repositoryCache
        BY <3>3 DEF Answer
      <4>2. QED
        BY <1>1, <4>1, SlotFormed, SameEntriesBacked DEF IInv
    <3>4. CASE Fail(c)
      <4>1. Refuse(c) /\ UNCHANGED repositoryCache
        BY <3>4 DEF Fail, caches
      <4>2. QED
        BY <1>1, <4>1, RefuseFormed, SameEntriesBacked
    <3>5. QED
      BY <1>4, <3>1, <3>2, <3>3, <3>4 DEF Continue
  <2>3. QED
    BY <1>1, <2>1, <2>2 DEF IInv
<1>5. CASE \/ \E p \in BagToSet(projections) : LoadForSave(p) \/ Apply(p) \/ ApplyFails(p)
           \/ \E e \in BagToSet(echoes) : RouteEcho(e) \/ SkipEcho(e) \/ LoseEcho(e)
  <2>1. RowsAuthored' /\ AbsentWasRemoved' /\ EventsAuthored'
    BY <1>5, EventAuthoredStep
  <2>2. UNCHANGED <<request, repositoryCache>>
    BY <1>5 DEF LoadForSave, Apply, ApplyFails, RouteEcho, SkipEcho, LoseEcho, caches
  <2>3. RequestsFormed' /\ CallsBacked'
    BY <1>1, <2>2, SameFormed, SameEntriesBacked DEF IInv
  <2>4. QED
    BY <1>1, <2>1, <2>3 DEF IInv
<1>6. QED
  BY <1>2, <1>3, <1>4, <1>5 DEF Next

\* The inductive invariant holds in every state of the write model: requests,
\* rows, events on their way and cache entries all go back to a command's write.
THEOREM Invariance == Spec => []IInv
BY InitInvariant, NextInvariant, PTL DEF Spec

\* The state of the write model is always well typed.
THEOREM TypeCorrect == Spec => []TypeOK
<1>1. IInv => TypeOK
  BY DEF IInv
<1>2. QED
  BY <1>1, Invariance, PTL

\* Whatever requests, projections and echoes interleave, fail or get lost, each
\* row of the table is as a whole one that a command wrote for its id, unless a
\* write came between the SELECT and the UPDATE of some creation's projection;
\* and in any case each of its columns is as a command wrote it.
THEOREM RowsAreAuthored == Spec => []RowsAuthored
<1>1. IInv => RowsAuthored
  BY DEF IInv
<1>2. QED
  BY <1>1, Invariance, PTL

\* No failure is ever answered again as a success: what the service cache
\* repeats was done, but for the update of a customer that was removed.
THEOREM CacheBacked == Spec => []CachedAnswersBacked
<1>1. IInv => CachedAnswersBacked
  BY DEF IInv
<1>2. QED
  BY <1>1, Invariance, PTL

-----------------------------------------------------------------------------
(***************************************************************************)
(* The rows of commands that come one after the other.  The rows alone are *)
(* not inductive: that an event coming back changes nothing needs that no  *)
(* command is between its write and its event, nor yet to write, while     *)
(* any event is on its way.                                                *)
(***************************************************************************)

\* The table is as applying e leaves it.
Agrees(e) ==
    /\ e.kind = "created" => rows[e.id] = e.row
    /\ e.kind = "updated" => rows[e.id] \in {Absent, e.row}
    /\ e.kind = "deleted" => rows[e.id] = Absent

\* What comes back agrees with the table, and so does what it found there.
AllAgree ==
    /\ \A p \in DOMAIN projections :
          Agrees(p.event) /\ p.found \in {Unread, rows[p.event.id]}
    /\ \A e \in DOMAIN echoes : Agrees(e)

NothingComesBack == projections = EmptyBag /\ echoes = EmptyBag

\* One command at a time, and nothing on its way before it has published its event.
OneByOne ==
    \A c \in Client : request[c] # Idle =>
        /\ \A d \in Client \ {c} : request[d] = Idle
        /\ request[c].at # "answer" => NothingComesBack

Unraced == ~raced => rows = last /\ AllAgree /\ OneByOne

\* The events of a bag that agreed agree when the table is the same.
LEMMA SameAgree ==
    ASSUME AllAgree, UNCHANGED rows,
           DOMAIN projections' \subseteq DOMAIN projections,
           DOMAIN echoes' \subseteq DOMAIN echoes
    PROVE  AllAgree'
BY DEF AllAgree, Agrees

\* An event that agrees is published.
LEMMA PublishAgrees ==
    ASSUME NEW e, Publish(e), Agrees(e)', NothingComesBack
    PROVE  AllAgree'
<1>1. DOMAIN projections = {} /\ DOMAIN echoes = {}
  BY DEF NothingComesBack, EmptyBag, SetToBag
<1>2. PICK p : p = Incoming(e, FALSE)
  OBVIOUS
<1>3. DOMAIN projections' \subseteq {p}
  <2>1. DOMAIN BagAdd(projections, p) = {p}
    BY <1>1 DEF BagAdd
  <2>2. projections' = projections \/ projections' = BagAdd(projections, p)
    BY <1>2 DEF Publish
  <2>3. QED
    BY <1>1, <2>1, <2>2
<1>4. DOMAIN echoes' = {e}
  <2>1. DOMAIN BagAdd(echoes, e) = {e}
    BY <1>1 DEF BagAdd
  <2>2. QED
    BY <2>1 DEF Publish
<1>5. QED
  BY <1>2, <1>3, <1>4 DEF AllAgree, Agrees, Incoming

\* Who writes leaves the last row.
LEMMA AuthorLast ==
    ASSUME rows = last, NEW id, NEW row, Author(id, row)
    PROVE  rows' = last'
BY DEF Author

\* The only command moves on, or ends, before it has published anything: nothing is
\* on its way.
LEMMA OneGoesOn ==
    ASSUME TypeOK, OneByOne, NEW c \in Client, request[c] # Idle,
           \A d \in Client \ {c} : request'[d] = request[d],
           \/ request'[c] = Idle \/ request'[c].at = "answer"
           \/ request[c].at # "answer" /\ UNCHANGED <<projections, echoes>>
    PROVE  OneByOne'
<1>1. \A d \in Client \ {c} : request'[d] = Idle
  BY DEF OneByOne
<1>2. request[c].at # "answer" => NothingComesBack
  BY DEF OneByOne
<1>3. QED
  BY <1>1, <1>2 DEF OneByOne, NothingComesBack

\* A command that is taken while nothing else goes on is the only one; one that is
\* answered from the cache touches nothing.
LEMMA StartUnraced ==
    ASSUME TypeOK, Unraced, NEW c \in Client, NEW cmd,
           AnswerFromCache(c, cmd) \/ StartCommand(c, cmd)
    PROVE  Unraced'
<1> SUFFICES ASSUME ~raced' PROVE (rows = last /\ AllAgree /\ OneByOne)'
  BY DEF Unraced
<1>1. CASE AnswerFromCache(c, cmd)
  BY <1>1 DEF AnswerFromCache, Unraced, AllAgree, Agrees, OneByOne, NothingComesBack,
     delivery, history
<1>2. CASE StartCommand(c, cmd)
  <2>1. ~raced /\ Quiet
    BY <1>2 DEF StartCommand
  <2>2. UNCHANGED <<rows, last, projections, echoes>>
    BY <1>2 DEF StartCommand, delivery
  <2>3. (rows = last)'
    BY <2>1, <2>2 DEF Unraced
  <2>4. AllAgree'
    BY <2>1, <2>2, SameAgree DEF Unraced
  <2>5. \A d \in Client \ {c} : request'[d] = Idle
    BY <1>2, <2>1 DEF StartCommand, Quiet, TypeOK
  <2>6. OneByOne'
    BY <2>1, <2>2, <2>5 DEF OneByOne, Quiet, NothingComesBack
  <2>7. QED
    BY <2>3, <2>4, <2>6
<1>3. QED
  BY <1>1, <1>2

\* A step of the command that neither writes nor publishes.
LEMMA ReadUnraced ==
    ASSUME TypeOK, Unraced, NEW c \in Client,
           \/ LoadForUpdate(c) \/ LoadForDelete(c) \/ LookUp(c) \/ Find(c)
           \/ Answer(c) \/ Fail(c)
    PROVE  Unraced'
<1>1. UNCHANGED <<rows, last, raced, projections, echoes>>
  BY DEF LoadForUpdate, LoadForDelete, LookUp, Find, Answer, Fail, delivery, history
<1>2. request[c] # Idle
  BY DEF LoadForUpdate, LoadForDelete, LookUp, Find, Answer, Fail, At
<1>3. \A d \in Client \ {c} : request'[d] = request[d]
  BY DEF LoadForUpdate, LoadForDelete, LookUp, Find, Answer, Fail, Refuse, TypeOK
<1>4. request'[c] = Idle \/ request[c].at # "answer"
  BY DEF LoadForUpdate, LoadForDelete, LookUp, Find, Answer, Fail, At, TypeOK
<1>5. OneByOne => OneByOne'
  BY <1>1, <1>2, <1>3, <1>4, OneGoesOn
<1>6. AllAgree => AllAgree'
  BY <1>1, SameAgree
<1>7. QED
  BY <1>1, <1>5, <1>6 DEF Unraced

\* A write that is published at once, or an update that reads what it publishes.
LEMMA WriteUnraced ==
    ASSUME TypeOK, RequestsFormed, Unraced, NEW c \in Client,
           Save(c) \/ Overwrite(c) \/ Reload(c) \/ Remove(c)
    PROVE  Unraced'
<1> SUFFICES ASSUME ~raced' PROVE (rows = last /\ AllAgree /\ OneByOne)'
  BY DEF Unraced
<1>1. request[c] # Idle /\ request[c].command \in Command /\ request[c].at # "answer"
  <2>1. request[c] # Idle /\ request[c].at # "answer"
    BY DEF Save, Overwrite, Reload, Remove, At
  <2>2. QED
    BY <2>1, BusyRequest
<1>2. ~raced
  BY DEF Save, Overwrite, Reload, Remove, Author, history
<1>3. rows = last /\ AllAgree /\ OneByOne /\ NothingComesBack
  BY <1>1, <1>2 DEF Unraced, OneByOne
<1>4. Op(c) # "create" => Target(c) \in Id
  BY <1>1, CommandType DEF Op, Target
<1>5. \A d \in Client \ {c} : request'[d] = request[d]
  BY DEF Save, Overwrite, Reload, Remove, Refuse, TypeOK
<1>6. CASE Save(c)
  <2>1. CASE \E id \in Id :
             /\ Author(id, Inserted(request[c].row))
             /\ Publish([kind |-> "created", id |-> id, row |-> Inserted(request[c].row)])
             /\ request' = [request EXCEPT ![c].at = "answer", ![c].wrote = TRUE]
    <3>1. PICK id, row, e :
             /\ id \in Id
             /\ row = Inserted(request[c].row)
             /\ e = [kind |-> "created", id |-> id, row |-> row]
             /\ Author(id, row)
             /\ Publish(e)
             /\ request' = [request EXCEPT ![c].at = "answer", ![c].wrote = TRUE]
      BY <2>1
    <3>2. rows'[id] = row
      BY <3>1 DEF Author, TypeOK
    <3>3. Agrees(e)'
      BY <3>1, <3>2 DEF Agrees
    <3>4. AllAgree' /\ rows' = last'
      BY <1>3, <3>1, <3>3, PublishAgrees, AuthorLast
    <3>5. request'[c].at = "answer"
      BY <1>1, <3>1, BusyRequest DEF TypeOK, Request
    <3>6. OneByOne'
      BY <1>1, <1>3, <1>5, <3>5, OneGoesOn
    <3>7. QED
      BY <3>4, <3>6
  <2>2. CASE Refuse(c) /\ UNCHANGED <<rows, delivery, history>>
    <3>1. request'[c] = Idle
      BY <2>2 DEF Refuse, TypeOK
    <3>2. QED
      BY <1>1, <1>3, <1>5, <2>2, <3>1, SameAgree, OneGoesOn DEF delivery, history
  <2>3. QED
    BY <1>6, <2>1, <2>2 DEF Save
<1>7. CASE Overwrite(c)
  <2>1. UNCHANGED <<projections, echoes>>
    BY <1>7 DEF Overwrite, delivery
  <2>2. AllAgree'
    BY <1>3, <2>1 DEF AllAgree, NothingComesBack, EmptyBag, SetToBag
  <2>3. rows' = last'
    BY <1>3, <1>7, AuthorLast DEF Overwrite, history
  <2>4. QED
    BY <1>1, <1>3, <1>5, <2>1, <2>2, <2>3, OneGoesOn
<1>8. CASE Reload(c)
  <2>1. UNCHANGED <<rows, last>>
    BY <1>8 DEF Reload, history
  <2>2. CASE rows[Target(c)] = Absent
    <3>1. request'[c] = Idle
      BY <1>8, <2>2 DEF Reload, Refuse, TypeOK
    <3>2. UNCHANGED <<projections, echoes>>
      BY <1>8, <2>2 DEF Reload, delivery
    <3>3. QED
      BY <1>1, <1>3, <1>5, <2>1, <3>1, <3>2, SameAgree, OneGoesOn
  <2>3. CASE rows[Target(c)] # Absent
    <3>1. PICK id, e :
             /\ id = Target(c)
             /\ e = [kind |-> "updated", id |-> id, row |-> rows[id]]
             /\ Publish(e)
             /\ request' = [request EXCEPT ![c].at = "answer"]
      BY <1>8, <2>3 DEF Reload
    <3>2. Agrees(e)'
      BY <2>1, <3>1 DEF Agrees
    <3>3. AllAgree' /\ rows' = last'
      BY <1>3, <2>1, <3>1, <3>2, PublishAgrees
    <3>4. request'[c].at = "answer"
      BY <1>1, <3>1, BusyRequest DEF TypeOK, Request
    <3>5. OneByOne'
      BY <1>1, <1>3, <1>5, <3>4, OneGoesOn
    <3>6. QED
      BY <3>3, <3>5
  <2>4. QED
    BY <2>2, <2>3
<1>9. CASE Remove(c)
  <2>1. PICK id, e :
            /\ id \in Id
            /\ e = [kind |-> "deleted", id |-> id, row |-> request[c].row]
            /\ Author(id, Absent)
            /\ Publish(e)
            /\ request' = [request EXCEPT ![c].at = "answer", ![c].wrote = TRUE]
    BY <1>4, <1>9 DEF Remove
  <2>2. rows'[id] = Absent
    BY <2>1 DEF Author, TypeOK
  <2>3. Agrees(e)'
    BY <2>1, <2>2 DEF Agrees
  <2>4. AllAgree' /\ rows' = last'
    BY <1>3, <2>1, <2>3, PublishAgrees, AuthorLast
  <2>5. request'[c].at = "answer"
    BY <1>1, <2>1, BusyRequest DEF TypeOK, Request
  <2>6. OneByOne'
    BY <1>1, <1>3, <1>5, <2>5, OneGoesOn
  <2>7. QED
    BY <2>4, <2>6
<1>10. QED
  BY <1>6, <1>7, <1>8, <1>9

\* An event that agrees with the table changes nothing when it comes back, and the
\* request that is under way, if any, has published it.
LEMMA EventUnraced ==
    ASSUME TypeOK, Unraced,
           \/ \E p \in BagToSet(projections) : LoadForSave(p) \/ Apply(p) \/ ApplyFails(p)
           \/ \E e \in BagToSet(echoes) : RouteEcho(e) \/ SkipEcho(e) \/ LoseEcho(e)
    PROVE  Unraced'
<1> SUFFICES ASSUME ~raced' PROVE (rows = last /\ AllAgree /\ OneByOne)'
  BY DEF Unraced
<1>1. UNCHANGED <<raced, last, request>>
  BY DEF LoadForSave, Apply, ApplyFails, RouteEcho, SkipEcho, LoseEcho, history
<1>2. rows = last /\ AllAgree /\ OneByOne
  BY <1>1 DEF Unraced
<1>3. ~NothingComesBack
  BY DEF NothingComesBack, EmptyBag, SetToBag, BagToSet
<1>4. OneByOne'
  BY <1>1, <1>2, <1>3 DEF OneByOne
<1>5. ASSUME NEW p \in BagToSet(projections), Apply(p) PROVE UNCHANGED rows
  <2>1. /\ p \in DOMAIN projections
        /\ Agrees(p.event) /\ p.found \in {Unread, rows[p.event.id]}
        /\ AtWrite(p) /\ ~InsertRefused(p)
        /\ rows' = [rows EXCEPT ![p.event.id] = Projected(p)]
    BY <1>2, <1>5 DEF AllAgree, BagToSet, Apply
  <2>2. p.event.id \in Id /\ p.event.row \in Row /\ p.event.row # Absent
    BY <2>1, ProjectionParts, DataAssumption
  <2>3. CASE p.event.kind = "deleted"
    BY <2>1, <2>2, <2>3 DEF Projected, Inserts, Agrees, TypeOK
  <2>4. CASE p.event.kind = "updated"
    <3>1. Projected(p) \in {Absent, p.event.row}
      BY <2>1, <2>4, ProjectedCases
    <3>2. Projected(p) = rows[p.event.id]
      BY <2>1, <2>2, <2>4, <3>1, WholeRow DEF Agrees, Projected, Inserts, ColumnsSet
    <3>3. QED
      BY <2>1, <2>2, <3>2 DEF TypeOK
  <2>5. CASE p.event.kind = "created"
    <3>1. p.found = rows[p.event.id] /\ rows[p.event.id] = p.event.row
      BY <2>1, <2>5 DEF AtWrite, Agrees
    <3>2. Projected(p) = p.event.row
      BY <2>1, <2>2, <2>5, <3>1, ProjectedCases
    <3>3. QED
      BY <2>1, <2>2, <3>1, <3>2 DEF TypeOK
  <2>6. QED
    BY <2>1, <2>3, <2>4, <2>5, ProjectionParts
<1>6. UNCHANGED rows
  BY <1>5 DEF LoadForSave, ApplyFails, RouteEcho, SkipEcho, LoseEcho
<1>7. AllAgree'
  <2>1. CASE \E p \in BagToSet(projections) : Apply(p) \/ ApplyFails(p)
    BY <1>2, <1>6, <2>1, BagElements, SameAgree DEF Apply, ApplyFails
  <2>2. CASE \E e \in BagToSet(echoes) : SkipEcho(e) \/ LoseEcho(e)
    BY <1>2, <1>6, <2>2, BagElements, SameAgree DEF SkipEcho, LoseEcho
  <2>3. ASSUME NEW e \in BagToSet(echoes), RouteEcho(e) PROVE AllAgree'
    <3>1. Agrees(e)'
      BY <1>2, <1>6 DEF AllAgree, Agrees, BagToSet
    <3>2. /\ DOMAIN projections' = DOMAIN projections \union {Incoming(e, TRUE)}
          /\ DOMAIN echoes' \subseteq DOMAIN echoes
      BY <2>3, BagElements DEF RouteEcho
    <3>3. QED
      BY <1>2, <1>6, <3>1, <3>2 DEF AllAgree, Agrees, Incoming
  <2>4. ASSUME NEW p \in BagToSet(projections), LoadForSave(p) PROVE AllAgree'
    <3>1. PICK q : q = [p EXCEPT !.found = rows[p.event.id]]
      OBVIOUS
    <3>2. p \in DOMAIN projections /\ q.event = p.event /\ q.found = rows[p.event.id]
      BY <3>1, ProjectionParts DEF BagToSet, Projection
    <3>3. projections' = BagAdd(BagRemove(projections, p), q) /\ UNCHANGED echoes
      BY <2>4, <3>1 DEF LoadForSave
    <3>4. DOMAIN projections' \subseteq DOMAIN projections \union {q}
      <4>1. PICK B : B = BagRemove(projections, p)
        OBVIOUS
      <4>2. DOMAIN BagAdd(B, q) = DOMAIN B \union {q} /\ DOMAIN B \subseteq DOMAIN projections
        BY <4>1, BagElements
      <4>3. QED
        BY <3>3, <4>1, <4>2
    <3>5. QED
      BY <1>2, <1>6, <3>2, <3>3, <3>4 DEF AllAgree, Agrees
  <2>5. QED
    BY <2>1, <2>2, <2>3, <2>4
<1>8. QED
  BY <1>1, <1>2, <1>4, <1>6, <1>7

LEMMA UnracedStep == IInv /\ Unraced /\ [Next]_vars => Unraced'
<1> SUFFICES ASSUME IInv, Unraced, [Next]_vars PROVE Unraced'
  OBVIOUS
<1>1. TypeOK /\ RequestsFormed
  BY DEF IInv
<1>2. ASSUME NEW c \in Client, NEW cmd \in Command,
             AnswerFromCache(c, cmd) \/ StartCommand(c, cmd)
      PROVE  Unraced'
  BY <1>1, <1>2, StartUnraced
<1>3. ASSUME NEW c \in Client, Continue(c) PROVE Unraced'
  BY <1>1, <1>3, ReadUnraced, WriteUnraced DEF Continue
<1>4. CASE \/ \E p \in BagToSet(projections) : LoadForSave(p) \/ Apply(p) \/ ApplyFails(p)
           \/ \E e \in BagToSet(echoes) : RouteEcho(e) \/ SkipEcho(e) \/ LoseEcho(e)
  BY <1>1, <1>4, EventUnraced
<1>5. CASE UNCHANGED vars
  BY <1>5 DEF vars, delivery, history, Unraced, AllAgree, Agrees, OneByOne,
     NothingComesBack
<1>6. QED
  BY <1>2, <1>3, <1>4, <1>5 DEF Next

\* As long as no command starts before the requests, projections and echoes of the
\* ones before are over, the table holds what the last command wrote: whatever comes
\* back of it, once or twice, changes nothing.
THEOREM UnracedRowsLast == Spec => []UnracedRowsAreLast
<1>1. Init => Unraced
  BY DEF Init, Unraced, AllAgree, OneByOne, EmptyBag, SetToBag
<1>2. Unraced => UnracedRowsAreLast
  BY DEF Unraced, UnracedRowsAreLast
<1>3. QED
  BY <1>1, <1>2, UnracedStep, Invariance, PTL DEF Spec

=============================================================================
