----------------------------- MODULE EntityQueries -----------------------------
(***************************************************************************)
(* What the four entity modules share on the read side: the queries, from  *)
(* the controller, the resolver or a query handler through the query       *)
(* service to the query repository, while the rows change under them.      *)
(* CustomerQueries and its like instantiate it and name their own methods. *)
(*                                                                         *)
(* The repositories ask for no order (findWithPagination is not given the  *)
(* sort of its arguments), so which rows a page or a findOne has is open,  *)
(* and may differ from one SELECT to the next.                             *)
(* pages and steady are history variables.                                 *)
(***************************************************************************)
EXTENDS Integers, FiniteSets

CONSTANTS
    Id,             \* ids of the entity
    Value,          \* values of the column that queries select by
    Reader,         \* clients that send one query after the other
    Size,           \* sizes of a page
    NoCondition,    \* a query that selects by nothing
    InitialHeap     \* the rows when the model starts

\* Bounds of the model.
CONSTANTS
    MaxWrites       \* writes to the table

\* What the constants have to be.
WellPosed ==
    /\ Size \subseteq Nat \ {0} /\ Size # {}
    /\ NoCondition \notin Id \union Value
    /\ InitialHeap \subseteq [id : Id, value : Value] /\ IsFiniteSet(InitialHeap)
    /\ \A one, other \in InitialHeap : one.id = other.id => one = other
    /\ MaxWrites \in Nat

Row == [id : Id, value : Value]

\* The methods of the query service.
One == {"findById", "findOne", "findOneOrFail"}
Counted == {"findByField", "findAndCount"}
Op == One \union Counted \union {"findAll", "findWithPagination", "count"}

\* by: the id or the value a query selects by; page and size of a page query.
Query ==
    [op : Op, by : Id \union Value \union {NoCondition}, page : Nat, size : Size]

VARIABLES
    heap,           \* the rows of the table
    query,          \* query[r]: what reader r asked last
    phase,          \* phase[r]: how far that is
    data,           \* data[r]: the rows of the answer
    total,          \* total[r]: the count of the answer
    pages,          \* pages[r]: how many rows the pages had that r has turned
    steady,         \* steady[r]: no write since r turned to page 1, or asked
    writes          \* so far

reading == <<query, phase, data, total, pages, steady>>
vars == <<heap, reading, writes>>

Phase == {"idle", "select", "count", "answer", "ok", "notFound", "returned", "error"}
Settled == {"idle", "ok", "notFound", "returned", "error"}

TypeOK ==
    /\ heap \subseteq Row /\ IsFiniteSet(heap) /\ writes \in 0 .. MaxWrites
    /\ \A one, other \in heap : one.id = other.id => one = other
    /\ query \in [Reader -> Query]
    /\ phase \in [Reader -> Phase]
    /\ data \in [Reader -> SUBSET Row] /\ total \in [Reader -> Nat]
    /\ pages \in [Reader -> Nat] /\ steady \in [Reader -> BOOLEAN]

Init ==
    /\ heap = InitialHeap /\ writes = 0
    /\ query = [r \in Reader |-> [op |-> "count", by |-> NoCondition, page |-> 1,
                                 size |-> CHOOSE s \in Size : TRUE]]
    /\ phase = [r \in Reader |-> "idle"]
    /\ data = [r \in Reader |-> {}] /\ total = [r \in Reader |-> 0]
    /\ pages = [r \in Reader |-> 0] /\ steady = [r \in Reader |-> TRUE]

-----------------------------------------------------------------------------
(* The table.  The commands write it, and the repository of the facade     *)
(* service does, which announces nothing.                                  *)

Present == {row.id : row \in heap}

Others(id) == {row \in heap : row.id # id}

Write(rest) ==
    /\ writes < MaxWrites
    /\ writes' = writes + 1
    /\ heap' = rest
    /\ steady' = [r \in Reader |-> FALSE]
    /\ UNCHANGED <<query, phase, data, total, pages>>

Save(id, value) == Write(Others(id) \union {[id |-> id, value |-> value]})

Delete(id) == id \in Present /\ Write(Others(id))

-----------------------------------------------------------------------------
(* Queries.                                                                *)

\* The controller or the resolver hands the query on.  A walk turns to page 1,
\* and then to one page after the other.
Ask(r, q) ==
    /\ phase[r] \in Settled
    /\ query' = [query EXCEPT ![r] = q]
    /\ phase' = [phase EXCEPT ![r] = "select"]
    /\ pages' = [pages EXCEPT ![r] = IF q.page = 1 THEN 0 ELSE @]
    /\ steady' = [steady EXCEPT ![r] = @ \/ (q.page = 1)]
    /\ data' = [data EXCEPT ![r] = {}] /\ total' = [total EXCEPT ![r] = 0]
    /\ UNCHANGED <<heap, writes>>

\* What a query may select by.
Conditions(op) ==
    CASE op = "findById" -> Id
      [] op = "findByField" -> Value
      [] op = "findAndCount" -> Value \union {NoCondition}
      [] op \in {"findOne", "findOneOrFail"} -> Id \union Value \union {NoCondition}
      [] OTHER -> {NoCondition}

\* The query op, by one of the conditions.
AskFor(r, op, conditions) ==
    \E by \in conditions \intersect Conditions(op) :
        Ask(r, [op |-> op, by |-> by, page |-> 1, size |-> CHOOSE s \in Size : TRUE])

AskAny(r, op) == AskFor(r, op, Conditions(op))

PageQuery(page, size) ==
    [op |-> "findWithPagination", by |-> NoCondition, page |-> page, size |-> size]

\* Page 1, or the page after the last one.
Turn(r, size) ==
    LET last == query[r] IN
    \/ Ask(r, PageQuery(1, size))
    \/ /\ phase[r] = "ok" /\ last.op = "findWithPagination" /\ last.size = size
       /\ data[r] # {}
       /\ Ask(r, PageQuery(last.page + 1, size))

\* Page 0, with which PaginationArgs starts to count.
TurnToZero(r, size) == Ask(r, PageQuery(0, size))

Matches(q) == {row \in heap : q.by = NoCondition \/ q.by \in {row.id, row.value}}

\* Mutation: pages are taken for numbered from 0.
WindowFromZero(q) ==
    LET left == Cardinality(heap) - q.page * q.size
        length == IF left =< 0 THEN 0 ELSE IF left < q.size THEN left ELSE q.size IN
    {rows \in SUBSET heap : Cardinality(rows) = length}

\* skip and take: any rows, as many as are left behind those that are skipped.
Window(q) ==
    LET left == Cardinality(heap) - (q.page - 1) * q.size
        length == IF left =< 0 THEN 0 ELSE IF left < q.size THEN left ELSE q.size IN
    {rows \in SUBSET heap : Cardinality(rows) = length}

\* findOne takes any of the rows, and finds nothing when it is given no condition.
First(q) ==
    IF q.by = NoCondition \/ Matches(q) = {} THEN {{}} ELSE {{row} : row \in Matches(q)}

\* What the SELECT of a query may give.
Results(q) ==
    CASE q.op \in One -> First(q)
      [] q.op = "findWithPagination" -> Window(q)
      [] OTHER -> {Matches(q)}

\* The SELECT of the repository; findAndCount may need another one to count.
\* For page 0 it would skip less than nothing, which the database refuses: Fail.
Select(r) ==
    /\ phase[r] = "select" /\ query[r].op # "count" /\ query[r].page # 0
    /\ \E rows \in Results(query[r]) :
          /\ data' = [data EXCEPT ![r] = rows]
          /\ total' = [total EXCEPT ![r] = Cardinality(rows)]
    /\ \/ phase' = [phase EXCEPT ![r] = "answer"]
       \/ query[r].op \in Counted /\ phase' = [phase EXCEPT ![r] = "count"]
    /\ UNCHANGED <<heap, query, pages, steady, writes>>

AtCount(r) == phase[r] = "count" \/ (phase[r] = "select" /\ query[r].op = "count")

\* Mutation: the count has no condition.
CountTheTable(r) ==
    /\ AtCount(r)
    /\ total' = [total EXCEPT ![r] = Cardinality(heap)]
    /\ phase' = [phase EXCEPT ![r] = "answer"]
    /\ UNCHANGED <<heap, query, data, pages, steady, writes>>

Count(r) ==
    /\ AtCount(r)
    /\ total' = [total EXCEPT ![r] = Cardinality(Matches(query[r]))]
    /\ phase' = [phase EXCEPT ![r] = "answer"]
    /\ UNCHANGED <<heap, query, data, pages, steady, writes>>

\* The service: nothing found is an error for findById and findOne, and an error
\* that is returned like an entity for findOneOrFail.
Answer(r) ==
    /\ phase[r] = "answer"
    /\ phase' = [phase EXCEPT ![r] =
           CASE query[r].op \notin One \/ data[r] # {} -> "ok"
             [] query[r].op = "findOneOrFail" /\ data[r] = {} -> "returned"
             [] OTHER -> "notFound"]
    /\ pages' = [pages EXCEPT ![r] =
           IF query[r].op = "findWithPagination" THEN @ + total[r] ELSE @]
    /\ UNCHANGED <<heap, query, data, total, steady, writes>>

\* A statement fails: service and controller throw the error on.
Fail(r) ==
    /\ phase[r] \in {"select", "count"}
    /\ phase' = [phase EXCEPT ![r] = "error"]
    /\ UNCHANGED <<heap, query, data, total, pages, steady, writes>>

-----------------------------------------------------------------------------

ReadStep(r) == Select(r) \/ Count(r) \/ Answer(r) \/ Fail(r)

Next ==
    \/ \E r \in Reader :
          \/ \E op \in Op \ {"findWithPagination"} : AskAny(r, op)
          \/ \E size \in Size : Turn(r, size) \/ TurnToZero(r, size)
          \/ ReadStep(r)
    \/ \E id \in Id : Delete(id) \/ \E value \in Value : Save(id, value)

Spec == Init /\ [][Next]_vars

-----------------------------------------------------------------------------
(* Properties.                                                             *)

\* Helper.getPaginator.
LastPage(length, size) == IF length = 0 THEN 1 ELSE (length + size - 1) \div size

\* Who turns the pages from 1 up to the last one that the paginator names, while
\* nobody writes, is given as many rows as there are: no page is left out, and none
\* is short but the last.  Which rows they are is open: without an order one may
\* come twice and another not at all.
PagesAddUp ==
    \A r \in Reader :
        /\ phase[r] = "ok" /\ query[r].op = "findWithPagination" /\ steady[r]
        /\ query[r].page = LastPage(Cardinality(heap), query[r].size)
        => pages[r] = Cardinality(heap)

\* The count that comes with the rows of a search is theirs, unless somebody
\* writes meanwhile.
CountAgrees ==
    \A r \in Reader :
        phase[r] = "ok" /\ query[r].op \in Counted /\ steady[r] =>
            total[r] = Cardinality(data[r])

=============================================================================
