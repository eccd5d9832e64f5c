---------------------------- MODULE MCServiceParts ----------------------------
(* Instances of ServiceParts for TLC: two ids and two commands, tables of   *)
(* two and three rows for one reader, one request on two users, two traces, *)
(* two topics of which one is consumed.                                     *)
EXTENDS ServiceParts, TLC

CONSTANTS a, b, c, x, y, firstCommand, secondCommand, reader, one, other,
          eventTopic, deadLetterTopic

Ids == {a, b}
Values == {x, y}
Commands2 == {firstCommand, secondCommand}

Of(id, value) == [id |-> id, value |-> value]
Just(id) == Of(id, NotGiven)
Do(what, list) == [op |-> what, items |-> list]

Empty == [id \in Ids |-> Absent]
Holding(va, vb) == [id \in Ids |-> IF id = a THEN va ELSE vb]

Scene(table, early, late, budget) ==
    [rows |-> table, incidents |-> budget,
     ask |-> [k \in Commands2 |-> IF k = firstCommand THEN early ELSE late]]

none == [op |-> "none", items |-> <<>>]
create(what) == Do("create", <<what>>)
update(what) == Do("update", <<what>>)
delete(id) == Do("delete", <<Just(id)>>)
createBoth(va, vb) == Do("bulkCreate", <<Of(a, va), Of(b, vb)>>)
updateBoth(va, vb) == Do("bulkUpdate", <<Of(a, va), Of(b, vb)>>)
deleteBoth == Do("bulkDelete", <<Just(a), Just(b)>>)

\* What every module does; va and vb are two values of its column.
Common(va, vb, budget) ==
    {Scene(Empty, none, none, 0),
     Scene(Empty, create(Of(a, va)), update(Of(a, vb)), 1),
     Scene(Holding(va, Absent), update(Of(a, vb)), delete(a), budget),
     Scene(Holding(va, Absent), updateBoth(vb, va), none, budget),
     Scene(Holding(va, vb), deleteBoth, create(Of(a, va)), budget),
     Scene(Holding(va, Absent), createBoth(va, vb), none, budget)}

MCScenarios ==
    [customer |->
        Common(x, y, 1) \union
        {Scene(Holding(y, Absent), create(Just(a)), createBoth(x, x), 0),
         Scene(Empty, Do("bulkCreate", <<Of(a, x), Just(b)>>), none, 0),
         Scene(Holding(x, Absent), Do("bulkUpdate", <<Of(a, y), Of(a, x)>>), none, 0)},
     onboarding |->
        Common(NotStarted, InProgress, 0) \union
        {Scene(Holding(InProgress, Absent), update(Of(a, s)), update(Of(b, s)), 0) :
            s \in {Approved, Rejected, Expired}},
     status |->
        Common(x, y, 0) \union
        {Scene(Holding(x, y), updateBoth(x, x), create(Just(b)), 0)},
     synclog |->
        Common(x, y, 0) \union
        {Scene(Holding(x, y), updateBoth(y, x), none, 0)}]

Row(id, value) == [id |-> id, value |-> value]

MCHeap ==
    [m \in {"customer", "onboarding", "status", "synclog"} |->
        IF m = "customer" THEN {Row(a, x), Row(b, y), Row(c, x)}
        ELSE {Row(a, x), Row(b, x)}]

RowIds == {a, b, c}
Readers == {reader}
Sizes == {1, 2}
Pair == {one, other}
One == {one}
Questions ==
    [r \in One |-> [op |-> "earnings", root |-> one]]
Present == {one}
Trees == {<<one, other>>}
AuthSettings == {"login", "anonymous"}
Lifetimes == {1, 3}
Modes == {"EVENT", "REST"}
Topics == {eventTopic, deadLetterTopic}
Consumed == {eventTopic}

=============================================================================
