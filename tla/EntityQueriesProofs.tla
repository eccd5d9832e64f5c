------------------------- MODULE EntityQueriesProofs -------------------------
(***************************************************************************)
(* Proofs about EntityQueries, and so about the queries of each of the     *)
(* four entity modules: its state is well typed, a count agrees with the   *)
(* rows it comes with, and the pages have as many rows as the table.       *)
(***************************************************************************)
EXTENDS EntityQueries, FiniteSetTheorems, TLAPS

\* How many rows there are, and how many are in front of the page that reader r
\* asked for last.
HeapSize == Cardinality(heap)
Skip(r) == (query[r].page - 1) * query[r].size

\* Reader r was given as many rows as the first n are.
HasSeen(r, n) == pages[r] = IF n < HeapSize THEN n ELSE HeapSize

\* While nobody writes, a reader who walks through the pages was given the rows in
\* front of the page, and those of the page too once it is answered.
OnTheWalk(r) ==
    query[r].op = "findWithPagination" /\ steady[r] /\ query[r].page # 0 =>
        /\ phase[r] \in {"select", "answer"} => HasSeen(r, Skip(r))
        /\ phase[r] = "answer" =>
              data[r] \in Window(query[r]) /\ total[r] = Cardinality(data[r])
        /\ phase[r] = "ok" => HasSeen(r, Skip(r) + query[r].size)

\* Page 0 is never answered.
NoPageZero(r) == query[r].page = 0 => phase[r] \in {"select", "error"}

\* While nobody writes, the rows of a search are still the ones that are counted.
Counting(r) ==
    /\ phase[r] = "count" => query[r].op \in Counted
    /\ query[r].page = 0 => query[r].op = "findWithPagination"
    /\ query[r].op \in Counted /\ steady[r] =>
          /\ phase[r] = "count" => data[r] = Matches(query[r])
          /\ phase[r] \in {"answer", "ok"} => total[r] = Cardinality(data[r])

\* The inductive invariant.
IInv ==
    /\ TypeOK
    /\ \A r \in Reader : Counting(r) /\ NoPageZero(r)
    /\ \A r \in Reader : OnTheWalk(r)

-----------------------------------------------------------------------------
(* What a SELECT gives.                                                    *)

\* What a query selects are rows of the table, finitely many.
LEMMA RowsSelected ==
    ASSUME TypeOK, NEW q
    PROVE  /\ Matches(q) \in SUBSET heap /\ Cardinality(Matches(q)) \in Nat
           /\ \A rows \in Results(q) : rows \in SUBSET Row /\ Cardinality(rows) \in Nat
<1>1. Matches(q) \in SUBSET heap
  BY DEF Matches
<1>2. \A rows \in Results(q) : rows \in SUBSET heap
  BY <1>1 DEF Results, First, Window
<1>3. ASSUME NEW rows \in SUBSET heap PROVE rows \in SUBSET Row /\ Cardinality(rows) \in Nat
  <2>1. IsFiniteSet(rows)
    BY FS_Subset DEF TypeOK
  <2>2. QED
    BY <2>1, FS_CardinalityType DEF TypeOK
<1>4. QED
  BY <1>1, <1>2, <1>3

-----------------------------------------------------------------------------
(* Types.                                                                  *)

\* The reader starts again with what it asks.
LEMMA AskType ==
    ASSUME TypeOK, NEW r \in Reader, NEW q \in Query, Ask(r, q)
    PROVE  TypeOK'
<1>1. /\ query' \in [Reader -> Query] /\ phase' \in [Reader -> Phase]
      /\ steady' \in [Reader -> BOOLEAN]
  BY DEF Ask, TypeOK, Phase
<1>2. pages' \in [Reader -> Nat] /\ data' \in [Reader -> SUBSET Row]
  BY DEF Ask, TypeOK
<1>3. total' \in [Reader -> Nat]
  BY DEF Ask, TypeOK
<1>4. QED
  BY <1>1, <1>2, <1>3 DEF Ask, TypeOK

\* There is a size for a page.
LEMMA ASize == ASSUME WellPosed PROVE (CHOOSE s \in Size : TRUE) \in Size
BY DEF WellPosed

\* What the clients ask is a query.
LEMMA AskForType ==
    ASSUME WellPosed, TypeOK, NEW r \in Reader, NEW op \in Op, NEW conditions,
           AskFor(r, op, conditions)
    PROVE  TypeOK' /\ \E q \in Query : Ask(r, q) /\ q.page = 1
<1>1. PICK by \in conditions \intersect Conditions(op) :
          Ask(r, [op |-> op, by |-> by, page |-> 1, size |-> CHOOSE s \in Size : TRUE])
  BY DEF AskFor
<1>2. by \in Id \union Value \union {NoCondition}
  BY DEF Conditions
<1> DEFINE q == [op |-> op, by |-> by, page |-> 1, size |-> CHOOSE s \in Size : TRUE]
<1>3. q \in Query /\ q.page = 1
  BY <1>2, ASize DEF Query
<1> HIDE DEF q
<1>4. Ask(r, q)
  BY <1>1 DEF q
<1>5. QED
  BY <1>3, <1>4, AskType

\* Page 0, page 1, or the next one of a walk.
LEMMA TurnType ==
    ASSUME WellPosed, TypeOK, NEW r \in Reader, NEW size \in Size,
           Turn(r, size) \/ TurnToZero(r, size)
    PROVE  /\ TypeOK'
           /\ \E q \in Query :
                 /\ Ask(r, q)
                 /\ \/ q.page = 1
                    \/ q.page = 0 /\ q.op = "findWithPagination"
                    \/ /\ phase[r] = "ok" /\ query[r].op = "findWithPagination"
                       /\ q.page = query[r].page + 1 /\ q.size = query[r].size
<1>1. query[r].page \in Nat
  BY DEF TypeOK, Query
<1>2. ASSUME NEW page \in Nat
      PROVE  /\ PageQuery(page, size) \in Query /\ PageQuery(page, size).page = page
             /\ PageQuery(page, size).size = size
             /\ PageQuery(page, size).op = "findWithPagination"
  BY DEF PageQuery, Query, Op
<1>3. PICK page \in Nat :
         /\ Ask(r, PageQuery(page, size))
         /\ \/ page = 1
            \/ page = 0
            \/ /\ phase[r] = "ok" /\ query[r].op = "findWithPagination"
               /\ page = query[r].page + 1 /\ size = query[r].size
  BY <1>1 DEF Turn, TurnToZero
<1>4. QED
  BY <1>2, <1>3, AskType

\* Every step leaves the state well typed.
LEMMA TypeStep ==
    ASSUME WellPosed, TypeOK, [Next]_vars
    PROVE  TypeOK'
<1>1. ASSUME NEW r \in Reader, NEW op \in Op \ {"findWithPagination"}, AskAny(r, op)
      PROVE  TypeOK'
  BY <1>1, AskForType DEF AskAny
<1>2. ASSUME NEW r \in Reader, NEW size \in Size, Turn(r, size) \/ TurnToZero(r, size)
      PROVE  TypeOK'
  BY <1>2, TurnType
<1>3. ASSUME NEW r \in Reader, Select(r) PROVE TypeOK'
  <2>1. PICK rows \in Results(query[r]) :
           /\ data' = [data EXCEPT ![r] = rows]
           /\ total' = [total EXCEPT ![r] = Cardinality(rows)]
    BY <1>3 DEF Select
  <2>2. phase' \in [Reader -> Phase]
    BY <1>3 DEF Select, TypeOK, Phase
  <2>3. rows \in SUBSET Row /\ Cardinality(rows) \in Nat
    BY RowsSelected
  <2>4. data' \in [Reader -> SUBSET Row] /\ total' \in [Reader -> Nat]
    BY <2>1, <2>3 DEF TypeOK
  <2>5. QED
    BY <1>3, <2>2, <2>4 DEF Select, TypeOK
<1>4. ASSUME NEW r \in Reader, Count(r) PROVE TypeOK'
  <2>1. Cardinality(Matches(query[r])) \in Nat
    BY RowsSelected
  <2>2. QED
    BY <1>4, <2>1 DEF Count, TypeOK, Phase
<1>5. ASSUME NEW r \in Reader, Answer(r) PROVE TypeOK'
  <2>1. phase' \in [Reader -> Phase]
    <3> DEFINE to == CASE query[r].op \notin One \/ data[r] # {} -> "ok"
                       [] query[r].op = "findOneOrFail" /\ data[r] = {} -> "returned"
                       [] OTHER -> "notFound"
    <3>1. to \in Phase
      BY DEF Phase
    <3>2. phase' = [phase EXCEPT ![r] = to]
      BY <1>5 DEF Answer
    <3> HIDE DEF to
    <3>3. QED
      BY <3>1, <3>2 DEF TypeOK
  <2>2. pages' \in [Reader -> Nat]
    BY <1>5 DEF Answer, TypeOK
  <2>3. QED
    BY <1>5, <2>1, <2>2 DEF Answer, TypeOK
<1>6. ASSUME NEW r \in Reader, Fail(r) PROVE TypeOK'
  BY <1>6 DEF Fail, TypeOK, Phase
<1>7. ASSUME NEW rest, Write(rest), rest \subseteq Row, IsFiniteSet(rest),
             \A one, other \in rest : one.id = other.id => one = other
      PROVE  TypeOK'
  <2>1. writes' \in 0 .. MaxWrites /\ steady' \in [Reader -> BOOLEAN] /\ heap' = rest
    BY <1>7 DEF Write, TypeOK, WellPosed
  <2>2. QED
    BY <1>7, <2>1 DEF Write, TypeOK
<1>8. ASSUME NEW id \in Id, Delete(id) \/ \E value \in Value : Save(id, value)
      PROVE  TypeOK'
  <2>1. /\ Others(id) \subseteq Row /\ IsFiniteSet(Others(id))
        /\ \A one, other \in Others(id) : one.id = other.id => one = other
        /\ \A row \in Others(id) : row.id # id
    <3>1. Others(id) \subseteq heap /\ \A row \in Others(id) : row.id # id
      BY DEF Others
    <3>2. QED
      BY <3>1, FS_Subset DEF TypeOK
  <2>2. CASE Delete(id)
    BY <1>7, <2>1, <2>2 DEF Delete
  <2>3. ASSUME NEW value \in Value, Save(id, value) PROVE TypeOK'
    <3> DEFINE row == [id |-> id, value |-> value]
    <3>1. row \in Row /\ row.id = id
      BY DEF Row
    <3>2. Write(Others(id) \union {row})
      BY <2>3 DEF Save
    <3> HIDE DEF row
    <3>3. IsFiniteSet(Others(id) \union {row})
      BY <2>1, FS_AddElement
    <3>4. QED
      BY <1>7, <2>1, <3>1, <3>2, <3>3
  <2>4. QED
    BY <1>8, <2>2, <2>3
<1>9. CASE UNCHANGED vars
  BY <1>9 DEF vars, reading, TypeOK
<1>10. QED
  BY <1>1, <1>2, <1>3, <1>4, <1>5, <1>6, <1>8, <1>9 DEF Next, ReadStep

-----------------------------------------------------------------------------
(* The steps of a search and of a walk.                                    *)

\* The same query finds the same rows while nobody writes.
LEMMA SameRows ==
    ASSUME heap' = heap, NEW r, query'[r] = query[r]
    PROVE  /\ Matches(query[r])' = Matches(query[r]) /\ Window(query[r])' = Window(query[r])
           /\ HeapSize' = HeapSize
BY DEF Matches, Window, HeapSize

\* A step of one reader leaves the others where they are.
LEMMA OthersStay ==
    ASSUME TypeOK, NEW r \in Reader, NEW d \in Reader \ {r},
           (\E q \in Query : Ask(r, q)) \/ ReadStep(r),
           Counting(d), NoPageZero(d), OnTheWalk(d)
    PROVE  Counting(d)' /\ NoPageZero(d)' /\ OnTheWalk(d)'
<1>1. /\ heap' = heap /\ query'[d] = query[d] /\ phase'[d] = phase[d] /\ data'[d] = data[d]
      /\ total'[d] = total[d] /\ pages'[d] = pages[d] /\ steady'[d] = steady[d]
  BY DEF Ask, ReadStep, Select, Count, Answer, Fail, TypeOK
<1>2. /\ Matches(query[d])' = Matches(query[d]) /\ Window(query[d])' = Window(query[d])
      /\ Skip(d)' = Skip(d) /\ HeapSize' = HeapSize
  BY <1>1, SameRows DEF Skip
<1>3. Counting(d)' /\ NoPageZero(d)'
  BY <1>1, <1>2 DEF Counting, NoPageZero
<1>4. OnTheWalk(d)'
  BY <1>1, <1>2 DEF OnTheWalk, HasSeen
<1>5. QED
  BY <1>3, <1>4

\* A write ends everything that was steady.
LEMMA WriteStays ==
    ASSUME TypeOK, NEW rest, Write(rest), NEW d \in Reader, Counting(d), NoPageZero(d)
    PROVE  Counting(d)' /\ NoPageZero(d)' /\ OnTheWalk(d)'
<1>1. ~steady'[d] /\ query'[d] = query[d] /\ phase'[d] = phase[d]
  BY DEF Write, TypeOK
<1>2. QED
  BY <1>1 DEF Counting, NoPageZero, OnTheWalk

\* A query starts with nothing counted.
LEMMA AskCounting ==
    ASSUME TypeOK, NEW r \in Reader, NEW q \in Query, Ask(r, q),
           q.page = 0 => q.op = "findWithPagination"
    PROVE  Counting(r)' /\ NoPageZero(r)'
BY DEF Ask, TypeOK, Counting, NoPageZero

\* The rows of a search are counted as they were found.
LEMMA CountingStep ==
    ASSUME WellPosed, TypeOK, NEW r \in Reader, Counting(r), NoPageZero(r), ReadStep(r)
    PROVE  Counting(r)' /\ NoPageZero(r)'
<1>1. CASE Select(r)
  <2>1. PICK rows \in Results(query[r]) :
           /\ data' = [data EXCEPT ![r] = rows]
           /\ total' = [total EXCEPT ![r] = Cardinality(rows)]
    BY <1>1 DEF Select
  <2>2. /\ query'[r] = query[r] /\ heap' = heap /\ query[r].page # 0
        /\ data'[r] = rows /\ total'[r] = Cardinality(rows)
        /\ phase'[r] \in {"answer", "count"}
        /\ phase'[r] = "count" => query[r].op \in Counted
    BY <1>1, <2>1 DEF Select, TypeOK
  <2>3. Matches(query[r])' = Matches(query[r])
    BY <2>2, SameRows
  <2>4. query[r].op \in Counted => rows = Matches(query[r])
    BY DEF Results, Counted, One
  <2>5. QED
    BY <2>2, <2>3, <2>4 DEF Counting, NoPageZero
<1>2. CASE Count(r)
  <2>1. /\ query'[r] = query[r] /\ data'[r] = data[r] /\ heap' = heap
        /\ total'[r] = Cardinality(Matches(query[r])) /\ phase'[r] = "answer"
        /\ steady'[r] = steady[r]
        /\ phase[r] = "count" \/ (phase[r] = "select" /\ query[r].op = "count")
    BY <1>2 DEF Count, AtCount, TypeOK
  <2>2. query[r].page # 0
    BY <2>1 DEF Counting, NoPageZero
  <2>3. QED
    BY <2>1, <2>2 DEF Counting, NoPageZero, Counted
<1>3. CASE Answer(r)
  <2>1. /\ query'[r] = query[r] /\ data'[r] = data[r] /\ steady'[r] = steady[r]
        /\ total'[r] = total[r] /\ phase'[r] # "count" /\ phase[r] = "answer"
    BY <1>3 DEF Answer, TypeOK
  <2>2. QED
    BY <2>1 DEF Counting, NoPageZero
<1>4. CASE Fail(r)
  <2>1. phase'[r] = "error" /\ query'[r] = query[r]
    BY <1>4 DEF Fail, TypeOK
  <2>2. QED
    BY <2>1 DEF Counting, NoPageZero
<1>5. QED
  BY <1>1, <1>2, <1>3, <1>4 DEF ReadStep

\* Where a page starts: the rows in front of it are those of the pages before.
LEMMA Skips ==
    ASSUME NEW page \in Nat \ {0}, NEW size \in Nat \ {0}
    PROVE  /\ (page - 1) * size \in Nat
           /\ (page - 1) * size + size = page * size
           /\ page = 1 => (page - 1) * size = 0
OBVIOUS

\* What a reader asked, and the table, are what the type says.
LEMMA AskedOf ==
    ASSUME WellPosed, TypeOK, NEW r \in Reader
    PROVE  /\ query[r] \in Query /\ query[r].page \in Nat
           /\ query[r].size \in Nat \ {0}
           /\ query[r].page # 0 => Skip(r) \in Nat
           /\ HeapSize \in Nat
<1>1. query[r] \in Query /\ query[r].page \in Nat /\ query[r].size \in Nat \ {0}
  BY DEF TypeOK, Query, WellPosed
<1>2. query[r].page # 0 => Skip(r) \in Nat
  BY <1>1, Skips DEF Skip
<1>3. HeapSize \in Nat
  BY FS_CardinalityType DEF TypeOK, HeapSize
<1>4. QED
  BY <1>1, <1>2, <1>3

\* A walk starts at page 1, given nothing so far, or goes on with the next page.
LEMMA AskOnTheWalk ==
    ASSUME WellPosed, TypeOK, NEW r \in Reader, OnTheWalk(r), NoPageZero(r),
           NEW q \in Query, Ask(r, q),
           \/ q.page = 1
           \/ q.page = 0
           \/ /\ phase[r] = "ok" /\ query[r].op = "findWithPagination"
              /\ q.page = query[r].page + 1 /\ q.size = query[r].size
    PROVE  OnTheWalk(r)'
<1>1. /\ query'[r] = q /\ phase'[r] = "select" /\ heap' = heap
      /\ q.page = 1 => pages'[r] = 0
      /\ q.page # 1 => pages'[r] = pages[r] /\ steady'[r] = (steady[r] \/ FALSE)
  BY DEF Ask, TypeOK
<1>2. q.size \in Nat \ {0} /\ HeapSize \in Nat /\ HeapSize' = HeapSize
  BY <1>1, AskedOf DEF Query, WellPosed, HeapSize
<1>3. CASE q.page = 0
  BY <1>1, <1>3 DEF OnTheWalk
<1>4. CASE q.page = 1
  <2>1. Skip(r)' = 0
    BY <1>1, <1>2, <1>4, Skips DEF Skip
  <2>2. HasSeen(r, 0)'
    BY <1>1, <1>2, <1>4 DEF HasSeen
  <2>3. QED
    BY <1>1, <2>1, <2>2 DEF OnTheWalk
<1>5. CASE q.page \notin {0, 1}
  <2>1. /\ phase[r] = "ok" /\ query[r].op = "findWithPagination"
        /\ q.page = query[r].page + 1 /\ q.size = query[r].size
    BY <1>5
  <2>2. query[r].page # 0
    BY <2>1 DEF NoPageZero
  <2>3. Skip(r)' = Skip(r) + query[r].size
    <3>1. PICK page, size : page = query[r].page /\ size = query[r].size
      OBVIOUS
    <3>2. query'[r].page = page + 1 /\ query'[r].size = size
      BY <1>1, <2>1, <3>1
    <3>3. page \in Nat \ {0} /\ size \in Nat \ {0}
      BY <2>2, <3>1, AskedOf
    <3>4. Skip(r)' = page * size
      <4>1. (page + 1) - 1 = page
        BY <3>3
      <4>2. query'[r].page - 1 = page
        BY <3>2, <4>1
      <4>3. QED
        BY <3>2, <4>2, Zenon DEF Skip
    <3>5. Skip(r) + size = page * size
      BY <3>1, <3>3, Skips DEF Skip
    <3>6. QED
      BY <3>1, <3>4, <3>5
  <2>4. steady[r] => HasSeen(r, Skip(r) + query[r].size)
    BY <2>1, <2>2 DEF OnTheWalk
  <2>5. steady'[r] => HasSeen(r, Skip(r))'
    BY <1>1, <1>2, <1>5, <2>3, <2>4 DEF HasSeen
  <2>6. QED
    BY <1>1, <2>5 DEF OnTheWalk
<1>6. QED
  BY <1>3, <1>4, <1>5

\* With the rows of a page the reader was given as many more as the page has.
LEMMA PageSeen ==
    ASSUME WellPosed, TypeOK, NEW r \in Reader, query[r].page # 0, HasSeen(r, Skip(r)),
           total[r] = Cardinality(data[r]), data[r] \in Window(query[r]), heap' = heap,
           pages'[r] = pages[r] + total[r],
           query'[r] = query[r]
    PROVE  HasSeen(r, Skip(r) + query[r].size)'
<1> DEFINE size == query[r].size
           left == HeapSize - Skip(r)
           length == IF left =< 0 THEN 0 ELSE IF left < size THEN left ELSE size
<1>1. size \in Nat \ {0} /\ Skip(r) \in Nat /\ HeapSize \in Nat
  BY AskedOf
<1>2. total[r] = length
  BY DEF Window, Skip, HeapSize
<1>3. Skip(r)' = Skip(r) /\ query'[r].size = size /\ HeapSize' = HeapSize
  BY DEF Skip, HeapSize
<1>4. pages[r] = IF Skip(r) < HeapSize THEN Skip(r) ELSE HeapSize
  BY DEF HasSeen
<1> HIDE DEF size
<1>5. pages[r] + length = IF Skip(r) + size < HeapSize THEN Skip(r) + size ELSE HeapSize
  BY <1>1, <1>4
<1>6. QED
  BY <1>2, <1>3, <1>5 DEF HasSeen, size

\* A page has the rows after those that were given, and then they are given too.
LEMMA WalkStep ==
    ASSUME WellPosed, TypeOK, NEW r \in Reader, Counting(r), OnTheWalk(r), ReadStep(r)
    PROVE  OnTheWalk(r)'
<1>1. CASE Select(r)
  <2>1. PICK rows \in Results(query[r]) :
           /\ data' = [data EXCEPT ![r] = rows]
           /\ total' = [total EXCEPT ![r] = Cardinality(rows)]
    BY <1>1 DEF Select
  <2>2. /\ query'[r] = query[r] /\ data'[r] = rows /\ total'[r] = Cardinality(rows)
        /\ heap' = heap
        /\ pages'[r] = pages[r] /\ steady'[r] = steady[r] /\ phase[r] = "select"
        /\ phase'[r] \in {"answer", "count"}
    BY <1>1, <2>1 DEF Select, TypeOK
  <2>3. Window(query[r])' = Window(query[r]) /\ Skip(r)' = Skip(r) /\ HeapSize' = HeapSize
    BY <2>2, SameRows DEF Skip
  <2>4. query[r].op = "findWithPagination" => rows \in Window(query[r])
    BY DEF Results, One
  <2>5. QED
    BY <2>2, <2>3, <2>4 DEF OnTheWalk, HasSeen
<1>2. CASE Count(r)
  <2>1. /\ query'[r] = query[r] /\ phase'[r] = "answer" /\ steady'[r] = steady[r]
        /\ heap' = heap /\ pages'[r] = pages[r] /\ data'[r] = data[r]
        /\ phase[r] = "count" \/ query[r].op = "count"
    BY <1>2 DEF Count, AtCount, TypeOK
  <2>2. query[r].op # "findWithPagination"
    BY <2>1 DEF Counting, Counted
  <2>3. QED
    BY <2>1, <2>2 DEF OnTheWalk
<1>3. CASE Answer(r)
  <2>1. /\ query'[r] = query[r] /\ data'[r] = data[r] /\ steady'[r] = steady[r]
        /\ heap' = heap /\ phase[r] = "answer" /\ phase'[r] \notin {"select", "answer"}
        /\ query[r].op = "findWithPagination" => pages'[r] = pages[r] + total[r]
    BY <1>3 DEF Answer, TypeOK
  <2>2. ASSUME query[r].op = "findWithPagination", steady[r], query[r].page # 0
        PROVE  HasSeen(r, Skip(r) + query[r].size)'
    BY <2>1, <2>2, PageSeen DEF OnTheWalk
  <2>3. QED
    BY <2>1, <2>2 DEF OnTheWalk
<1>4. CASE Fail(r)
  <2>1. phase'[r] = "error"
    BY <1>4 DEF Fail, TypeOK
  <2>2. QED
    BY <2>1 DEF OnTheWalk
<1>5. QED
  BY <1>1, <1>2, <1>3, <1>4 DEF ReadStep

-----------------------------------------------------------------------------
(* The invariant.                                                          *)

\* It holds when nothing was asked yet, with the rows of any table,
LEMMA RestInv ==
    ASSUME WellPosed, heap \subseteq [id : Id, value : Value], IsFiniteSet(heap), writes = 0,
           \A one, other \in heap : one.id = other.id => one = other,
           query = [r \in Reader |-> [op |-> "count", by |-> NoCondition, page |-> 1,
                                     size |-> CHOOSE s \in Size : TRUE]],
           phase = [r \in Reader |-> "idle"],
           data = [r \in Reader |-> {}], total = [r \in Reader |-> 0],
           pages = [r \in Reader |-> 0], steady = [r \in Reader |-> TRUE]
    PROVE  IInv
<1>1. TypeOK
  <2>1. heap \subseteq Row /\ writes \in 0 .. MaxWrites
    BY DEF WellPosed, Row
  <2>2. query \in [Reader -> Query]
    BY ASize DEF Query, Op
  <2>3. QED
    BY <2>1, <2>2 DEF TypeOK, Phase
<1>2. ASSUME NEW r \in Reader PROVE Counting(r) /\ NoPageZero(r) /\ OnTheWalk(r)
  BY DEF Counting, Counted, NoPageZero, OnTheWalk
<1>3. QED
  BY <1>1, <1>2 DEF IInv

\* and so at first.
LEMMA InitInv ==
    ASSUME WellPosed, Init
    PROVE  IInv
BY RestInv DEF Init, WellPosed

\* Every step keeps it.
LEMMA StepInv ==
    ASSUME WellPosed, IInv, [Next]_vars
    PROVE  IInv'
<1>1. TypeOK /\ TypeOK' /\ \A r \in Reader : Counting(r) /\ NoPageZero(r) /\ OnTheWalk(r)
  BY TypeStep DEF IInv
<1>2. ASSUME NEW r \in Reader, NEW q \in Query, Ask(r, q),
             \/ q.page = 1
             \/ q.page = 0 /\ q.op = "findWithPagination"
             \/ /\ phase[r] = "ok" /\ query[r].op = "findWithPagination"
                /\ q.page = query[r].page + 1 /\ q.size = query[r].size
      PROVE  IInv'
  <2>1. q.page = 0 => q.op = "findWithPagination"
    BY <1>1, <1>2, AskedOf
  <2>2. Counting(r)' /\ NoPageZero(r)' /\ OnTheWalk(r)'
    BY <1>1, <1>2, <2>1, AskCounting, AskOnTheWalk
  <2>3. ASSUME NEW d \in Reader \ {r} PROVE Counting(d)' /\ NoPageZero(d)' /\ OnTheWalk(d)'
    BY <1>1, <1>2, OthersStay
  <2>4. QED
    BY <1>1, <2>2, <2>3 DEF IInv
<1>3. ASSUME NEW r \in Reader, NEW op \in Op \ {"findWithPagination"}, AskAny(r, op)
      PROVE  IInv'
  BY <1>1, <1>2, <1>3, AskForType DEF AskAny
<1>4. ASSUME NEW r \in Reader, NEW size \in Size, Turn(r, size) \/ TurnToZero(r, size)
      PROVE  IInv'
  BY <1>1, <1>2, <1>4, TurnType
<1>5. ASSUME NEW r \in Reader, ReadStep(r) PROVE IInv'
  <2>1. Counting(r)' /\ NoPageZero(r)' /\ OnTheWalk(r)'
    BY <1>1, <1>5, CountingStep, WalkStep
  <2>2. ASSUME NEW d \in Reader \ {r} PROVE Counting(d)' /\ NoPageZero(d)' /\ OnTheWalk(d)'
    BY <1>1, <1>5, OthersStay
  <2>3. QED
    BY <1>1, <2>1, <2>2 DEF IInv
<1>6. ASSUME NEW rest, Write(rest) PROVE IInv'
  BY <1>1, <1>6, WriteStays DEF IInv
<1>7. ASSUME NEW id \in Id, Delete(id) \/ \E value \in Value : Save(id, value)
      PROVE  IInv'
  BY <1>6, <1>7 DEF Delete, Save
<1>8. CASE UNCHANGED vars
  <2>1. ASSUME NEW r \in Reader PROVE Counting(r)' /\ NoPageZero(r)' /\ OnTheWalk(r)'
    <3>1. /\ Matches(query[r])' = Matches(query[r]) /\ Window(query[r])' = Window(query[r])
          /\ HeapSize' = HeapSize
      BY <1>8, SameRows DEF vars, reading
    <3>2. QED
      BY <1>1, <1>8, <3>1 DEF vars, reading, Counting, NoPageZero, OnTheWalk, HasSeen, Skip
  <2>2. QED
    BY <1>1, <2>1 DEF IInv
<1>9. QED
  BY <1>3, <1>4, <1>5, <1>7, <1>8 DEF Next

\* The last page ends with the last row.
LEMMA LastPageEnds ==
    ASSUME NEW length \in Nat, NEW size \in Nat \ {0}
    PROVE  /\ LastPage(length, size) \in Nat \ {0}
           /\ LastPage(length, size) * size >= length
<1>1. CASE length = 0
  BY <1>1 DEF LastPage
<1>2. CASE length # 0
  <2>1. (length + size - 1) \div size \in Nat /\ ((length + size - 1) \div size) * size >= length
    BY <1>2
  <2>2. (length + size - 1) \div size # 0
    BY <1>2, <2>1
  <2>3. QED
    BY <1>2, <2>1, <2>2 DEF LastPage
<1>3. QED
  BY <1>1, <1>2

\* It implies the properties.
LEMMA InvSafe ==
    ASSUME WellPosed, IInv
    PROVE  TypeOK /\ CountAgrees /\ PagesAddUp
<1>1. TypeOK /\ \A r \in Reader : Counting(r) /\ OnTheWalk(r)
  BY DEF IInv
<1>2. CountAgrees
  BY <1>1 DEF Counting, CountAgrees
<1>3. ASSUME NEW r \in Reader,
             phase[r] = "ok", query[r].op = "findWithPagination", steady[r],
             query[r].page = LastPage(HeapSize, query[r].size)
      PROVE  pages[r] = HeapSize
  <2>1. query[r].page \in Nat \ {0} /\ query[r].size \in Nat \ {0} /\ HeapSize \in Nat
    BY <1>1, <1>3, AskedOf, LastPageEnds
  <2>2. HasSeen(r, Skip(r) + query[r].size)
    BY <1>1, <1>3, <2>1 DEF OnTheWalk
  <2>3. Skip(r) + query[r].size = query[r].page * query[r].size
    BY <2>1, Skips DEF Skip
  <2>4. Skip(r) + query[r].size \in Nat /\ Skip(r) + query[r].size >= HeapSize
    <3>1. query[r].page * query[r].size >= HeapSize
      BY <1>3, <2>1, LastPageEnds
    <3>2. query[r].page * query[r].size \in Nat
      BY <2>1
    <3>3. QED
      BY <2>3, <3>1, <3>2
  <2>5. QED
    BY <2>1, <2>2, <2>4 DEF HasSeen
<1>4. PagesAddUp
  BY <1>3 DEF PagesAddUp, HeapSize
<1>5. QED
  BY <1>1, <1>2, <1>4

\* So it holds always.
LEMMA Invariance ==
    ASSUME WellPosed
    PROVE  Spec => []IInv
<1>1. Init => IInv
  BY InitInv
<1>2. IInv /\ [Next]_vars => IInv'
  BY StepInv
<1>3. QED
  BY <1>1, <1>2, PTL DEF Spec

-----------------------------------------------------------------------------
(* The theorems.                                                           *)

\* The table is one of rows with different ids, whatever is written into it, and what
\* the readers hold are rows and counts.
THEOREM TypeCorrect ==
    ASSUME WellPosed
    PROVE  Spec => []TypeOK
<1>1. IInv => TypeOK
  BY InvSafe
<1>2. QED
  BY <1>1, Invariance, PTL

\* The count that comes with the rows of a search is theirs, unless somebody writes
\* between the two SELECTs.
THEOREM CountsAgree ==
    ASSUME WellPosed
    PROVE  Spec => []CountAgrees
<1>1. IInv => CountAgrees
  BY InvSafe
<1>2. QED
  BY <1>1, Invariance, PTL

\* For tables and pages of any size: who turns the pages up to the last one, while
\* nobody writes, is given as many rows as there are, whichever rows they are.
THEOREM AllPagesAddUp ==
    ASSUME WellPosed
    PROVE  Spec => []PagesAddUp
<1>1. IInv => PagesAddUp
  BY InvSafe
<1>2. QED
  BY <1>1, Invariance, PTL

=============================================================================
