------------------------ MODULE EntityCommandsProofs ------------------------
(***************************************************************************)
(* Proofs about EntityCommands, for every choice of its constants and so   *)
(* for each of the four entity modules: its state is well typed, no row    *)
(* comes from nowhere, what is acknowledged was announced, bulk updates    *)
(* stop at a prefix, refused creations leave nothing, and one command at a *)
(* time leaves what the last one wrote.                                    *)
(***************************************************************************)
EXTENDS EntityCommands, SequenceTheorems, TLAPS

\* Where a command is tells what it has read so far: so many rows of its list, and
\* none of them missing where the code threw when one was.
AtPlace(c) ==
    /\ stage[c] # "waiting" => IsRequest(ask[c])
    /\ IsRequest(ask[c]) => item[c] \in DOMAIN List(c)
    /\ stage[c] \in {"waiting", "service"} => reads[c] = <<>> /\ item[c] = 1
    /\ stage[c] = "write" =>
          \/ Op(c) \in {"create", "bulkCreate"}
          \/ Op(c) = "update" /\ Len(reads[c]) = 1
          \/ Op(c) = "delete" /\ Len(reads[c]) = 1 /\ reads[c][1] # Absent
          \/ Op(c) = "bulkUpdate" /\ Len(reads[c]) = item[c] - 1
          \/ Op(c) = "bulkDelete" /\ reads[c] = <<>> /\ item[c] = 1
    /\ stage[c] = "reload" =>
          \/ Op(c) = "update" /\ Len(reads[c]) = 1
          \/ Op(c) = "bulkUpdate" /\ Len(reads[c]) = item[c] - 1
    /\ stage[c] = "again" =>
          /\ Op(c) = "bulkUpdate"
          /\ Len(reads[c]) = item[c] /\ reads[c][item[c]] # Absent
    /\ stage[c] = "announce" => Op(c) = "update" /\ Len(reads[c]) = 2
    /\ stage[c] = "find" =>
          \/ Op(c) = "delete" /\ reads[c] = <<>>
          \/ /\ Op(c) = "bulkDelete" /\ Len(reads[c]) = item[c] - 1
             /\ \A i \in DOMAIN reads[c] : reads[c][i] # Absent

\* Every command is somewhere it can be.
Placed == \A c \in Command : AtPlace(c)

\* Rows that a command wrote or that were there, and what a client sent for a row
\* that was not, announced all the same.
Sound == authored \union Unfounded

\* The id of the row that a command read as its i-th.
ReadId(c, i) == IF Op(c) \in Single THEN List(c)[1].id ELSE List(c)[i].id

\* What the commands have read is sound,
ReadsGrounded ==
    \A c \in Command : \A i \in DOMAIN reads[c] :
        reads[c][i] # Absent => <<ReadId(c, i), reads[c][i]>> \in Sound

\* and so is what the events carry, wherever they are.
EventsGrounded ==
    \A e \in local \union sending \union echoes \union InTopics :
        <<e.id, e.value>> \in Sound

-----------------------------------------------------------------------------

\* What a client sends is a list of at least one entity, and of one only unless the
\* command is a bulk command.
LEMMA Requests ==
    ASSUME NEW c, IsRequest(ask[c])
    PROVE  /\ List(c) \in Seq(Item) /\ Len(List(c)) \in Nat \ {0}
           /\ DOMAIN List(c) = 1 .. Len(List(c))
           /\ \A i \in DOMAIN List(c) : List(c)[i] \in Item
           /\ Ids(c) \subseteq Id
           /\ \A i \in DOMAIN List(c) : List(c)[i].id \in Ids(c)
           /\ Op(c) \in Single \union Bulk
           /\ Op(c) \in Single => Len(List(c)) = 1
<1>1. List(c) \in Seq(Item) /\ List(c) # <<>>
  BY DEF IsRequest, List
<1>2. Len(List(c)) \in Nat \ {0} /\ DOMAIN List(c) = 1 .. Len(List(c))
  BY <1>1, EmptySeq, LenProperties
<1>3. \A i \in DOMAIN List(c) : List(c)[i] \in Item
  BY <1>1, <1>2, ElementOfSeq
<1>4. \A i \in Item : i.id \in Id
  BY DEF Item
<1>5. QED
  BY <1>1, <1>2, <1>3, <1>4 DEF IsRequest, List, Op, Ids, Items

\* A command at work has something to do now.
LEMMA AtWorkNow ==
    ASSUME TypeOK, Placed, NEW c \in Command, stage[c] # "waiting"
    PROVE  /\ IsRequest(ask[c])
           /\ item[c] \in 1 .. Len(List(c)) /\ item[c] \in Nat
           /\ Now(c) = List(c)[item[c]] /\ Now(c) \in Item
           /\ Now(c).id \in Id /\ Now(c).value \in Value \union {NotGiven}
           /\ Now(c).id \in Ids(c)
<1>1. IsRequest(ask[c]) /\ item[c] \in DOMAIN List(c)
  BY DEF Placed, AtPlace
<1>2. QED
  BY <1>1, Requests DEF Now, Item

\* What a command has read so far is a list of values, or of nothing in their place.
LEMMA RowsRead ==
    ASSUME TypeOK, NEW c \in Command
    PROVE  /\ Len(reads[c]) \in Nat /\ DOMAIN reads[c] = 1 .. Len(reads[c])
           /\ \A i \in 1 .. Len(reads[c]) : reads[c][i] \in Value \union {Absent}
<1>1. reads[c] \in Seq(Value \union {Absent})
  BY DEF TypeOK
<1>2. QED
  BY <1>1, LenProperties, ElementOfSeq

\* The events of a command are events, with what they carry or without.
LEMMA NewEvents ==
    ASSUME NEW c \in Command, NEW kind \in Kind, NEW id \in Id, NEW value \in Value,
           NEW copy \in {1, 2}
    PROVE  /\ NewEvent(c, kind, id, value, copy) \in Event
           /\ [NewEvent(c, kind, id, value, copy) EXCEPT !.whole = FALSE] \in Event
BY DEF NewEvent, Event

\* Every module registers the three events of its entity.
LEMMA Kinds == {"created", "updated", "deleted"} \subseteq Kind
BY DEF Kind

\* What lies in a topic, and what one more event there adds.
LEMMA TopicEvents ==
    ASSUME TypeOK
    PROVE  /\ \A k \in Kind : /\ topic[k] \in Seq(Event) /\ Len(topic[k]) \in Nat
                              /\ \A i \in 1 .. Len(topic[k]) :
                                    topic[k][i] \in Event /\ topic[k][i] \in InTopics
           /\ InTopics \subseteq Event
<1>1. DOMAIN topic = Kind
  BY DEF TypeOK
<1>2. \A k \in Kind : topic[k] \in Seq(Event) /\ Len(topic[k]) \in Nat
                      /\ DOMAIN topic[k] = 1 .. Len(topic[k])
  BY LenProperties DEF TypeOK
<1>3. \A k \in Kind : \A i \in 1 .. Len(topic[k]) : topic[k][i] \in Event
  BY <1>2, ElementOfSeq
<1>4. QED
  BY <1>1, <1>2, <1>3 DEF InTopics, Range

\* One event more in a topic: the ones that lie there keep their places.
LEMMA Appended ==
    ASSUME TypeOK, NEW k \in Kind, NEW e \in Event,
           topic' = [topic EXCEPT ![k] = Append(@, e)]
    PROVE  /\ topic' \in [Kind -> Seq(Event)]
           /\ InTopics' = InTopics \union {e}
           /\ \A j \in Kind : Len(topic'[j]) = IF j = k THEN Len(topic[k]) + 1 ELSE Len(topic[j])
           /\ \A j \in Kind : \A i \in 1 .. Len(topic[j]) : topic'[j][i] = topic[j][i]
           /\ topic'[k][Len(topic[k]) + 1] = e
<1>1. /\ topic \in [Kind -> Seq(Event)] /\ topic[k] \in Seq(Event) /\ DOMAIN topic = Kind
      /\ DOMAIN topic' = Kind
  BY DEF TypeOK
<1>2. /\ topic'[k] = Append(topic[k], e) /\ topic'[k] \in Seq(Event)
      /\ \A j \in Kind \ {k} : topic'[j] = topic[j]
  BY <1>1
<1>3. /\ Len(topic'[k]) = Len(topic[k]) + 1 /\ Len(topic[k]) \in Nat
      /\ \A i \in 1 .. Len(topic[k]) : topic'[k][i] = topic[k][i]
      /\ topic'[k][Len(topic[k]) + 1] = e
      /\ DOMAIN topic'[k] = 1 .. Len(topic[k]) + 1
      /\ DOMAIN topic[k] = 1 .. Len(topic[k])
  BY <1>1, <1>2, AppendProperties, LenProperties
<1>4. Range(topic'[k]) = Range(topic[k]) \union {e}
  BY <1>3 DEF Range
<1>5. InTopics' = InTopics \union {e}
  BY <1>1, <1>2, <1>4 DEF InTopics
<1>6. QED
  BY <1>1, <1>2, <1>3, <1>5

\* The event that the service announces after an update.
AnnouncedEvent(c) ==
    [NewEvent(c, KindOf(DslValue(c)), Now(c).id, DslValue(c), 1) EXCEPT
        !.whole = reads[c] # <<Absent, Absent>>]

\* After an update the service sends nothing, or the announced event, which lies in
\* its topic at once.
LEMMA Announcements ==
    ASSUME WellPosed, TypeOK, Placed, NEW c \in Command, Announce(c)
    PROVE  \/ UNCHANGED topic
           \/ /\ AnnouncedEvent(c) \in Event
              /\ AnnouncedEvent(c).kind \in StatusKind
              /\ DslValue(c) \in Value
              /\ topic' = [topic EXCEPT ![AnnouncedEvent(c).kind] =
                                           Append(@, AnnouncedEvent(c))]
              /\ InTopics' = InTopics \union {AnnouncedEvent(c)}
<1> DEFINE value == DslValue(c)
           kind == IF value = NotGiven THEN NoKind ELSE KindOf(value)
           event == [NewEvent(c, kind, Now(c).id, value, 1) EXCEPT
                        !.whole = reads[c] # <<Absent, Absent>>]
<1>1. Len(reads[c]) = 2 /\ Now(c) \in Item
  BY AtWorkNow DEF Announce, At, Placed, AtPlace
<1>2. value \in Value \union {NotGiven}
  <2>1. /\ reads[c][1] \in Value \union {Absent} /\ reads[c][2] \in Value \union {Absent}
        /\ Now(c).value \in Value \union {NotGiven}
    BY <1>1, RowsRead DEF Item
  <2>2. QED
    BY <2>1 DEF DslValue
<1>3. CASE kind = NoKind
  BY <1>3 DEF Announce
<1>4. CASE kind # NoKind
  <2>1. value \in Value /\ kind = KindOf(value) /\ kind \in StatusKind /\ kind \in Kind
    BY <1>2, <1>4 DEF WellPosed, Kind
  <2>2. event = AnnouncedEvent(c) /\ event \in Event /\ event.kind = kind
    BY <1>1, <2>1 DEF NewEvent, Event, Item, AnnouncedEvent
  <2>3. topic' = [topic EXCEPT ![kind] = Append(@, event)]
    BY <1>4 DEF Announce
  <2>4. InTopics' = InTopics \union {event}
    BY <2>1, <2>2, <2>3, Appended
  <2>5. QED
    BY <2>1, <2>2, <2>3, <2>4
<1>5. QED
  BY <1>3, <1>4

-----------------------------------------------------------------------------
\* Every step leaves the state well typed.
LEMMA TypeStep ==
    ASSUME WellPosed, TypeOK, Placed, [Next]_vars
    PROVE  TypeOK'
<1> USE DEF vars, commandState, busState, replayState, history
<1>0. CASE UNCHANGED vars
  BY <1>0 DEF TypeOK
<1>1. ASSUME NEW c \in Command, Request(c) \/ TurnAway(c) PROVE TypeOK'
  BY <1>1 DEF TypeOK, Request, TurnAway, Enter, Goto, Place
<1>2. ASSUME NEW c \in Command, Check(c) PROVE TypeOK'
  BY <1>2 DEF TypeOK, Check, Goto, Place
<1>3. ASSUME NEW c \in Command, LoadForUpdate(c) PROVE TypeOK'
  <2>1. rows[Now(c).id] \in Value \union {Absent}
    BY <1>3, AtWorkNow DEF TypeOK, LoadForUpdate, At
  <2>2. <<rows[Now(c).id]>> \in Seq(Value \union {Absent})
    BY <2>1
  <2>3. QED
    BY <1>3, <2>2 DEF TypeOK, LoadForUpdate, Goto, Place
<1>4. ASSUME NEW c \in Command, LoadForDelete(c) PROVE TypeOK'
  BY <1>4 DEF TypeOK, LoadForDelete, Goto, Place
<1>5. ASSUME NEW c \in Command, NEW ids \in SUBSET Id, NEW table \in [Id -> Value \union {Absent}],
             Author(c, ids, table)
      PROVE  /\ rows' \in [Id -> Value \union {Absent}] /\ authored' \subseteq Id \X Value
             /\ wrote' \in [Command -> SUBSET Id] /\ last' \in [Id -> Value \union {Absent}]
             /\ lost' = lost /\ raced' = raced
  BY <1>5 DEF TypeOK, Author
<1>6. ASSUME NEW c \in Command, SaveOne(c) PROVE TypeOK'
  <2> DEFINE id == Now(c).id  value == Given(Now(c).value, Default)
  <2>1. id \in Id /\ Now(c).value \in Value \union {NotGiven}
    BY <1>6, AtWorkNow DEF SaveOne, At
  <2>2. CASE Insertable(id, Now(c).value)
    <3>1. value \in Value
      BY <2>1, <2>2 DEF Insertable, Given, WellPosed
    <3>2. [rows EXCEPT ![id] = value] \in [Id -> Value \union {Absent}]
      BY <2>1, <3>1 DEF TypeOK
    <3>3. /\ rows' \in [Id -> Value \union {Absent}] /\ authored' \subseteq Id \X Value
          /\ wrote' \in [Command -> SUBSET Id] /\ last' \in [Id -> Value \union {Absent}]
          /\ lost' = lost /\ raced' = raced
      BY <1>5, <1>6, <2>1, <2>2, <3>2 DEF SaveOne
    <3>4. NewEvent(c, "created", id, value, 1) \in Event
      BY <2>1, <3>1, NewEvents, Kinds
    <3>5. QED
      BY <1>6, <2>2, <3>3, <3>4 DEF SaveOne, TypeOK, Publish, Goto, Place
  <2>3. CASE ~Insertable(id, Now(c).value)
    BY <1>6, <2>3 DEF SaveOne, TypeOK, Goto, Place
  <2>4. QED
    BY <2>2, <2>3
<1>7. ASSUME NEW c \in Command, SaveAll(c) PROVE TypeOK'
  <2> DEFINE new == [id \in Ids(c) |->
                       Given((CHOOSE i \in Items(c) : i.id = id).value, Default)]
             table == [id \in Id |-> IF id \in Ids(c) THEN new[id] ELSE rows[id]]
             fits == /\ \A i \in Items(c) : Insertable(i.id, i.value)
                     /\ Unique => \A i, j \in Ids(c) : new[i] = new[j] => i = j
  <2>1. IsRequest(ask[c]) /\ Ids(c) \subseteq Id
    BY <1>7, AtWorkNow, Requests DEF SaveAll, At
  <2>2. CASE fits
    <3>1. ASSUME NEW id \in Ids(c) PROVE new[id] \in Value
      <4> DEFINE i == CHOOSE i \in Items(c) : i.id = id
      <4>1. i \in Items(c)
        BY DEF Ids
      <4>2. i.value \in Value \union {NotGiven}
        BY <2>1, <4>1, Requests DEF Items, Item
      <4>3. Given(i.value, Default) # NotGiven
        BY <2>2, <4>1 DEF Insertable
      <4>4. QED
        BY <4>2, <4>3 DEF Given, WellPosed
    <3>2. table \in [Id -> Value \union {Absent}]
      BY <2>1, <3>1 DEF TypeOK
    <3>3. /\ rows' \in [Id -> Value \union {Absent}] /\ authored' \subseteq Id \X Value
          /\ wrote' \in [Command -> SUBSET Id] /\ last' \in [Id -> Value \union {Absent}]
          /\ lost' = lost /\ raced' = raced
      BY <1>5, <1>7, <2>1, <2>2, <3>2 DEF SaveAll
    <3>4. {NewEvent(c, "created", id, new[id], 1) : id \in Ids(c)} \subseteq Event
      BY <2>1, <3>1, NewEvents, Kinds
    <3>5. QED
      BY <1>7, <2>2, <3>3, <3>4 DEF SaveAll, TypeOK, Publish, Goto, Place
  <2>3. CASE ~fits
    BY <1>7, <2>3 DEF SaveAll, TypeOK, Goto, Place
  <2>4. QED
    BY <2>2, <2>3
<1>8. ASSUME NEW c \in Command, Overwrite(c) PROVE TypeOK'
  <2> DEFINE id == Now(c).id
             read == IF Op(c) = "update" THEN reads[c][1] ELSE rows[id]
             value == IF Candidate(c, read) \in Value THEN Candidate(c, read) ELSE rows[id]
  <2>1. id \in Id
    BY <1>8, AtWorkNow DEF Overwrite, At
  <2>2. rows[id] = Absent => TypeOK'
    BY <1>8 DEF Overwrite, TypeOK, Goto, Place
  <2>3. rows[id] # Absent /\ Taken(id, value) => TypeOK'
    BY <1>8 DEF Overwrite, TypeOK, Goto, Place
  <2>4. CASE rows[id] # Absent /\ ~Taken(id, value)
    <3>1. value \in Value
      BY <2>1, <2>4 DEF TypeOK
    <3>2. [rows EXCEPT ![id] = value] \in [Id -> Value \union {Absent}]
      BY <2>1, <3>1 DEF TypeOK
    <3>3. Goto(c, "reload") /\ Author(c, {id}, [rows EXCEPT ![id] = value])
      BY <1>8, <2>4 DEF Overwrite
    <3>4. /\ rows' \in [Id -> Value \union {Absent}] /\ authored' \subseteq Id \X Value
          /\ wrote' \in [Command -> SUBSET Id] /\ last' \in [Id -> Value \union {Absent}]
          /\ lost' = lost /\ raced' = raced
      BY <1>5, <2>1, <3>2, <3>3
    <3>5. QED
      BY <1>8, <3>3, <3>4 DEF Overwrite, TypeOK, Goto, Place
  <2>5. QED
    BY <2>2, <2>3, <2>4
<1>9. ASSUME NEW c \in Command, NextItem(c), stage[c] # "waiting"
      PROVE  item' \in [Command -> Nat \ {0}] /\ stage' \in [Command -> Place]
  BY <1>9, AtWorkNow DEF NextItem, TypeOK, Goto, Place
<1>10. ASSUME NEW c \in Command, Reload(c) PROVE TypeOK'
  <2> DEFINE id == Now(c).id  row == rows[id]
  <2>1. stage[c] = "reload"
    BY <1>10 DEF Reload, At
  <2>2. id \in Id /\ row \in Value \union {Absent}
    BY <2>1, AtWorkNow DEF TypeOK
  <2>3. reads' \in [Command -> Seq(Value \union {Absent})]
    <3>1. reads[c] \in Seq(Value \union {Absent})
      BY DEF TypeOK
    <3>2. Append(reads[c], row) \in Seq(Value \union {Absent})
      BY <2>2, <3>1, AppendProperties
    <3>3. reads' = [reads EXCEPT ![c] = Append(@, row)]
      BY <1>10 DEF Reload
    <3>4. QED
      BY <3>2, <3>3 DEF TypeOK
  <2>4. /\ local' \subseteq Event /\ sending' \subseteq Event
        /\ UNCHANGED <<topic, consumed, seen, echoes>>
    <3>1. row # Absent => NewEvent(c, "updated", id, row, 1) \in Event
      BY <2>2, NewEvents, Kinds
    <3>2. QED
      BY <1>10, <3>1 DEF Reload, Publish, TypeOK
  <2>5. item' \in [Command -> Nat \ {0}] /\ stage' \in [Command -> Place]
    <3>1. NextItem(c) => item' \in [Command -> Nat \ {0}] /\ stage' \in [Command -> Place]
      BY <1>9, <2>1
    <3>2. Goto(c, "announce") \/ Goto(c, "again") => stage' \in [Command -> Place]
      BY DEF Goto, TypeOK, Place
    <3>3. item \in [Command -> Nat \ {0}]
      BY DEF TypeOK
    <3>4. QED
      BY <1>10, <3>1, <3>2, <3>3 DEF Reload, Goto, NextItem
  <2>6. QED
    BY <1>10, <2>3, <2>4, <2>5 DEF Reload, TypeOK
<1>11. ASSUME NEW c \in Command, PublishAgain(c) PROVE TypeOK'
  <2> DEFINE row == reads[c][Len(reads[c])]
             second == NewEvent(c, "updated", Now(c).id, row, 2)
  <2>1. stage[c] = "again" /\ Now(c).id \in Id
    BY <1>11, AtWorkNow DEF PublishAgain, At
  <2>2. Len(reads[c]) = item[c] /\ item[c] \in Nat \ {0} /\ reads[c][item[c]] # Absent
    BY <2>1 DEF Placed, AtPlace, TypeOK
  <2>3. row \in Value
    BY <2>2, RowsRead
  <2>4. second \in Event
    BY <2>1, <2>3, NewEvents, Kinds
  <2>5. QED
    BY <1>9, <1>11, <2>1, <2>4 DEF PublishAgain, TypeOK
<1>12. ASSUME NEW c \in Command, Find(c) PROVE TypeOK'
  <2>1. rows[Now(c).id] \in Value \union {Absent}
    BY <1>12, AtWorkNow DEF Find, At, TypeOK
  <2>2. <<rows[Now(c).id]>> \in Seq(Value \union {Absent})
    BY <2>1
  <2>3. QED
    BY <1>12, <2>2 DEF Find, TypeOK, Goto, Place
<1>13. ASSUME NEW c \in Command, Remove(c) PROVE TypeOK'
  <2>1. Now(c).id \in Id
    BY <1>13, AtWorkNow DEF Remove, At
  <2>2. reads[c][1] \in Value
    <3>1. Len(reads[c]) = 1 /\ reads[c][1] # Absent
      BY <1>13 DEF Remove, At, Placed, AtPlace
    <3>2. QED
      BY <3>1, RowsRead
  <2>3. [rows EXCEPT ![Now(c).id] = Absent] \in [Id -> Value \union {Absent}]
    BY DEF TypeOK
  <2>4. /\ rows' \in [Id -> Value \union {Absent}] /\ authored' \subseteq Id \X Value
        /\ wrote' \in [Command -> SUBSET Id] /\ last' \in [Id -> Value \union {Absent}]
        /\ lost' = lost /\ raced' = raced
    BY <1>5, <1>13, <2>1, <2>3 DEF Remove
  <2>5. NewEvent(c, "deleted", Now(c).id, reads[c][1], 1) \in Event
    BY <2>1, <2>2, NewEvents, Kinds
  <2>6. QED
    BY <1>13, <2>4, <2>5 DEF Remove, TypeOK, Publish, Goto, Place
<1>14. ASSUME NEW c \in Command, RemoveAll(c) PROVE TypeOK'
  <2>1. Ids(c) \subseteq Id
    BY <1>14, AtWorkNow, Requests DEF RemoveAll, At
  <2>2. [id \in Id |-> IF id \in Ids(c) THEN Absent ELSE rows[id]]
           \in [Id -> Value \union {Absent}]
    BY DEF TypeOK
  <2>3. /\ rows' \in [Id -> Value \union {Absent}] /\ authored' \subseteq Id \X Value
        /\ wrote' \in [Command -> SUBSET Id] /\ last' \in [Id -> Value \union {Absent}]
        /\ lost' = lost /\ raced' = raced
    BY <1>5, <1>14, <2>1, <2>2 DEF RemoveAll
  <2>4. QED
    BY <1>14, <2>3 DEF RemoveAll, TypeOK, Goto, Place
<1>15. ASSUME NEW c \in Command, FindRemoved(c) PROVE TypeOK'
  <2> DEFINE row == rows[Now(c).id]  found == Append(reads[c], row)
             events == {NewEvent(c, "deleted", List(c)[i].id, found[i], 1) :
                          i \in DOMAIN List(c)}
  <2>1. row \in Value \union {Absent} /\ IsRequest(ask[c]) /\ item[c] \in 1 .. Len(List(c))
    BY <1>15, AtWorkNow DEF FindRemoved, At, TypeOK
  <2>2. found \in Seq(Value \union {Absent})
    BY <2>1 DEF TypeOK
  <2>3. reads' \in [Command -> Seq(Value \union {Absent})]
    BY <1>15, <2>2 DEF FindRemoved, TypeOK
  <2>4. CASE row = Absent
    BY <1>15, <2>3, <2>4 DEF FindRemoved, TypeOK, Goto, Place
  <2>5. CASE row # Absent /\ HasNext(c)
    BY <1>15, <2>3, <2>5 DEF FindRemoved, TypeOK, HasNext
  <2>6. CASE row # Absent /\ ~HasNext(c)
    <3>1. /\ Len(reads[c]) = item[c] - 1
          /\ \A i \in DOMAIN reads[c] : reads[c][i] # Absent
      BY <1>15 DEF FindRemoved, At, Placed, AtPlace
    <3>2. item[c] = Len(List(c)) /\ Len(List(c)) \in Nat
      BY <2>1, <2>6, Requests DEF HasNext
    <3>3. ASSUME NEW i \in DOMAIN List(c) PROVE found[i] \in Value
      BY <2>1, <2>6, <3>1, <3>2, Requests, AppendProperties, ElementOfSeq, LenProperties
         DEF TypeOK
    <3>4. ASSUME NEW i \in DOMAIN List(c)
          PROVE  NewEvent(c, "deleted", List(c)[i].id, found[i], 1) \in Event
      <4>1. List(c)[i].id \in Id
        BY <2>1, Requests DEF Item
      <4>2. QED
        BY <3>3, <4>1, NewEvents, Kinds
    <3>5. events \subseteq Event
      BY <3>4
    <3>6. QED
      BY <1>15, <2>3, <2>6, <3>5 DEF FindRemoved, TypeOK, Publish, Goto, Place
  <2>7. QED
    BY <2>4, <2>5, <2>6
<1>16. ASSUME NEW c \in Command, Announce(c) PROVE TypeOK'
  <2>1. topic' \in [Kind -> Seq(Event)]
    <3>1. StatusKind \subseteq Kind /\ topic \in [Kind -> Seq(Event)]
      BY DEF Kind, TypeOK
    <3>2. QED
      BY <1>16, <3>1, Announcements, Appended
  <2>2. QED
    BY <1>16, <2>1 DEF Announce, TypeOK, Goto, Place
<1>17. ASSUME NEW c \in Command, Fail(c) PROVE TypeOK'
  BY <1>17 DEF TypeOK, Fail, Goto, Place
<1>18. ASSUME NEW e \in local \union echoes, Apply(e) PROVE TypeOK'
  <2>1. Projected(e) \in [Id -> Value \union {Absent}]
    BY DEF TypeOK, Event, Projected
  <2>2. QED
    BY <1>18, <2>1 DEF Apply, TypeOK
<1>19. ASSUME NEW e \in local \union echoes, ApplyFails(e) PROVE TypeOK'
  BY <1>19 DEF ApplyFails, TypeOK
<1>20. ASSUME NEW e \in sending, Send(e) PROVE TypeOK'
  <2>1. topic' \in [Kind -> Seq(Event)]
    BY <1>20, Appended DEF Send, TypeOK, Event
  <2>2. QED
    BY <1>20, <2>1 DEF Send, TypeOK
<1>21. ASSUME NEW e \in sending, SendFails(e) PROVE TypeOK'
  BY <1>21 DEF SendFails, TypeOK
<1>22. ASSUME NEW k \in Kind, Route(k) PROVE TypeOK'
  <2>1. Upcoming(k) \in Event /\ consumed' \in [Kind -> Nat]
    BY <1>22, TopicEvents DEF Route, Pending, Upcoming, Consume, TypeOK
  <2>2. <<k, Upcoming(k).id>> \in Kind \X Id
    BY <2>1 DEF Event
  <2>3. QED
    BY <1>22, <2>1, <2>2 DEF Route, TypeOK
<1>23. ASSUME NEW k \in Kind, Replay(k) PROVE TypeOK'
  <2>1. topic[k][replayed[k] + 1] \in Event /\ replayed' \in [Kind -> Nat]
    BY <1>23, TopicEvents DEF Replay, TypeOK
  <2>2. QED
    BY <1>23, <2>1 DEF Replay, TypeOK
<1>24. CASE StartReplay
  BY <1>24 DEF StartReplay, TypeOK
<1>25. CASE Crash
  <2>1. stage' \in [Command -> Place]
    BY <1>25 DEF Crash, TypeOK, Place
  <2>2. incidents' \in Nat
    BY <1>25 DEF Crash, TypeOK
  <2>3. PICK from \in Resumptions :
           /\ consumed' = from
           /\ raced' = (raced \/ \E e \in ReadAgain(from) : Projected(e) # rows)
    BY <1>25 DEF Crash
  <2>4. consumed' \in [Kind -> Nat]
    <3>1. \A k \in Kind : from[k] \in Nat
      BY TopicEvents DEF Resumptions, TypeOK
    <3>2. from = [k \in Kind |-> from[k]]
      BY DEF Resumptions
    <3>3. QED
      BY <2>3, <3>1, <3>2
  <2>5. raced' \in BOOLEAN
    BY <2>3, Zenon DEF TypeOK
  <2>6. QED
    BY <1>25, <2>1, <2>2, <2>4, <2>5 DEF Crash, TypeOK
<1>26. ASSUME NEW c \in Command, Continue(c) PROVE TypeOK'
  BY <1>2, <1>3, <1>4, <1>6, <1>7, <1>8, <1>10, <1>11, <1>12, <1>13, <1>14, <1>15,
     <1>16, <1>26 DEF Continue
<1>27. CASE Kafka
  BY <1>20, <1>21, <1>22, <1>23, <1>24, <1>27 DEF Kafka, Settle
<1>28. QED
  BY <1>0, <1>1, <1>17, <1>18, <1>19, <1>25, <1>26, <1>27 DEF Next

-----------------------------------------------------------------------------

\* A step of a command leaves the other commands where they are.
LEMMA OthersStay ==
    ASSUME TypeOK, NEW c \in Command,
           Request(c) \/ TurnAway(c) \/ Continue(c) \/ Fail(c)
    PROVE  /\ ask' = ask
           /\ \A d \in Command \ {c} :
                 /\ stage'[d] = stage[d] /\ reads'[d] = reads[d] /\ item'[d] = item[d]
                 /\ wrote'[d] = wrote[d]
<1> USE DEF Goto, TypeOK, Author, history
<1>1. CASE Request(c) \/ TurnAway(c)
  BY <1>1 DEF Request, TurnAway, Enter
<1>2. CASE Check(c) \/ LoadForUpdate(c) \/ LoadForDelete(c)
  BY <1>2 DEF Check, LoadForUpdate, LoadForDelete
<1>3. CASE SaveOne(c) \/ SaveAll(c)
  BY <1>3 DEF SaveOne, SaveAll
<1>4. CASE Overwrite(c)
  BY <1>4 DEF Overwrite
<1>5. CASE Reload(c)
  BY <1>5 DEF Reload, NextItem
<1>6. CASE PublishAgain(c)
  BY <1>6 DEF PublishAgain, NextItem
<1>7. CASE Find(c) \/ Remove(c) \/ RemoveAll(c)
  BY <1>7 DEF Find, Remove, RemoveAll
<1>8. CASE FindRemoved(c)
  BY <1>8 DEF FindRemoved
<1>9. CASE Announce(c) \/ Fail(c)
  BY <1>9 DEF Announce, Fail
<1>10. QED
  BY <1>1, <1>2, <1>3, <1>4, <1>5, <1>6, <1>7, <1>8, <1>9 DEF Continue

\* So do the projections and Kafka; with the process every command is lost that
\* was going on.
LEMMA CommandsStay ==
    ASSUME TypeOK,
           \/ UNCHANGED vars
           \/ \E e \in local \union echoes : Apply(e) \/ ApplyFails(e)
           \/ Kafka
           \/ Crash
    PROVE  /\ UNCHANGED <<ask, reads, item, wrote>>
           /\ \A c \in Command :
                 \/ stage'[c] = stage[c]
                 \/ stage[c] \notin Over \union {"waiting"} /\ stage'[c] = "lost"
<1> USE DEF vars, commandState, history
<1>1. CASE Crash
  BY <1>1 DEF Crash
<1>2. CASE ~Crash
  BY <1>2 DEF Apply, ApplyFails, Kafka, Settle, Send, SendFails, Route, Replay, StartReplay
<1>3. QED
  BY <1>1, <1>2

\* A command that reads nothing and stays where it is, or comes to its end, is somewhere
\* it can be.
LEMMA PlaceStays ==
    ASSUME NEW c, AtPlace(c), ask' = ask, reads'[c] = reads[c], item'[c] = item[c],
           \/ stage'[c] = stage[c]
           \/ stage[c] # "waiting" /\ stage'[c] \in {"lost", "refused"}
    PROVE  AtPlace(c)'
BY DEF AtPlace, List, Op

\* Every step leaves the commands where they can be.
LEMMA PlacedStep ==
    ASSUME WellPosed, TypeOK, Placed, [Next]_vars
    PROVE  Placed'
<1> USE DEF Goto, At
<1>1. ASSUME NEW c \in Command, Request(c) \/ TurnAway(c) \/ Continue(c) \/ Fail(c)
      PROVE  Placed'
  <2>1. ask' = ask /\ List(c)' = List(c) /\ Op(c)' = Op(c)
    BY <1>1, OthersStay DEF List, Op
  <2>2. AtPlace(c) /\ stage \in [Command -> Place] /\ stage[c] \in Place
    BY DEF Placed, TypeOK
  <2>3. ASSUME stage[c] # "waiting"
        PROVE  /\ IsRequest(ask[c]) /\ item[c] \in 1 .. Len(List(c)) /\ item[c] \in Nat
               /\ DOMAIN List(c) = 1 .. Len(List(c)) /\ Len(List(c)) \in Nat
               /\ Op(c) \in Single \union Bulk
    BY <2>3, AtWorkNow, Requests
  <2>4. reads \in [Command -> Seq(Value \union {Absent})] /\ item \in [Command -> Nat \ {0}]
        /\ Len(reads[c]) \in Nat /\ DOMAIN reads[c] = 1 .. Len(reads[c])
    BY RowsRead DEF TypeOK
  <2>5. ASSUME Request(c) \/ TurnAway(c) PROVE AtPlace(c)'
    <3>1. IsRequest(ask[c])
      BY <2>5 DEF Request, TurnAway, Enter, TypeOK, WellPosed
    <3>2. QED
      BY <2>1, <2>2, <2>5, <3>1 DEF Request, TurnAway, Enter, AtPlace
  <2>6. ASSUME Check(c) PROVE AtPlace(c)'
    BY <2>1, <2>2, <2>3, <2>6 DEF Check, AtPlace, Single, Bulk
  <2>7. ASSUME LoadForUpdate(c) PROVE AtPlace(c)'
    BY <2>1, <2>2, <2>3, <2>4, <2>7 DEF LoadForUpdate, AtPlace
  <2>8. ASSUME LoadForDelete(c) PROVE AtPlace(c)'
    BY <2>1, <2>2, <2>3, <2>8 DEF LoadForDelete, AtPlace
  <2>9. ASSUME SaveOne(c) PROVE AtPlace(c)'
    BY <2>1, <2>2, <2>3, <2>9 DEF SaveOne, AtPlace
  <2>10. ASSUME SaveAll(c) PROVE AtPlace(c)'
    BY <2>1, <2>2, <2>3, <2>10 DEF SaveAll, AtPlace
  <2>11. ASSUME Overwrite(c) PROVE AtPlace(c)'
    BY <2>1, <2>2, <2>3, <2>11 DEF Overwrite, AtPlace
  <2>12. ASSUME Reload(c) PROVE AtPlace(c)'
    BY <2>1, <2>2, <2>3, <2>4, <2>12 DEF Reload, AtPlace, NextItem, HasNext
  <2>13. ASSUME PublishAgain(c) PROVE AtPlace(c)'
    BY <2>1, <2>2, <2>3, <2>4, <2>13 DEF PublishAgain, AtPlace, NextItem, HasNext
  <2>14. ASSUME Find(c) PROVE AtPlace(c)'
    BY <2>1, <2>2, <2>3, <2>4, <2>14 DEF Find, AtPlace
  <2>15. ASSUME Remove(c) PROVE AtPlace(c)'
    BY <2>1, <2>2, <2>3, <2>15 DEF Remove, AtPlace
  <2>16. ASSUME RemoveAll(c) PROVE AtPlace(c)'
    BY <2>1, <2>2, <2>3, <2>4, <2>16 DEF RemoveAll, AtPlace
  <2>17. ASSUME FindRemoved(c) PROVE AtPlace(c)'
    BY <2>1, <2>2, <2>3, <2>4, <2>17 DEF FindRemoved, AtPlace, HasNext
  <2>18. ASSUME Announce(c) PROVE AtPlace(c)'
    BY <2>1, <2>2, <2>3, <2>18 DEF Announce, AtPlace
  <2>19. ASSUME Fail(c) PROVE AtPlace(c)'
    BY <2>1, <2>2, <2>3, <2>19, PlaceStays DEF Fail
  <2>20. AtPlace(c)'
    BY <1>1, <2>5, <2>6, <2>7, <2>8, <2>9, <2>10, <2>11, <2>12, <2>13, <2>14, <2>15,
       <2>16, <2>17, <2>18, <2>19 DEF Continue
  <2>21. ASSUME NEW d \in Command \ {c} PROVE AtPlace(d)'
    BY <1>1, OthersStay, PlaceStays DEF Placed
  <2>22. QED
    BY <2>20, <2>21 DEF Placed
<1>2. CASE \/ UNCHANGED vars
           \/ \E e \in local \union echoes : Apply(e) \/ ApplyFails(e)
           \/ Kafka
           \/ Crash
  BY <1>2, CommandsStay, PlaceStays DEF Placed
<1>3. QED
  BY <1>1, <1>2 DEF Next

-----------------------------------------------------------------------------
(* What is announced stays so, and what is grounded.                       *)

\* A topic only grows, when a service announces or the producer sends; what a command
\* wrote stays written, and what is with the publisher stays announced when it is lost.
LEMMA TopicsGrow ==
    ASSUME WellPosed, TypeOK, Placed, [Next]_vars
    PROVE  /\ InTopics \subseteq InTopics' /\ authored \subseteq authored'
           /\ Announced \subseteq Announced'
           /\ \/ UNCHANGED topic
              \/ \E c \in Command : Announce(c)
              \/ \E e \in sending : Send(e)
<1> USE DEF vars, busState, history, replayState, commandState
<1>1. CASE \E c \in Command : Announce(c)
  <2>1. PICK c \in Command : Announce(c)
    BY <1>1
  <2>2. InTopics \subseteq InTopics'
    <3>1. UNCHANGED topic => InTopics' = InTopics
      BY DEF InTopics
    <3>2. QED
      BY <2>1, <3>1, Announcements
  <2>3. QED
    BY <1>1, <2>1, <2>2 DEF Announce, Announced
<1>2. CASE \E e \in sending : Send(e)
  <2>1. PICK e \in sending : Send(e)
    BY <1>2
  <2>2. InTopics' = InTopics \union {e}
    BY <2>1, Appended DEF Send, TypeOK, Event
  <2>3. QED
    BY <2>1, <2>2 DEF Send, Announced
<1>3. CASE ~(\E c \in Command : Announce(c)) /\ ~(\E e \in sending : Send(e))
  <2>1. /\ UNCHANGED topic /\ authored \subseteq authored'
        /\ lost \subseteq lost' /\ sending \subseteq sending' \union lost'
    <3> USE DEF Publish, Author
    <3>1. CASE UNCHANGED vars
      BY <3>1
    <3>2. ASSUME NEW c \in Command, Request(c) \/ TurnAway(c) \/ Fail(c)
          PROVE  UNCHANGED <<topic, authored, lost, sending>>
      BY <3>2 DEF Request, TurnAway, Enter, Fail
    <3>3. ASSUME NEW c \in Command, Check(c) \/ LoadForUpdate(c) \/ LoadForDelete(c)
          PROVE  UNCHANGED <<topic, authored, lost, sending>>
      BY <3>3 DEF Check, LoadForUpdate, LoadForDelete
    <3>4. ASSUME NEW c \in Command, SaveOne(c) \/ SaveAll(c) \/ Overwrite(c)
          PROVE  UNCHANGED <<topic, lost>> /\ authored \subseteq authored'
                 /\ sending \subseteq sending'
      BY <3>4 DEF SaveOne, SaveAll, Overwrite
    <3>5. ASSUME NEW c \in Command, Reload(c) \/ PublishAgain(c)
          PROVE  UNCHANGED <<topic, lost, authored>> /\ sending \subseteq sending'
      BY <3>5 DEF Reload, PublishAgain
    <3>6. ASSUME NEW c \in Command, Find(c) \/ Remove(c) \/ RemoveAll(c)
          PROVE  UNCHANGED <<topic, lost>> /\ authored \subseteq authored'
                 /\ sending \subseteq sending'
      BY <3>6 DEF Find, Remove, RemoveAll
    <3>7. ASSUME NEW c \in Command, FindRemoved(c)
          PROVE  UNCHANGED <<topic, lost, authored>> /\ sending \subseteq sending'
      BY <3>7 DEF FindRemoved
    <3>8. ASSUME NEW e \in local \union echoes, Apply(e) \/ ApplyFails(e)
          PROVE  UNCHANGED <<topic, authored, lost, sending>>
      BY <3>8 DEF Apply, ApplyFails
    <3>9. ASSUME NEW e \in sending, SendFails(e)
          PROVE  /\ UNCHANGED <<topic, authored>> /\ lost \subseteq lost'
                 /\ sending \subseteq sending' \union lost'
      BY <3>9 DEF SendFails
    <3>10. ASSUME NEW k \in Kind, Route(k) \/ Replay(k)
           PROVE  UNCHANGED <<topic, authored, lost, sending>>
      BY <3>10 DEF Route, Replay
    <3>11. CASE StartReplay \/ Crash
      BY <3>11 DEF StartReplay, Crash
    <3>12. QED
      BY <1>3, <3>1, <3>2, <3>3, <3>4, <3>5, <3>6, <3>7, <3>8, <3>9, <3>10, <3>11
         DEF Next, Continue, Kafka, Settle
  <2>2. InTopics' = InTopics
    BY <2>1 DEF InTopics
  <2>3. QED
    BY <2>1, <2>2 DEF Announced
<1>4. QED
  BY <1>1, <1>2, <1>3

\* So what is sound stays so.
LEMMA SoundGrows ==
    ASSUME WellPosed, TypeOK, Placed, [Next]_vars
    PROVE  Sound \subseteq Sound' /\ Unfounded \subseteq Unfounded'
BY TopicsGrow DEF Sound, Unfounded

-----------------------------------------------------------------------------
(* The rows, what is read of them, and the events.                         *)

\* RowsGrounded is inductive only together with what is on its way to the rows.
Grounded == RowsGrounded /\ ReadsGrounded /\ EventsGrounded

\* What a command writes is sound.
LEMMA Authored ==
    ASSUME RowsGrounded, Sound \subseteq Sound', NEW c \in Command, NEW ids \in SUBSET Id,
           NEW table \in [Id -> Value \union {Absent}], Author(c, ids, table),
           \A id \in Id \ ids : table[id] = rows[id]
    PROVE  /\ RowsGrounded'
           /\ \A id \in ids : table[id] # Absent => <<id, table[id]>> \in Sound'
<1>1. \A id \in ids : table[id] # Absent => <<id, table[id]>> \in authored'
  BY DEF Author
<1>2. QED
  BY <1>1 DEF RowsGrounded, Sound, Author

\* The commands write what is sound, and the projections what the events carry.
LEMMA RowsStep ==
    ASSUME WellPosed, TypeOK, Placed, Grounded, [Next]_vars
    PROVE  RowsGrounded'
<1> USE DEF vars
<1>1. Sound \subseteq Sound'
  BY SoundGrows
<1>2. ASSUME UNCHANGED rows PROVE RowsGrounded'
  BY <1>1, <1>2 DEF Grounded, RowsGrounded, Sound
<1>3. ASSUME NEW c \in Command, NEW ids \in SUBSET Id,
             NEW table \in [Id -> Value \union {Absent}], Author(c, ids, table),
             \A id \in Id \ ids : table[id] = rows[id]
      PROVE  RowsGrounded'
  BY <1>1, <1>3, Authored DEF Grounded
<1>4. TypeOK'
  BY TypeStep
<1>5. ASSUME NEW c \in Command, SaveOne(c) PROVE RowsGrounded'
  <2>1. Now(c).id \in Id
    BY <1>5, AtWorkNow DEF SaveOne, At
  <2>2. \/ UNCHANGED rows
        \/ /\ Author(c, {Now(c).id}, rows')
           /\ rows' = [rows EXCEPT ![Now(c).id] = Given(Now(c).value, Default)]
    BY <1>5 DEF SaveOne, Author
  <2>3. QED
    BY <1>2, <1>3, <1>4, <2>1, <2>2 DEF TypeOK
<1>6. ASSUME NEW c \in Command, SaveAll(c) PROVE RowsGrounded'
  <2>1. Ids(c) \subseteq Id
    BY <1>6, AtWorkNow, Requests DEF SaveAll, At
  <2>2. \/ UNCHANGED rows
        \/ Author(c, Ids(c), rows') /\ \A id \in Id \ Ids(c) : rows'[id] = rows[id]
    BY <1>6 DEF SaveAll, Author
  <2>3. QED
    BY <1>2, <1>3, <1>4, <2>1, <2>2 DEF TypeOK
<1>7. ASSUME NEW c \in Command, Overwrite(c) PROVE RowsGrounded'
  <2>1. Now(c).id \in Id /\ rows \in [Id -> Value \union {Absent}]
    BY <1>7, AtWorkNow DEF Overwrite, At, TypeOK
  <2>2. \/ UNCHANGED rows
        \/ Author(c, {Now(c).id}, rows')
           /\ \A id \in Id \ {Now(c).id} : rows'[id] = rows[id]
    BY <1>7, <2>1 DEF Overwrite, Author
  <2>3. QED
    BY <1>2, <1>3, <1>4, <2>1, <2>2 DEF TypeOK
<1>8. ASSUME NEW c \in Command, Remove(c) PROVE RowsGrounded'
  <2>1. Now(c).id \in Id /\ rows \in [Id -> Value \union {Absent}]
    BY <1>8, AtWorkNow DEF Remove, At, TypeOK
  <2>2. /\ Author(c, {Now(c).id}, rows')
        /\ \A id \in Id \ {Now(c).id} : rows'[id] = rows[id]
    BY <1>8, <2>1 DEF Remove, Author
  <2>3. QED
    BY <1>3, <1>4, <2>1, <2>2 DEF TypeOK
<1>9. ASSUME NEW c \in Command, RemoveAll(c) PROVE RowsGrounded'
  <2>1. Ids(c) \subseteq Id
    BY <1>9, AtWorkNow, Requests DEF RemoveAll, At
  <2>2. Author(c, Ids(c), rows') /\ \A id \in Id \ Ids(c) : rows'[id] = rows[id]
    BY <1>9 DEF RemoveAll, Author
  <2>3. QED
    BY <1>3, <1>4, <2>1, <2>2 DEF TypeOK
<1>10. ASSUME NEW e \in local \union echoes, Apply(e) PROVE RowsGrounded'
  <2>1. e \in Event /\ <<e.id, e.value>> \in Sound'
    BY <1>1 DEF Grounded, EventsGrounded, TypeOK
  <2>2. \A id \in Id :
           \/ rows'[id] \in {rows[id], Absent}
           \/ id = e.id /\ rows'[id] = e.value
    BY <1>10, <2>1 DEF Apply, Projected, TypeOK
  <2>3. QED
    BY <1>1, <2>1, <2>2 DEF Grounded, RowsGrounded, Sound
<1>11. ASSUME NEW c \in Command, Continue(c) PROVE RowsGrounded'
  <2>1. CASE \/ Check(c) \/ LoadForUpdate(c) \/ LoadForDelete(c) \/ Reload(c)
             \/ PublishAgain(c) \/ Find(c) \/ FindRemoved(c) \/ Announce(c)
    BY <1>2, <2>1 DEF Check, LoadForUpdate, LoadForDelete, Reload, PublishAgain, Find,
       FindRemoved, Announce
  <2>2. QED
    BY <1>5, <1>6, <1>7, <1>8, <1>9, <1>11, <2>1 DEF Continue
<1>12. ASSUME NEW c \in Command, Request(c) \/ TurnAway(c) \/ Fail(c)
       PROVE  RowsGrounded'
  BY <1>2, <1>12 DEF Request, TurnAway, Enter, Fail
<1>13. ASSUME NEW e \in local \union echoes, ApplyFails(e) PROVE RowsGrounded'
  BY <1>2, <1>13 DEF ApplyFails
<1>14. CASE Kafka \/ Crash \/ UNCHANGED vars
  BY <1>2, <1>14 DEF Kafka, Settle, Send, SendFails, Route, Replay, StartReplay, Crash
<1>15. QED
  BY <1>10, <1>11, <1>12, <1>13, <1>14 DEF Next

\* A read finds a row of the table.
LEMMA ReadsStep ==
    ASSUME WellPosed, TypeOK, Placed, Grounded, [Next]_vars
    PROVE  ReadsGrounded'
<1>1. Sound \subseteq Sound'
  BY SoundGrows
<1>2. ASSUME NEW d \in Command, ask' = ask, reads'[d] = reads[d],
             NEW i \in DOMAIN reads'[d], reads'[d][i] # Absent
      PROVE  <<ReadId(d, i)', reads'[d][i]>> \in Sound'
  BY <1>1, <1>2 DEF Grounded, ReadsGrounded, ReadId, Op, List
\* A command reads the row it is about.
<1>3. ASSUME NEW c \in Command, stage[c] # "waiting", ask' = ask,
             \/ reads'[c] = <<rows[Now(c).id]>> /\ item[c] = 1
             \/ /\ reads'[c] = Append(reads[c], rows[Now(c).id])
                /\ Op(c) \in Single \/ item[c] = Len(reads[c]) + 1,
             NEW i \in DOMAIN reads'[c], reads'[c][i] # Absent
      PROVE  <<ReadId(c, i)', reads'[c][i]>> \in Sound'
  <2>1. /\ Now(c) = List(c)[item[c]] /\ Now(c).id \in Id
        /\ Op(c) \in Single => item[c] = 1
    BY <1>3, AtWorkNow, Requests
  <2>2. rows[Now(c).id] # Absent => <<Now(c).id, rows[Now(c).id]>> \in Sound'
    BY <1>1, <2>1 DEF Grounded, RowsGrounded, Sound
  <2>3. /\ ReadId(c, i)' = ReadId(c, i)
        /\ reads[c] \in Seq(Value \union {Absent}) /\ Len(reads[c]) \in Nat
        /\ DOMAIN reads[c] = 1 .. Len(reads[c])
    BY <1>3, RowsRead DEF ReadId, Op, List, TypeOK
  <2>4. CASE reads'[c] = <<rows[Now(c).id]>> /\ item[c] = 1
    BY <1>3, <2>1, <2>2, <2>3, <2>4 DEF ReadId
  <2>5. CASE /\ reads'[c] = Append(reads[c], rows[Now(c).id])
             /\ Op(c) \in Single \/ item[c] = Len(reads[c]) + 1
    <3>1. CASE i \in 1 .. Len(reads[c])
      <4>1. reads'[c][i] = reads[c][i]
        BY <2>3, <2>5, <3>1
      <4>2. QED
        BY <1>1, <1>3, <2>3, <3>1, <4>1 DEF Grounded, ReadsGrounded
    <3>2. CASE i = Len(reads[c]) + 1
      <4>1. reads'[c][i] = rows[Now(c).id]
        BY <2>3, <2>5, <3>2
      <4>2. ReadId(c, i) = Now(c).id
        BY <2>1, <2>5, <3>2 DEF ReadId
      <4>3. QED
        BY <1>3, <2>2, <2>3, <4>1, <4>2
    <3>3. i \in 1 .. Len(reads[c]) + 1
      BY <1>3, <2>3, <2>5, AppendProperties
    <3>4. QED
      BY <2>3, <3>1, <3>2, <3>3
  <2>6. QED
    BY <1>3, <2>4, <2>5
<1>4. ASSUME NEW c \in Command, Request(c) \/ TurnAway(c) \/ Continue(c) \/ Fail(c)
      PROVE  ReadsGrounded'
  <2>1. /\ ask' = ask
        /\ \A d \in Command \ {c} : reads'[d] = reads[d]
    BY <1>4, OthersStay
  <2>2. /\ AtPlace(c) /\ c \in DOMAIN reads /\ item[c] \in Nat /\ Len(reads[c]) \in Nat
        /\ stage[c] # "waiting" =>
              Op(c) \in Single \union Bulk /\ (Op(c) \in Single => item[c] = 1)
    BY AtWorkNow, Requests, RowsRead DEF Placed, TypeOK
  <2>3. CASE LoadForUpdate(c) \/ Find(c)
    <3>1. /\ stage[c] # "waiting" /\ reads'[c] = <<rows[Now(c).id]>>
          /\ Op(c) \in Single
      BY <2>2, <2>3 DEF LoadForUpdate, Find, At, Single
    <3>2. QED
      BY <1>2, <1>3, <2>1, <2>2, <3>1 DEF ReadsGrounded
  <2>4. CASE Reload(c) \/ FindRemoved(c)
    <3>1. /\ stage[c] # "waiting" /\ reads'[c] = Append(reads[c], rows[Now(c).id])
          /\ Op(c) \in Single \/ item[c] = Len(reads[c]) + 1
      BY <2>2, <2>4 DEF Reload, FindRemoved, At, Single, AtPlace
    <3>2. QED
      BY <1>2, <1>3, <2>1, <2>2, <3>1 DEF ReadsGrounded
  <2>5. CASE ~(LoadForUpdate(c) \/ Find(c) \/ Reload(c) \/ FindRemoved(c))
    <3>1. reads' = reads
      BY <1>4, <2>5 DEF Continue, Request, TurnAway, Enter, Check, LoadForDelete, SaveOne,
         SaveAll, Overwrite, PublishAgain, Remove, RemoveAll, Announce, Fail
    <3>2. QED
      BY <1>2, <2>1, <3>1 DEF ReadsGrounded
  <2>6. QED
    BY <2>3, <2>4, <2>5
<1>5. CASE \/ UNCHANGED vars
           \/ \E e \in local \union echoes : Apply(e) \/ ApplyFails(e)
           \/ Kafka
           \/ Crash
  BY <1>2, <1>5, CommandsStay DEF ReadsGrounded
<1>6. QED
  BY <1>4, <1>5 DEF Next

\* When bulkDelete looks for its last entity, it has found all the others.
LEMMA LastFound ==
    ASSUME TypeOK, Placed, NEW c \in Command, FindRemoved(c), ~HasNext(c)
    PROVE  Len(reads[c]) + 1 = Len(List(c))
<1>1. stage[c] = "find" /\ Op(c) = "bulkDelete"
  BY DEF FindRemoved, At
<1>2. Len(reads[c]) = item[c] - 1
  BY <1>1 DEF Placed, AtPlace
<1>3. item[c] \in 1 .. Len(List(c)) /\ IsRequest(ask[c])
  BY <1>1, AtWorkNow
<1>4. Len(List(c)) \in Nat
  BY <1>3, Requests
<1>5. QED
  BY <1>2, <1>3, <1>4 DEF HasNext

\* The events carry what their command wrote or read, and a replay what lies in a topic.
LEMMA EventsStep ==
    ASSUME WellPosed, TypeOK, Placed, Grounded, [Next]_vars
    PROVE  EventsGrounded'
<1> USE DEF vars, busState, At
<1>1. /\ Sound \subseteq Sound' /\ InTopics \subseteq Event
      /\ \A e \in local \union sending \union echoes \union InTopics :
            <<e.id, e.value>> \in Sound'
  BY SoundGrows, TopicEvents DEF Grounded, EventsGrounded
<1>2. UNCHANGED topic => InTopics' = InTopics
  BY DEF InTopics
<1>3. ASSUME UNCHANGED busState PROVE EventsGrounded'
  BY <1>1, <1>2, <1>3 DEF EventsGrounded
<1>4. ASSUME NEW events, Publish(events), \A e \in events : <<e.id, e.value>> \in Sound'
      PROVE  EventsGrounded'
  BY <1>1, <1>2, <1>4 DEF EventsGrounded, Publish
<1>5. ASSUME NEW c, NEW kind, NEW id, NEW value, NEW copy
      PROVE  /\ NewEvent(c, kind, id, value, copy).id = id
             /\ NewEvent(c, kind, id, value, copy).value = value
  BY DEF NewEvent
<1>6. ASSUME NEW c \in Command, NEW i \in DOMAIN reads[c], reads[c][i] # Absent
      PROVE  <<ReadId(c, i), reads[c][i]>> \in Sound'
  BY <1>1, <1>6 DEF Grounded, ReadsGrounded
<1>7. ASSUME NEW c \in Command, SaveOne(c) PROVE EventsGrounded'
  <2> DEFINE id == Now(c).id  value == Given(Now(c).value, Default)
             table == [rows EXCEPT ![id] = value]
  <2>1. CASE Insertable(id, Now(c).value)
    <3>1. id \in Id /\ Now(c).value \in Value \union {NotGiven}
      BY <1>7, AtWorkNow DEF SaveOne
    <3>2. value \in Value /\ table \in [Id -> Value \union {Absent}] /\ table[id] = value
      BY <2>1, <3>1 DEF Insertable, Given, WellPosed, TypeOK
    <3>3. Author(c, {id}, table) /\ Publish({NewEvent(c, "created", id, value, 1)})
      BY <1>7, <2>1 DEF SaveOne
    <3>4. <<id, value>> \in Sound'
      BY <3>1, <3>2, <3>3 DEF Author, Sound
    <3>5. QED
      BY <1>4, <1>5, <3>3, <3>4
  <2>2. CASE ~Insertable(id, Now(c).value)
    BY <1>3, <1>7, <2>2 DEF SaveOne
  <2>3. QED
    BY <2>1, <2>2
<1>8. ASSUME NEW c \in Command, SaveAll(c) PROVE EventsGrounded'
  <2> DEFINE new == [id \in Ids(c) |->
                       Given((CHOOSE i \in Items(c) : i.id = id).value, Default)]
             table == [id \in Id |-> IF id \in Ids(c) THEN new[id] ELSE rows[id]]
             fits == /\ \A i \in Items(c) : Insertable(i.id, i.value)
                     /\ Unique => \A i, j \in Ids(c) : new[i] = new[j] => i = j
  <2>1. CASE fits
    <3>1. Ids(c) \subseteq Id /\ TypeOK'
      BY <1>8, AtWorkNow, Requests, TypeStep DEF SaveAll
    <3>2. /\ Author(c, Ids(c), table)
          /\ Publish({NewEvent(c, "created", id, new[id], 1) : id \in Ids(c)})
      BY <1>8, <2>1 DEF SaveAll
    <3> HIDE DEF new
    <3>3. ASSUME NEW id \in Ids(c) PROVE <<id, new[id]>> \in Sound'
      <4>1. NewEvent(c, "created", id, new[id], 1) \in local'
        BY <3>2 DEF Publish
      <4>2. new[id] \in Value /\ table[id] = new[id]
        BY <3>1, <4>1 DEF TypeOK, NewEvent, Event
      <4>3. QED
        BY <3>1, <3>2, <4>2 DEF Author, Sound
    <3>4. QED
      BY <1>4, <1>5, <3>2, <3>3
  <2>2. CASE ~fits
    BY <1>3, <1>8, <2>2 DEF SaveAll
  <2>3. QED
    BY <2>1, <2>2
<1>9. ASSUME NEW c \in Command, Reload(c) PROVE EventsGrounded'
  <2> DEFINE row == rows[Now(c).id]
  <2>1. row # Absent => <<Now(c).id, row>> \in Sound'
    BY <1>1, <1>9, AtWorkNow DEF Reload, Grounded, RowsGrounded, Sound
  <2>2. \/ UNCHANGED busState
        \/ row # Absent /\ Publish({NewEvent(c, "updated", Now(c).id, row, 1)})
    BY <1>9 DEF Reload
  <2>3. QED
    BY <1>3, <1>4, <1>5, <2>1, <2>2
<1>10. ASSUME NEW c \in Command, PublishAgain(c) PROVE EventsGrounded'
  <2> DEFINE row == reads[c][Len(reads[c])]
             second == NewEvent(c, "updated", Now(c).id, row, 2)
  <2>1. /\ Op(c) = "bulkUpdate" /\ Len(reads[c]) = item[c] /\ reads[c][item[c]] # Absent
        /\ item[c] \in DOMAIN reads[c] /\ Now(c) = List(c)[item[c]]
    BY <1>10, AtWorkNow, RowsRead DEF PublishAgain, Placed, AtPlace
  <2>2. <<second.id, second.value>> \in Sound'
    BY <1>5, <1>6, <2>1 DEF ReadId, Single
  <2>3. QED
    BY <1>1, <1>2, <1>10, <2>2 DEF PublishAgain, EventsGrounded
<1>11. ASSUME NEW c \in Command, Remove(c) PROVE EventsGrounded'
  <2>1. /\ Op(c) = "delete" /\ Len(reads[c]) = 1 /\ reads[c][1] # Absent
        /\ Now(c) = List(c)[item[c]] /\ item[c] = 1 /\ 1 \in DOMAIN reads[c]
    BY <1>11, AtWorkNow, Requests, RowsRead DEF Remove, Placed, AtPlace, Single
  <2>2. <<Now(c).id, reads[c][1]>> \in Sound'
    BY <1>6, <2>1 DEF ReadId
  <2>3. QED
    BY <1>4, <1>5, <1>11, <2>2 DEF Remove
<1>12. ASSUME NEW c \in Command, FindRemoved(c) PROVE EventsGrounded'
  <2> DEFINE row == rows[Now(c).id]  found == Append(reads[c], row)
  <2>1. CASE UNCHANGED busState
    BY <1>3, <2>1
  <2>2. CASE /\ row # Absent /\ ~HasNext(c)
             /\ Publish({NewEvent(c, "deleted", List(c)[i].id, found[i], 1) :
                           i \in DOMAIN List(c)})
    <3>1. /\ Op(c) = "bulkDelete" /\ Len(reads[c]) = item[c] - 1
          /\ item[c] = Len(List(c)) /\ DOMAIN List(c) = 1 .. Len(List(c))
          /\ item[c] \in Nat /\ List(c) \in Seq(Item) /\ Len(List(c)) \in Nat
      BY <1>12, <2>2, AtWorkNow, Requests DEF FindRemoved, HasNext, Placed, AtPlace
    <3>2. ReadsGrounded' /\ ask' = ask /\ reads'[c] = found
      BY <1>12, ReadsStep DEF FindRemoved, TypeOK
    <3>3. /\ reads[c] \in Seq(Value \union {Absent}) /\ Len(reads[c]) \in Nat
          /\ row \in Value \union {Absent}
      BY <1>12, AtWorkNow, RowsRead DEF FindRemoved, TypeOK
    <3>4. Len(reads[c]) + 1 = Len(List(c))
      BY <1>12, <2>2, LastFound
    <3>5. DOMAIN found = DOMAIN List(c)
      <4>1. found \in Seq(Value \union {Absent}) /\ Len(found) = Len(List(c))
        BY <3>3, <3>4, AppendProperties
      <4>2. QED
        BY <3>1, <4>1, LenProperties
    <3> HIDE DEF found
    <3>6. ASSUME NEW i \in DOMAIN List(c) PROVE <<List(c)[i].id, found[i]>> \in Sound'
      <4>1. found[i] \in Value
        <5>1. NewEvent(c, "deleted", List(c)[i].id, found[i], 1) \in local'
          BY <2>2 DEF Publish
        <5>2. QED
          BY <5>1, TypeStep DEF TypeOK, NewEvent, Event
      <4>2. found[i] # Absent
        BY <4>1 DEF WellPosed
      <4>3. QED
        BY <3>1, <3>2, <3>5, <4>2 DEF ReadsGrounded, ReadId, Op, List, Single
    <3>7. QED
      BY <1>4, <1>5, <2>2, <3>6
  <2>3. QED
    BY <1>12, <2>1, <2>2 DEF FindRemoved
<1>13. ASSUME NEW c \in Command, Announce(c) PROVE EventsGrounded'
  <2> DEFINE event == AnnouncedEvent(c)
  <2>1. UNCHANGED <<local, sending, echoes>>
    BY <1>13 DEF Announce
  <2>2. CASE UNCHANGED topic
    BY <1>1, <1>2, <2>1, <2>2 DEF EventsGrounded
  <2>3. CASE event \in Event /\ InTopics' = InTopics \union {event}
    <3>1. <<event.id, event.value>> \in Sound'
      <4>1. /\ event.id = Now(c).id /\ event.value = DslValue(c)
            /\ event.whole = (reads[c] # <<Absent, Absent>>)
        BY DEF AnnouncedEvent, NewEvent
      <4>2. CASE event.whole
        <5>1. /\ Op(c) = "update" /\ Len(reads[c]) = 2 /\ item[c] = 1
              /\ Now(c) = List(c)[item[c]] /\ DOMAIN reads[c] = 1 .. 2
          BY <1>13, AtWorkNow, Requests, RowsRead DEF Announce, Placed, AtPlace, Single
        <5>2. reads[c] \in Seq(Value \union {Absent})
          BY DEF TypeOK
        <5>3. reads[c][1] # Absent \/ reads[c][2] # Absent
          <6> SUFFICES ASSUME reads[c][1] = Absent, reads[c][2] = Absent PROVE FALSE
              OBVIOUS
          <6>1. /\ <<Absent, Absent>> \in Seq(Value \union {Absent})
                /\ Len(<<Absent, Absent>>) = 2
            OBVIOUS
          <6>2. \A i \in 1 .. 2 : reads[c][i] = <<Absent, Absent>>[i]
            OBVIOUS
          <6>3. reads[c] = <<Absent, Absent>>
            BY <5>1, <5>2, <6>1, <6>2, SeqEqual
          <6>4. QED
            BY <4>1, <4>2, <6>3
        <5>4. DslValue(c) \in {reads[c][1], reads[c][2]} /\ DslValue(c) # Absent
          BY <5>3 DEF DslValue
        <5>5. QED
          BY <1>6, <4>1, <5>1, <5>4 DEF ReadId, Single
      <4>3. CASE ~event.whole
        BY <2>3, <4>3 DEF Sound, Unfounded
      <4>4. QED
        BY <4>2, <4>3
    <3>2. QED
      BY <1>1, <2>1, <2>3, <3>1 DEF EventsGrounded
  <2>4. QED
    BY <1>13, <2>2, <2>3, Announcements
<1>14. ASSUME NEW c \in Command,
              \/ Request(c) \/ TurnAway(c) \/ Fail(c) \/ Check(c) \/ LoadForUpdate(c)
              \/ LoadForDelete(c) \/ Overwrite(c) \/ Find(c) \/ RemoveAll(c)
       PROVE  EventsGrounded'
  BY <1>3, <1>14 DEF Request, TurnAway, Enter, Fail, Check, LoadForUpdate, LoadForDelete,
     Overwrite, Find, RemoveAll
<1>15. ASSUME NEW e \in local \union echoes, Apply(e) \/ ApplyFails(e)
       PROVE  EventsGrounded'
  BY <1>1, <1>2, <1>15 DEF Apply, ApplyFails, EventsGrounded
<1>16. ASSUME NEW e \in sending, Send(e) PROVE EventsGrounded'
  <2>1. InTopics' = InTopics \union {e}
    BY <1>16, Appended DEF Send, TypeOK, Event
  <2>2. QED
    BY <1>1, <1>16, <2>1 DEF Send, EventsGrounded
<1>17. ASSUME NEW e \in sending, SendFails(e) PROVE EventsGrounded'
  BY <1>1, <1>2, <1>17 DEF SendFails, EventsGrounded
<1>18. ASSUME NEW k \in Kind, Route(k) PROVE EventsGrounded'
  <2>1. Upcoming(k) \in InTopics
    BY <1>18, TopicEvents DEF Route, Pending, Upcoming, TypeOK
  <2>2. QED
    BY <1>1, <1>2, <1>18, <2>1 DEF Route, EventsGrounded
<1>19. ASSUME NEW k \in Kind, Replay(k) PROVE EventsGrounded'
  <2>1. topic[k][replayed[k] + 1] \in InTopics
    BY <1>19, TopicEvents DEF Replay, TypeOK
  <2>2. QED
    BY <1>1, <1>2, <1>19, <2>1 DEF Replay, EventsGrounded
<1>20. CASE StartReplay \/ Crash \/ UNCHANGED vars
  BY <1>1, <1>2, <1>20 DEF StartReplay, Crash, EventsGrounded
<1>21. QED
  BY <1>7, <1>8, <1>9, <1>10, <1>11, <1>12, <1>13, <1>14, <1>15, <1>16, <1>17, <1>18,
     <1>19, <1>20 DEF Next, Continue, Kafka, Settle

-----------------------------------------------------------------------------
(* What is announced of what is written.                                   *)

\* Command c has handed an event of row id to the publisher; the copy of it.
Handed(c, id) == \E e \in Announced : e.by = c /\ e.id = id
HandedCopy(c, id, copy) ==
    \E e \in Announced : e.by = c /\ e.id = id /\ e.copy = copy

\* A bulk update is done with the entities before its item, and has written no
\* row that it has not come to.
InFront(c) ==
    /\ \A i \in 1 .. item[c] - 1 : DoneWith(c, i)
    /\ stage[c] = "ok" => \A i \in DOMAIN List(c) : DoneWith(c, i)
    /\ \A id \in wrote[c] : \E k \in 1 .. item[c] : List(c)[k].id = id

\* What a command has announced by the time it is where it is.
Reported(c) ==
    /\ stage[c] = "announce" /\ reads[c][2] # Absent => Handed(c, Now(c).id)
    /\ stage[c] = "again" => HandedCopy(c, Now(c).id, 1)
    /\ stage[c] = "ok" /\ Op(c) # "bulkUpdate" => \A id \in Ids(c) : Handed(c, id)
    /\ Op(c) = "bulkUpdate" => InFront(c)

\* For every command.
AllReported == \A c \in Command : Reported(c)

\* What is announced of a command stays so.
LEMMA HandedStays ==
    ASSUME NEW c, ask' = ask, Announced \subseteq Announced'
    PROVE  /\ \A id : Handed(c, id) => Handed(c, id)'
           /\ \A id, copy : HandedCopy(c, id, copy) => HandedCopy(c, id, copy)'
           /\ \A i : DoneWith(c, i) /\ (i \in DOMAIN reads[c] =>
                           i \in DOMAIN reads'[c] /\ reads'[c][i] = reads[c][i])
                        => DoneWith(c, i)'
<1>1. List(c)' = List(c)
  BY DEF List
<1>2. QED
  BY <1>1 DEF Handed, HandedCopy, DoneWith

\* A command that others leave alone has reported what it had.
LEMMA ReportedStays ==
    ASSUME NEW c, Reported(c), ask' = ask, Announced \subseteq Announced',
           \/ reads'[c] = reads[c] /\ item'[c] = item[c] /\ wrote'[c] = wrote[c]
           \/ Op(c) # "bulkUpdate" /\ stage'[c] # stage[c],
           \/ stage'[c] = stage[c]
           \/ stage'[c] \notin {"announce", "again", "ok"}
    PROVE  Reported(c)'
<1>1. /\ List(c)' = List(c) /\ Op(c)' = Op(c) /\ Ids(c)' = Ids(c)
      /\ item'[c] = item[c] => Now(c)' = Now(c)
  BY DEF List, Op, Ids, Items, Now
<1>2. /\ \A id : Handed(c, id) => Handed(c, id)'
      /\ \A id, copy : HandedCopy(c, id, copy) => HandedCopy(c, id, copy)'
      /\ reads'[c] = reads[c] => \A i : DoneWith(c, i) => DoneWith(c, i)'
  BY HandedStays
<1>3. Op(c) = "bulkUpdate" => InFront(c)'
  BY <1>1, <1>2 DEF Reported, InFront
<1>4. QED
  BY <1>1, <1>2, <1>3 DEF Reported

\* The only row of a command that is about one.
LEMMA SingleRow ==
    ASSUME TypeOK, Placed, NEW c \in Command, stage[c] # "waiting", Op(c) \in Single
    PROVE  Ids(c) = {Now(c).id} /\ item[c] = 1
<1>1. /\ item[c] = 1 /\ Now(c) = List(c)[1] /\ DOMAIN List(c) = {1}
  BY AtWorkNow, Requests
<1>2. QED
  BY <1>1 DEF Ids, Items

\* Every step keeps the reports: a command publishes before it goes on to the next
\* entity, or to its end.
LEMMA ReportedStep ==
    ASSUME WellPosed, TypeOK, Placed, AllReported, [Next]_vars
    PROVE  AllReported'
<1> USE DEF At, Goto
<1>1. Announced \subseteq Announced'
  BY TopicsGrow
<1>2. ASSUME NEW c \in Command
      PROVE  /\ Reported(c) /\ AtPlace(c)
             /\ stage \in [Command -> Place] /\ stage[c] \in Place
             /\ wrote \in [Command -> SUBSET Id] /\ item \in [Command -> Nat \ {0}]
             /\ reads \in [Command -> Seq(Value \union {Absent})]
             /\ Len(reads[c]) \in Nat /\ DOMAIN reads[c] = 1 .. Len(reads[c])
  BY RowsRead DEF AllReported, Placed, TypeOK
<1>3. ASSUME NEW c, NEW kind, NEW id, NEW value, NEW copy
      PROVE  /\ NewEvent(c, kind, id, value, copy).id = id
             /\ NewEvent(c, kind, id, value, copy).by = c
             /\ NewEvent(c, kind, id, value, copy).copy = copy
  BY DEF NewEvent
<1>4. ASSUME NEW events, Publish(events) PROVE events \subseteq Announced'
  BY <1>4 DEF Publish, Announced
<1>5. ASSUME NEW c \in Command, SaveOne(c) PROVE Reported(c)'
  <2> DEFINE id == Now(c).id
             event == NewEvent(c, "created", id, Given(Now(c).value, Default), 1)
  <2>1. /\ ask' = ask /\ List(c)' = List(c) /\ Op(c)' = Op(c) /\ Ids(c)' = Ids(c)
        /\ Op(c) = "create" /\ Ids(c) = {id}
    BY <1>5, SingleRow DEF SaveOne, List, Op, Ids, Items, Single
  <2>2. CASE Insertable(id, Now(c).value)
    <3>1. event \in Announced' /\ stage'[c] = "ok"
      BY <1>2, <1>4, <1>5, <2>2 DEF SaveOne
    <3>2. QED
      BY <1>3, <2>1, <3>1 DEF Reported, Handed
  <2>3. CASE ~Insertable(id, Now(c).value)
    BY <1>1, <1>2, <1>5, <2>3, ReportedStays DEF SaveOne, history
  <2>4. QED
    BY <2>2, <2>3
<1>6. ASSUME NEW c \in Command, SaveAll(c) PROVE Reported(c)'
  <2> DEFINE new == [id \in Ids(c) |->
                       Given((CHOOSE i \in Items(c) : i.id = id).value, Default)]
             fits == /\ \A i \in Items(c) : Insertable(i.id, i.value)
                     /\ Unique => \A i, j \in Ids(c) : new[i] = new[j] => i = j
  <2>1. /\ ask' = ask /\ List(c)' = List(c) /\ Op(c)' = Op(c) /\ Ids(c)' = Ids(c)
        /\ Op(c) = "bulkCreate"
    BY <1>6 DEF SaveAll, List, Op, Ids, Items
  <2>2. CASE fits
    <3>1. /\ Publish({NewEvent(c, "created", id, new[id], 1) : id \in Ids(c)})
          /\ stage'[c] = "ok"
      BY <1>2, <1>6, <2>2 DEF SaveAll
    <3> HIDE DEF new
    <3>2. \A id \in Ids(c) : NewEvent(c, "created", id, new[id], 1) \in Announced'
      BY <1>4, <3>1
    <3>3. QED
      BY <1>3, <2>1, <3>1, <3>2 DEF Reported, Handed
  <2>3. CASE ~fits
    BY <1>1, <1>2, <1>6, <2>3, ReportedStays DEF SaveAll, history
  <2>4. QED
    BY <2>2, <2>3
<1>7. ASSUME NEW c \in Command, Overwrite(c) PROVE Reported(c)'
  <2>1. CASE Op(c) # "bulkUpdate" \/ UNCHANGED wrote
    <3>1. /\ ask' = ask /\ reads' = reads /\ item' = item
          /\ stage'[c] \in {"reload", "refused"}
      BY <1>2, <1>7 DEF Overwrite
    <3>2. stage'[c] # stage[c]
      BY <1>7, <3>1 DEF Overwrite
    <3>3. QED
      BY <1>1, <1>2, <2>1, <3>1, <3>2, ReportedStays
  <2>2. CASE Op(c) = "bulkUpdate" /\ ~UNCHANGED wrote
    <3>1. /\ ask' = ask /\ reads' = reads /\ item' = item /\ stage'[c] = "reload"
          /\ wrote'[c] = wrote[c] \union {Now(c).id}
      BY <1>2, <1>7, <2>2 DEF Overwrite, Author, history
    <3>2. /\ List(c)' = List(c) /\ Op(c)' = Op(c) /\ item[c] \in 1 .. item[c]
          /\ Now(c) = List(c)[item[c]]
      BY <1>2, <3>1 DEF List, Op, Now
    <3>3. InFront(c)'
      <4>1. InFront(c) /\ \A i : DoneWith(c, i) => DoneWith(c, i)'
        BY <1>1, <1>2, <2>2, <3>1, HandedStays DEF Reported
      <4>2. \A id \in wrote'[c] : \E k \in 1 .. item[c] : List(c)[k].id = id
        BY <3>1, <3>2, <4>1 DEF InFront
      <4>3. QED
        BY <3>1, <3>2, <4>1, <4>2 DEF InFront
    <3>4. QED
      BY <2>2, <3>1, <3>2, <3>3 DEF Reported
  <2>3. QED
    BY <2>1, <2>2
\* A bulk update that is done with its item goes on to the next.
<1>8. ASSUME NEW c \in Command, NextItem(c), stage[c] # "waiting", Op(c) = "bulkUpdate",
             ask' = ask, wrote' = wrote, NEW now, now = item[c], DoneWith(c, now)',
             \A i \in 1 .. item[c] - 1 : i \in DOMAIN reads[c] =>
                 i \in DOMAIN reads'[c] /\ reads'[c][i] = reads[c][i]
      PROVE  Reported(c)'
  <2>1. /\ item[c] \in 1 .. Len(List(c)) /\ DOMAIN List(c) = 1 .. Len(List(c))
        /\ Len(List(c)) \in Nat /\ item[c] \in Nat
    BY <1>8, AtWorkNow, Requests
  <2>2. /\ List(c)' = List(c) /\ Op(c)' = Op(c)
    BY <1>8 DEF List, Op
  <2>3. \A i \in 1 .. item[c] : DoneWith(c, i)'
    <3>1. \A i \in 1 .. item[c] - 1 : DoneWith(c, i)'
      BY <1>1, <1>2, <1>8, HandedStays DEF Reported, InFront
    <3>2. \A i \in 1 .. item[c] : i \in 1 .. item[c] - 1 \/ i = item[c]
      BY <2>1
    <3>3. QED
      BY <1>8, <3>1, <3>2
  <2>4. \/ HasNext(c) /\ item'[c] = item[c] + 1 /\ stage'[c] = "write"
        \/ item[c] = Len(List(c)) /\ item'[c] = item[c] /\ stage'[c] = "ok"
    BY <1>2, <1>8, <2>1 DEF NextItem, HasNext
  <2>5. \A id \in wrote[c] : \E k \in 1 .. item[c] : List(c)[k].id = id
    BY <1>2, <1>8 DEF Reported, InFront
  <2>6. InFront(c)'
    BY <1>8, <2>1, <2>2, <2>3, <2>4, <2>5 DEF InFront
  <2>7. QED
    BY <1>8, <2>2, <2>4, <2>6 DEF Reported
<1>9. ASSUME NEW c \in Command, Reload(c) PROVE Reported(c)'
  <2> DEFINE row == rows[Now(c).id]
             event == NewEvent(c, "updated", Now(c).id, row, 1)
  <2>1. /\ ask' = ask /\ List(c)' = List(c) /\ Op(c)' = Op(c) /\ wrote' = wrote
        /\ stage[c] = "reload"
    BY <1>9 DEF Reload, List, Op, history
  <2>2. /\ reads'[c] = Append(reads[c], row) /\ row \in Value \union {Absent}
        /\ Len(reads'[c]) = Len(reads[c]) + 1 /\ reads'[c][Len(reads[c]) + 1] = row
        /\ \A i \in DOMAIN reads[c] :
              i \in DOMAIN reads'[c] /\ reads'[c][i] = reads[c][i]
        /\ Len(reads[c]) + 1 \in DOMAIN reads'[c]
    BY <1>2, <1>9, <2>1, AtWorkNow, AppendProperties DEF Reload, TypeOK
  <2>3. row # Absent => event \in Announced'
    BY <1>4, <1>9 DEF Reload
  <2>4. CASE Op(c) = "update"
    <3>1. /\ stage'[c] = "announce" /\ item' = item /\ Len(reads[c]) = 1
      BY <1>2, <1>9, <2>1, <2>4 DEF Reload, AtPlace
    <3>2. Now(c)' = Now(c)
      BY <2>1, <3>1 DEF Now
    <3>3. QED
      BY <1>3, <2>1, <2>2, <2>3, <2>4, <3>1, <3>2 DEF Reported, Handed
  <2>5. CASE Op(c) = "bulkUpdate" /\ row = Absent
    <3>1. NextItem(c) /\ Len(reads[c]) = item[c] - 1 /\ item[c] \in Nat
      BY <1>2, <1>9, <2>1, <2>5 DEF Reload, AtPlace
    <3> DEFINE now == Len(reads[c]) + 1
    <3>2. now = item[c] /\ \A i \in 1 .. item[c] - 1 : i \in DOMAIN reads[c]
      BY <1>2, <3>1
    <3>3. PICK i : i = now
      OBVIOUS
    <3>4. DoneWith(c, i)'
      BY <2>2, <2>5, <3>3 DEF DoneWith
    <3>5. QED
      BY <1>8, <2>1, <2>2, <2>5, <3>1, <3>2, <3>3, <3>4
  <2>6. CASE Op(c) = "bulkUpdate" /\ row # Absent
    <3>1. stage'[c] = "again" /\ item' = item
      BY <1>2, <1>9, <2>1, <2>6 DEF Reload
    <3>2. Now(c)' = Now(c) /\ Now(c).id = event.id
      BY <1>3, <2>1, <3>1 DEF Now
    <3>3. HandedCopy(c, Now(c).id, 1)'
      BY <1>3, <2>3, <2>6, <3>2 DEF HandedCopy
    <3>4. InFront(c)'
      <4>1. InFront(c) /\ \A i : DoneWith(c, i) => DoneWith(c, i)'
        BY <1>1, <1>2, <2>1, <2>2, <2>6, HandedStays DEF Reported
      <4>2. QED
        BY <2>1, <3>1, <4>1 DEF InFront
    <3>5. QED
      BY <2>1, <2>6, <3>1, <3>3, <3>4 DEF Reported
  <2>7. QED
    BY <1>9, <2>4, <2>5, <2>6 DEF Reload
<1>10. ASSUME NEW c \in Command, PublishAgain(c) PROVE Reported(c)'
  <2> DEFINE second == NewEvent(c, "updated", Now(c).id, reads[c][Len(reads[c])], 2)
  <2>1. /\ ask' = ask /\ List(c)' = List(c) /\ reads' = reads /\ wrote' = wrote
        /\ stage[c] = "again" /\ Op(c) = "bulkUpdate" /\ NextItem(c)
        /\ Now(c) = List(c)[item[c]]
    BY <1>2, <1>10 DEF PublishAgain, List, AtPlace, history, Now
  <2>2. second \in Announced'
    BY <1>10 DEF PublishAgain, Announced
  <2>3. HandedCopy(c, Now(c).id, 1)
    BY <1>2, <2>1 DEF Reported
  <2>4. \A copy \in {1, 2} :
           \E e \in Announced' : e.by = c /\ e.id = Now(c).id /\ e.copy = copy
    BY <1>1, <1>3, <2>2, <2>3 DEF HandedCopy
  <2>5. PICK i : i = item[c]
    OBVIOUS
  <2>6. DoneWith(c, i)'
    BY <2>1, <2>4, <2>5 DEF DoneWith
  <2>7. QED
    BY <1>8, <2>1, <2>5, <2>6
<1>11. ASSUME NEW c \in Command, Remove(c) PROVE Reported(c)'
  <2> DEFINE event == NewEvent(c, "deleted", Now(c).id, reads[c][1], 1)
  <2>1. /\ ask' = ask /\ Op(c)' = Op(c) /\ Ids(c)' = Ids(c)
        /\ Op(c) = "delete" /\ Ids(c) = {Now(c).id} /\ stage'[c] = "ok"
    BY <1>2, <1>11, SingleRow DEF Remove, List, Op, Ids, Items, Single
  <2>2. event \in Announced'
    BY <1>4, <1>11 DEF Remove
  <2>3. QED
    BY <1>3, <2>1, <2>2 DEF Reported, Handed
<1>12. ASSUME NEW c \in Command, FindRemoved(c) PROVE Reported(c)'
  <2> DEFINE found == Append(reads[c], rows[Now(c).id])
  <2>1. ask' = ask /\ Op(c) = "bulkDelete" /\ stage[c] = "find" /\ wrote' = wrote
        /\ Op(c)' = Op(c) /\ Ids(c)' = Ids(c)
    BY <1>12 DEF FindRemoved, history, Op, Ids, Items, List
  <2>2. CASE stage'[c] # "ok"
    <3>1. stage'[c] \in {"find", "refused"}
      BY <1>2, <1>12, <2>1, <2>2 DEF FindRemoved
    <3>2. QED
      BY <2>1, <3>1 DEF Reported
  <2>3. CASE stage'[c] = "ok"
    <3>1. Publish({NewEvent(c, "deleted", List(c)[i].id, found[i], 1) :
                     i \in DOMAIN List(c)})
      BY <1>2, <1>12, <2>1, <2>3 DEF FindRemoved
    <3> HIDE DEF found
    <3>2. \A i \in DOMAIN List(c) :
             NewEvent(c, "deleted", List(c)[i].id, found[i], 1) \in Announced'
      BY <1>4, <3>1
    <3>3. ASSUME NEW id \in Ids(c) PROVE Handed(c, id)'
      <4>1. PICK i \in DOMAIN List(c) : List(c)[i].id = id
        BY DEF Ids, Items
      <4>2. QED
        BY <1>3, <3>2, <4>1 DEF Handed
    <3>4. QED
      BY <2>1, <2>3, <3>3 DEF Reported
  <2>4. QED
    BY <2>2, <2>3
<1>13. ASSUME NEW c \in Command, Announce(c) PROVE Reported(c)'
  <2>1. /\ ask' = ask /\ Op(c)' = Op(c) /\ Ids(c)' = Ids(c)
        /\ Op(c) = "update" /\ stage[c] = "announce"
    BY <1>2, <1>13 DEF Announce, AtPlace, List, Op, Ids, Items
  <2>2. Ids(c) = {Now(c).id}
    BY <2>1, SingleRow DEF Single
  <2>3. \/ stage'[c] = "refused"
        \/ stage'[c] = "ok" /\ reads[c][2] # Absent
    BY <1>2, <1>13 DEF Announce
  <2>4. reads[c][2] # Absent => \A id \in Ids(c) : Handed(c, id)'
    BY <1>1, <1>2, <2>1, <2>2, HandedStays DEF Reported
  <2>5. QED
    BY <2>1, <2>3, <2>4 DEF Reported
<1>14. ASSUME NEW c \in Command,
              \/ Request(c) \/ TurnAway(c) \/ Fail(c) \/ Check(c) \/ LoadForUpdate(c)
              \/ LoadForDelete(c) \/ Find(c) \/ RemoveAll(c)
       PROVE  Reported(c)'
  <2>1. /\ ask' = ask
        /\ \/ reads'[c] = reads[c] /\ item'[c] = item[c] /\ wrote'[c] = wrote[c]
           \/ Op(c) # "bulkUpdate" /\ stage'[c] # stage[c]
        /\ stage'[c] \notin {"announce", "again", "ok"}
    BY <1>2, <1>14 DEF Request, TurnAway, Enter, Fail, Check, LoadForUpdate, LoadForDelete,
       Find, RemoveAll, history
  <2>2. QED
    BY <1>1, <1>2, <2>1, ReportedStays
<1>15. ASSUME NEW c \in Command, Request(c) \/ TurnAway(c) \/ Continue(c) \/ Fail(c)
       PROVE  AllReported'
  <2>1. Reported(c)'
    BY <1>5, <1>6, <1>7, <1>9, <1>10, <1>11, <1>12, <1>13, <1>14, <1>15 DEF Continue
  <2>2. ASSUME NEW d \in Command \ {c} PROVE Reported(d)'
    BY <1>1, <1>2, <1>15, OthersStay, ReportedStays
  <2>3. QED
    BY <2>1, <2>2 DEF AllReported
<1>16. CASE \/ UNCHANGED vars
            \/ \E e \in local \union echoes : Apply(e) \/ ApplyFails(e)
            \/ Kafka
            \/ Crash
  BY <1>1, <1>2, <1>16, CommandsStay, ReportedStays DEF AllReported
<1>17. QED
  BY <1>15, <1>16 DEF Next

-----------------------------------------------------------------------------
(* A creation writes and announces at once or not at all.                  *)

\* What a step adds to the events on the EventBus and at the publisher is of the
\* command that takes it.
LEMMA Publishers ==
    ASSUME WellPosed, TypeOK, Placed, NEW c \in Command, Continue(c),
           NEW e \in (Announced \union local)', e \notin Announced \union local
    PROVE  e.by = c
<1>1. UNCHANGED topic => InTopics' = InTopics
  BY DEF InTopics
<1>2. ASSUME NEW kind, NEW id, NEW value, NEW copy
      PROVE  NewEvent(c, kind, id, value, copy).by = c
  BY DEF NewEvent
<1>3. ASSUME NEW events, Publish(events), \A a \in events : a.by = c, lost' = lost
      PROVE  e.by = c
  BY <1>1, <1>3 DEF Announced, Publish
<1>4. ASSUME UNCHANGED busState, lost' = lost PROVE FALSE
  BY <1>1, <1>4 DEF Announced, busState
<1> USE DEF history, Author
<1>5. CASE SaveOne(c)
  BY <1>2, <1>3, <1>4, <1>5 DEF SaveOne
<1>6. CASE SaveAll(c)
  <2> DEFINE new == [id \in Ids(c) |->
                       Given((CHOOSE i \in Items(c) : i.id = id).value, Default)]
             events == {NewEvent(c, "created", id, new[id], 1) : id \in Ids(c)}
  <2>1. (UNCHANGED busState \/ Publish(events)) /\ lost' = lost
    BY <1>6 DEF SaveAll
  <2> HIDE DEF new
  <2>2. QED
    BY <1>2, <1>3, <1>4, <2>1
<1>7. CASE Reload(c)
  BY <1>2, <1>3, <1>4, <1>7 DEF Reload
<1>8. CASE PublishAgain(c)
  BY <1>1, <1>2, <1>8 DEF PublishAgain, Announced
<1>9. CASE Remove(c)
  BY <1>2, <1>3, <1>9 DEF Remove
<1>10. CASE FindRemoved(c)
  <2> DEFINE found == Append(reads[c], rows[Now(c).id])
             events == {NewEvent(c, "deleted", List(c)[i].id, found[i], 1) :
                          i \in DOMAIN List(c)}
  <2>1. (UNCHANGED busState \/ Publish(events)) /\ lost' = lost
    BY <1>10 DEF FindRemoved
  <2> HIDE DEF found
  <2>2. QED
    BY <1>2, <1>3, <1>4, <2>1
<1>11. CASE Announce(c)
  <2>1. AnnouncedEvent(c).by = c
    BY DEF AnnouncedEvent, NewEvent
  <2>2. UNCHANGED <<local, sending, lost>>
    BY <1>11 DEF Announce
  <2>3. QED
    BY <1>1, <1>11, <2>1, <2>2, Announcements DEF Announced
<1>12. CASE Check(c) \/ LoadForUpdate(c) \/ LoadForDelete(c) \/ Overwrite(c) \/ Find(c)
            \/ RemoveAll(c)
  BY <1>4, <1>12 DEF Check, LoadForUpdate, LoadForDelete, Overwrite, Find, RemoveAll
<1>13. QED
  BY <1>5, <1>6, <1>7, <1>8, <1>9, <1>10, <1>11, <1>12 DEF Continue

\* A command that has come to no good, or to no end yet, of what it creates.
Unwritten(c) ==
    Op(c) \in {"create", "bulkCreate"} /\ stage[c] # "ok" =>
        wrote[c] = {} /\ \A e \in Announced \union local : e.by # c

\* For every command.
AllUnwritten == \A c \in Command : Unwritten(c)

\* The insert and the publication of a creation are one step, after its checks.
LEMMA UnwrittenStep ==
    ASSUME WellPosed, TypeOK, Placed, AllUnwritten, [Next]_vars
    PROVE  AllUnwritten'
<1> USE DEF At, Goto, vars, busState, history
<1>1. UNCHANGED topic => InTopics' = InTopics
  BY DEF InTopics
<1>2. ASSUME NEW c \in Command, ask' = ask, wrote'[c] = wrote[c],
             stage'[c] = stage[c] \/ stage[c] \notin Over,
             \A e \in (Announced \union local)' : e \in Announced \union local \/ e.by # c
      PROVE  Unwritten(c)'
  BY <1>2 DEF AllUnwritten, Unwritten, Op, Over
<1>3. ASSUME NEW c \in Command, Continue(c) PROVE Unwritten(c)'
  <2>1. ask' = ask /\ Op(c)' = Op(c) /\ stage \in [Command -> Place]
    BY <1>3, OthersStay DEF Op, TypeOK
  <2>2. stage[c] \notin Over
    BY <1>3 DEF Continue, Check, LoadForUpdate, LoadForDelete, SaveOne, SaveAll, Overwrite,
       Reload, PublishAgain, Find, Remove, RemoveAll, FindRemoved, Announce, Over
  <2>3. CASE Op(c) \notin {"create", "bulkCreate"} \/ stage'[c] = "ok"
    BY <2>1, <2>3 DEF Unwritten
  <2>4. CASE Op(c) \in {"create", "bulkCreate"} /\ stage'[c] # "ok"
    <3>1. Check(c) \/ SaveOne(c) \/ SaveAll(c)
      <4>1. ~Reload(c) /\ ~PublishAgain(c) /\ ~Announce(c)
        BY <2>4 DEF Reload, PublishAgain, Announce, Placed, AtPlace
      <4>2. QED
        BY <1>3, <2>4, <4>1 DEF Continue, LoadForUpdate, LoadForDelete, Overwrite, Find,
           Remove, RemoveAll, FindRemoved
    <3>2. UNCHANGED <<busState, history>>
      BY <2>1, <2>4, <3>1 DEF Check, SaveOne, SaveAll
    <3>3. QED
      BY <1>1, <1>2, <2>1, <2>2, <3>2 DEF Announced
  <2>5. QED
    BY <2>3, <2>4
<1>4. ASSUME NEW c \in Command, Continue(c), NEW d \in Command \ {c}
      PROVE  Unwritten(d)'
  BY <1>2, <1>3, <1>4, OthersStay, Publishers
<1>5. ASSUME NEW c \in Command, Request(c) \/ TurnAway(c) \/ Fail(c), NEW d \in Command
      PROVE  Unwritten(d)'
  <2>1. /\ ask' = ask /\ wrote' = wrote /\ UNCHANGED <<busState, lost>>
        /\ stage'[d] = stage[d] \/ stage[d] \notin Over
    BY <1>5 DEF Request, TurnAway, Enter, Fail, TypeOK, Over
  <2>2. QED
    BY <1>1, <1>2, <2>1 DEF Announced
<1>6. CASE \/ UNCHANGED vars
           \/ \E e \in local \union echoes : Apply(e) \/ ApplyFails(e)
           \/ Kafka
           \/ Crash
  <2>1. (Announced \union local)' \subseteq Announced \union local
    <3>1. CASE \E e \in sending : Send(e)
      <4>1. PICK e \in sending : Send(e)
        BY <3>1
      <4>2. InTopics' = InTopics \union {e}
        BY <4>1, Appended DEF Send, TypeOK, Event
      <4>3. QED
        BY <4>1, <4>2 DEF Send, Announced
    <3>2. CASE ~\E e \in sending : Send(e)
      <4>1. /\ UNCHANGED topic /\ local' \subseteq local
            /\ sending' \union lost' \subseteq sending \union lost
        BY <1>6, <3>2 DEF Apply, ApplyFails, Kafka, Settle, SendFails, Route, Replay,
           StartReplay, Crash
      <4>2. QED
        BY <1>1, <4>1 DEF Announced
    <3>3. QED
      BY <3>1, <3>2
  <2>2. QED
    BY <1>2, <1>6, <2>1, CommandsStay DEF AllUnwritten
<1>7. QED
  BY <1>3, <1>4, <1>5, <1>6 DEF Next, AllUnwritten

-----------------------------------------------------------------------------
(* One command at a time leaves what the last one wrote.                   *)

\* Events whose projection may still come to the table.
Unread(k) == {topic[k][i] : i \in consumed[k] + 1 .. Len(topic[k])}
Coming == local \union echoes \union sending \union UNION {Unread(k) : k \in Kind}

\* The projection of e changes nothing.
Harmless(e) ==
    CASE e.kind = "deleted" -> last[e.id] = Absent
      [] e.kind = "updated" -> last[e.id] \in {Absent, e.value}
      [] OTHER -> last[e.id] = e.value

\* A command between its request and its end.
Active(c) == stage[c] \notin Over \union {"waiting"}

\* Nothing comes but of the command at work, once it has announced a row: of the
\* rows that a bulk update is done with, and of the one that it publishes again.
OnlyOwn(c) ==
    \A e \in Coming :
        \/ stage[c] = "announce"
        \/ /\ Op(c) = "bulkUpdate"
           /\ \E k \in 1 .. item[c] :
                 e.id = List(c)[k].id /\ (k = item[c] => stage[c] = "again")

\* What the command has read is what the row is still.
UpToDate(c) ==
    /\ stage[c] = "write" /\ Op(c) = "update" => reads[c][1] = last[Now(c).id]
    /\ stage[c] = "reload" /\ Op(c) = "update" =>
          (reads[c][1] # Absent => last[Now(c).id] # Absent)
    /\ stage[c] = "announce" =>
          /\ reads[c][2] = last[Now(c).id]
          /\ reads[c][1] # Absent => reads[c][2] # Absent
    /\ stage[c] = "again" => reads[c][item[c]] = last[Now(c).id]
    /\ stage[c] = "find" /\ Op(c) = "bulkDelete" =>
          \A id \in Ids(c) : last[id] = Absent

\* No other command is at work.
Alone(c) == \A d \in Command : Active(d) => d = c

\* The table holds what the last command wrote, whatever comes changes nothing, and
\* the command at work has the table for itself.
InOrder ==
    /\ ~replaying
    /\ rows = last
    /\ \A e \in Coming : Harmless(e)
    /\ \A c \in Command : Active(c) => Alone(c) /\ OnlyOwn(c) /\ UpToDate(c)

\* No command has come too early, nothing was made up, and no bulk update names a
\* row twice.
Orderly ==
    /\ ~raced /\ Unfounded = {}
    /\ \A c \in Command : Op(c) = "bulkUpdate" => ~NamesTwice(c)

\* CalmRowsAreLast, strengthened.
Calm == Orderly => InOrder

\* A history that is orderly now was so before.
LEMMA OrderlyBefore ==
    ASSUME WellPosed, TypeOK, Placed, [Next]_vars, Orderly'
    PROVE  Orderly
<1>1. Unfounded = {}
  BY SoundGrows DEF Orderly
<1>2. ask' = ask
  BY OthersStay, CommandsStay DEF Next
<1>3. \A c \in Command : Op(c) = "bulkUpdate" => ~NamesTwice(c)
  BY <1>2 DEF Orderly, Op, NamesTwice, List
<1>4. ~raced
  <2> SUFFICES ASSUME raced PROVE raced'
    BY DEF Orderly
  <2> USE DEF vars, history
  <2>1. ASSUME NEW c \in Command, Request(c) \/ TurnAway(c) \/ Fail(c) PROVE raced'
    BY <2>1 DEF Request, TurnAway, Enter, Fail
  <2>2. ASSUME NEW c \in Command, Continue(c) PROVE raced'
    <3> USE DEF Author
    <3>1. CASE SaveOne(c) \/ SaveAll(c) \/ Overwrite(c) \/ Remove(c) \/ RemoveAll(c)
      BY <3>1 DEF SaveOne, SaveAll, Overwrite, Remove, RemoveAll
    <3>2. CASE ~(SaveOne(c) \/ SaveAll(c) \/ Overwrite(c) \/ Remove(c) \/ RemoveAll(c))
      BY <2>2, <3>2 DEF Continue, Check, LoadForUpdate, LoadForDelete, Reload, PublishAgain,
         Find, FindRemoved, Announce
    <3>3. QED
      BY <3>1, <3>2
  <2>3. CASE \/ UNCHANGED vars
             \/ \E e \in local \union echoes : Apply(e) \/ ApplyFails(e)
             \/ Kafka
             \/ Crash
    BY <2>3 DEF Apply, ApplyFails, Kafka, Settle, Send, SendFails, Route, Replay,
       StartReplay, Crash
  <2>4. QED
    BY <2>1, <2>2, <2>3 DEF Next
<1>5. QED
  BY <1>1, <1>3, <1>4 DEF Orderly

\* When the process stops, nothing comes that would change the table: what the
\* restart reads again is what the table has.
LEMMA CrashOrder ==
    ASSUME TypeOK, InOrder, Crash, ~raced'
    PROVE  InOrder'
<1>1. PICK from \in Resumptions :
         /\ consumed' = from
         /\ raced' = (raced \/ \E e \in ReadAgain(from) : Projected(e) # rows)
  BY DEF Crash
<1>2. /\ UNCHANGED <<rows, last, ask, reads, item, topic>> /\ ~replaying'
      /\ local' = {} /\ echoes' = {} /\ sending' = {}
      /\ rows = last /\ \A e \in Coming : Harmless(e)
  BY DEF Crash, InOrder
<1>3. \A c \in Command : ~Active(c)'
  BY DEF Crash, Active, Over
<1>4. ASSUME NEW k \in Kind, NEW e \in Unread(k)' PROVE Harmless(e)
  <2>1. PICK i \in from[k] + 1 .. Len(topic[k]) : e = topic[k][i]
    BY <1>1, <1>2 DEF Unread
  <2>2. consumed[k] \in Nat /\ Len(topic[k]) \in Nat /\ from[k] \in Nat
    BY TopicEvents DEF TypeOK, Resumptions
  <2>3. i \in 1 .. Len(topic[k]) /\ e \in Event
    BY <2>1, <2>2, TopicEvents
  <2>4. CASE i > consumed[k]
    <3>1. i \in consumed[k] + 1 .. Len(topic[k])
      BY <2>2, <2>3, <2>4
    <3>2. e \in Coming
      BY <2>1, <3>1 DEF Unread, Coming
    <3>3. QED
      BY <1>2, <3>2
  <2>5. CASE ~(i > consumed[k])
    <3>1. i \in from[k] + 1 .. consumed[k]
      BY <2>1, <2>2, <2>3, <2>5
    <3>2. e \in ReadAgain(from)
      BY <2>1, <3>1 DEF ReadAgain
    <3>3. Projected(e) = rows
      BY <1>1, <3>2, Zenon
    <3>4. Projected(e)[e.id] = last[e.id] /\ e.id \in Id
      BY <1>2, <2>3, <3>3 DEF Event
    <3>5. QED
      BY <1>2, <3>4 DEF Projected, Harmless, TypeOK
  <2>6. QED
    BY <2>4, <2>5
<1>5. \A e \in Coming' : Harmless(e)'
  BY <1>2, <1>4 DEF Coming, Harmless
<1>6. QED
  BY <1>2, <1>3, <1>5 DEF InOrder

\* A step that leaves the rows, reads nothing, brings nothing and lets no command
\* come nearer its end leaves the order.
LEMMA OrderStays ==
    ASSUME InOrder, UNCHANGED <<rows, last, ask, reads, item>>, ~replaying',
           Coming' \subseteq Coming,
           \A c \in Command : stage'[c] = stage[c] \/ stage'[c] \in Over \union {"waiting"}
    PROVE  InOrder'
<1>1. \A e \in Coming' : Harmless(e)'
  BY DEF InOrder, Harmless
<1>2. ASSUME NEW c \in Command, Active(c)' PROVE Alone(c)' /\ OnlyOwn(c)' /\ UpToDate(c)'
  <2>1. stage'[c] = stage[c] /\ Active(c)
    BY <1>2 DEF Active
  <2>2. /\ List(c)' = List(c) /\ Op(c)' = Op(c) /\ Now(c)' = Now(c) /\ Ids(c)' = Ids(c)
        /\ item'[c] = item[c]
    BY DEF List, Op, Now, Ids, Items
  <2>3. Alone(c)'
    BY <2>1 DEF InOrder, Alone, Active
  <2>4. OnlyOwn(c)'
    BY <2>1, <2>2 DEF InOrder, OnlyOwn
  <2>5. UpToDate(c)'
    BY <2>1, <2>2 DEF InOrder, UpToDate
  <2>6. QED
    BY <2>3, <2>4, <2>5
<1>3. QED
  BY <1>1, <1>2 DEF InOrder

\* What is not read of a topic, when an event joins it.
LEMMA UnreadAppended ==
    ASSUME TypeOK, NEW k \in Kind, NEW e \in Event,
           topic' = [topic EXCEPT ![k] = Append(@, e)], UNCHANGED consumed
    PROVE  \A j \in Kind : Unread(j)' \subseteq Unread(j) \union {e}
<1> SUFFICES ASSUME NEW j \in Kind, NEW a \in Unread(j)' PROVE a \in Unread(j) \union {e}
  OBVIOUS
<1>1. PICK i \in consumed[j] + 1 .. Len(topic'[j]) : a = topic'[j][i]
  BY DEF Unread
<1>2. consumed[j] \in Nat /\ Len(topic[j]) \in Nat
  BY TopicEvents DEF TypeOK
<1>3. CASE i \in 1 .. Len(topic[j])
  <2>1. i \in consumed[j] + 1 .. Len(topic[j]) /\ a = topic[j][i]
    BY <1>1, <1>2, <1>3, Appended
  <2>2. QED
    BY <2>1 DEF Unread
<1>4. CASE i \notin 1 .. Len(topic[j])
  <2>1. j = k /\ i = Len(topic[k]) + 1
    BY <1>1, <1>2, <1>4, Appended
  <2>2. QED
    BY <1>1, <2>1, Appended
<1>5. QED
  BY <1>3, <1>4

\* What a command writes in order is what the last command wrote.
LEMMA AuthoredLast ==
    ASSUME TypeOK, rows = last, NEW c \in Command, NEW ids \in SUBSET Id,
           NEW table \in [Id -> Value \union {Absent}], Author(c, ids, table),
           \A id \in Id \ ids : table[id] = rows[id]
    PROVE  /\ rows' = last'
           /\ \A id \in ids : last'[id] = table[id]
           /\ \A id \in Id \ ids : last'[id] = last[id]
<1>1. last' = [id \in Id |-> IF id \in ids THEN table[id] ELSE last[id]] /\ rows' = table
  BY DEF Author
<1>2. \A id \in Id : last'[id] = table[id]
  BY <1>1
<1>3. last' = table
  BY <1>1, <1>2
<1>4. QED
  BY <1>1, <1>3

\* A command that is alone and has announced nothing yet leaves the order if what
\* it brings is harmless.
LEMMA OrderOf ==
    ASSUME TypeOK, InOrder, NEW c \in Command, Alone(c),
           rows' = last', ~replaying',
           \A d \in Command \ {c} : stage'[d] = stage[d],
           \A e \in Coming' : Harmless(e)',
           Active(c)' => OnlyOwn(c)' /\ UpToDate(c)'
    PROVE  InOrder'
<1>1. \A d \in Command : Active(d)' => d = c
  BY DEF Alone, Active
<1>2. QED
  BY <1>1 DEF InOrder, Alone

\* What lies on the EventBus, at the publisher and in the topics after Publish.
LEMMA ComingPublished ==
    ASSUME NEW events, Publish(events)
    PROVE  Coming' \subseteq Coming \union events
BY DEF Publish, Coming, Unread

\* Nothing else comes when nothing is published, sent or consumed.
LEMMA ComingStays ==
    ASSUME UNCHANGED busState
    PROVE  Coming' = Coming
BY DEF busState, Coming, Unread

\* In an orderly history every step leaves the order.
LEMMA OrderStep ==
    ASSUME WellPosed, TypeOK, Placed, InOrder, Orderly, Orderly', [Next]_vars
    PROVE  InOrder'
<1> USE DEF At, Goto, vars, replayState, history
<1>1. TypeOK' /\ Placed'
  BY TypeStep, PlacedStep
<1>2. ASSUME NEW c \in Command
      PROVE  /\ AtPlace(c) /\ AtPlace(c)'
             /\ stage \in [Command -> Place] /\ stage[c] \in Place
             /\ reads \in [Command -> Seq(Value \union {Absent})]
             /\ item \in [Command -> Nat \ {0}]
             /\ Len(reads[c]) \in Nat /\ DOMAIN reads[c] = 1 .. Len(reads[c])
             /\ rows \in [Id -> Value \union {Absent}]
  BY <1>1, RowsRead DEF TypeOK, Placed
<1>3. ~replaying /\ rows = last /\ \A e \in Coming : Harmless(e)
  BY DEF InOrder
\* A command at work is the only one.
<1>4. ASSUME NEW c \in Command, Continue(c)
      PROVE  /\ stage[c] # "waiting" /\ Active(c) /\ Alone(c) /\ OnlyOwn(c) /\ UpToDate(c)
             /\ ~replaying' /\ ask' = ask
             /\ \A d \in Command \ {c} : stage'[d] = stage[d]
             /\ List(c)' = List(c) /\ Op(c)' = Op(c) /\ Ids(c)' = Ids(c)
             /\ item'[c] = item[c] => Now(c)' = Now(c)
             /\ IsRequest(ask[c]) /\ item[c] \in 1 .. Len(List(c))
             /\ DOMAIN List(c) = 1 .. Len(List(c)) /\ Len(List(c)) \in Nat
             /\ Now(c) = List(c)[item[c]] /\ Now(c).id \in Id /\ Now(c).id \in Ids(c)
             /\ Now(c).value \in Value \union {NotGiven}
             /\ Ids(c) \subseteq Id /\ Op(c) \in Single \union Bulk
             /\ rows[Now(c).id] \in Value \union {Absent}
  <2>1. stage[c] \notin Over \union {"waiting"} /\ replaying' = replaying
    BY <1>4 DEF Continue, Check, LoadForUpdate, LoadForDelete, SaveOne, SaveAll, Overwrite,
       Reload, PublishAgain, Find, Remove, RemoveAll, FindRemoved, Announce, Over
  <2>2. Active(c) /\ Alone(c) /\ OnlyOwn(c) /\ UpToDate(c) /\ ~replaying'
    BY <1>3, <2>1 DEF Active, InOrder
  <2>3. ask' = ask /\ \A d \in Command \ {c} : stage'[d] = stage[d]
    BY <1>4, OthersStay
  <2>4. /\ List(c)' = List(c) /\ Op(c)' = Op(c) /\ Ids(c)' = Ids(c)
        /\ item'[c] = item[c] => Now(c)' = Now(c)
    BY <2>3 DEF List, Op, Ids, Items, Now
  <2>5. QED
    BY <1>2, <2>1, <2>2, <2>3, <2>4, AtWorkNow, Requests
\* Before a command has published anything, nothing comes.
<1>5. ASSUME NEW c \in Command, Continue(c), stage[c] # "announce", Op(c) # "bulkUpdate"
      PROVE  Coming = {}
  BY <1>4, <1>5 DEF OnlyOwn
<1>6. ASSUME UNCHANGED last, UNCHANGED topic, NEW e, Harmless(e) PROVE Harmless(e)'
  BY <1>6 DEF Harmless
<1>7. ASSUME NEW c, NEW kind, NEW id, NEW value, NEW copy
      PROVE  /\ NewEvent(c, kind, id, value, copy).kind = kind
             /\ NewEvent(c, kind, id, value, copy).id = id
             /\ NewEvent(c, kind, id, value, copy).value = value
  BY DEF NewEvent
<1>8. ASSUME UNCHANGED busState PROVE Coming' = Coming
  BY <1>8, ComingStays
<1>9. ASSUME NEW c \in Command, Check(c) \/ LoadForUpdate(c) \/ LoadForDelete(c) \/ Find(c)
      PROVE  InOrder'
  <2>0. Continue(c)
    BY <1>9 DEF Continue
  <2>1. /\ UNCHANGED <<rows, last>> /\ Coming' = Coming /\ item' = item
        /\ stage[c] \in {"service", "find"} /\ stage'[c] \in {"write", "find", "refused"}
        /\ stage'[c] = "find" => Op(c) = "delete"
    BY <1>2, <1>8, <1>9 DEF Check, LoadForUpdate, LoadForDelete, Find
  <2>2. Coming = {}
    <3>1. \A e \in Coming : \E k \in 1 .. item[c] : k = item[c] => stage[c] = "again"
      BY <1>4, <2>0, <2>1 DEF OnlyOwn
    <3>2. CASE stage[c] = "service"
      <4>1. item[c] = 1
        BY <1>2, <3>2 DEF AtPlace
      <4>2. QED
        BY <3>1, <3>2, <4>1
    <3>3. CASE stage[c] = "find"
      BY <1>2, <1>5, <2>0, <3>3 DEF AtPlace
    <3>4. QED
      BY <2>1, <3>2, <3>3
  <2>3. stage'[c] = "write" /\ Op(c) = "update" => reads'[c][1] = last[Now(c).id]
    BY <1>2, <1>3, <1>4, <1>9, <2>0 DEF Check, LoadForUpdate, LoadForDelete, Find, Bulk
  <2>4. OnlyOwn(c)' /\ (Active(c)' => UpToDate(c)')
    BY <1>4, <2>0, <2>1, <2>2, <2>3 DEF OnlyOwn, UpToDate, Active
  <2>5. QED
    BY <1>3, <1>4, <2>0, <2>1, <2>2, <2>4, OrderOf
<1>10. ASSUME NEW c \in Command, SaveOne(c) PROVE InOrder'
  <2> DEFINE id == Now(c).id  value == Given(Now(c).value, Default)
             table == [rows EXCEPT ![id] = value]
             event == NewEvent(c, "created", id, value, 1)
  <2>0. Continue(c)
    BY <1>10 DEF Continue
  <2>1. CASE Insertable(id, Now(c).value)
    <3>1. value \in Value
      BY <1>4, <2>0, <2>1 DEF Insertable, Given, WellPosed
    <3>2. /\ Author(c, {id}, table) /\ Publish({event}) /\ stage'[c] = "ok"
          /\ Coming' \subseteq Coming \union {event}
      BY <1>2, <1>10, <2>1, ComingPublished DEF SaveOne
    <3>3. rows' = last' /\ last'[id] = value
      <4>1. table \in [Id -> Value \union {Absent}] /\ table[id] = value
            /\ \A j \in Id \ {id} : table[j] = rows[j]
        BY <1>2, <1>4, <2>0, <3>1
      <4>2. {id} \in SUBSET Id /\ rows = last
        BY <1>3, <1>4, <2>0
      <4> HIDE DEF table, value, id
      <4>3. QED
        BY <3>2, <4>1, <4>2, AuthoredLast
    <3>4. Coming = {}
      BY <1>5, <1>10, <2>0 DEF SaveOne
    <3>5. \A e \in Coming' : Harmless(e)'
      BY <1>7, <3>2, <3>3, <3>4 DEF Harmless
    <3>6. QED
      BY <1>4, <2>0, <3>2, <3>3, <3>5, OrderOf DEF Active, Over
  <2>2. CASE ~Insertable(id, Now(c).value)
    <3>1. /\ UNCHANGED <<rows, last, ask, reads, item>> /\ stage'[c] = "refused"
          /\ UNCHANGED busState
      BY <1>2, <1>10, <2>2 DEF SaveOne
    <3>2. QED
      BY <1>4, <1>8, <2>0, <3>1, OrderStays DEF Over
  <2>3. QED
    BY <2>1, <2>2
<1>11. ASSUME NEW c \in Command, SaveAll(c) PROVE InOrder'
  <2> DEFINE new == [id \in Ids(c) |->
                       Given((CHOOSE i \in Items(c) : i.id = id).value, Default)]
             table == [id \in Id |-> IF id \in Ids(c) THEN new[id] ELSE rows[id]]
             fits == /\ \A i \in Items(c) : Insertable(i.id, i.value)
                     /\ Unique => \A i, j \in Ids(c) : new[i] = new[j] => i = j
             events == {NewEvent(c, "created", id, new[id], 1) : id \in Ids(c)}
  <2>0. Continue(c)
    BY <1>11 DEF Continue
  <2>1. CASE fits
    <3>1. /\ Author(c, Ids(c), table) /\ Publish(events) /\ stage'[c] = "ok"
      BY <1>2, <1>11, <2>1 DEF SaveAll
    <3> HIDE DEF new
    <3>2. Coming' \subseteq Coming \union events
      BY <3>1, ComingPublished
    <3>3. table \in [Id -> Value \union {Absent}]
      BY <1>1, <3>1 DEF Author, TypeOK
    <3>4. rows' = last' /\ \A id \in Ids(c) : last'[id] = new[id]
      <4>1. /\ Ids(c) \in SUBSET Id /\ rows = last
            /\ \A id \in Id \ Ids(c) : table[id] = rows[id]
            /\ \A id \in Ids(c) : table[id] = new[id]
        BY <1>3, <1>4, <2>0
      <4> HIDE DEF table
      <4>2. QED
        BY <3>1, <3>3, <4>1, AuthoredLast
    <3>5. Coming = {}
      BY <1>5, <1>11, <2>0 DEF SaveAll
    <3>6. \A e \in Coming' : Harmless(e)'
      BY <1>7, <3>2, <3>4, <3>5 DEF Harmless
    <3>7. QED
      BY <1>4, <2>0, <3>1, <3>4, <3>6, OrderOf DEF Active, Over
  <2>2. CASE ~fits
    <3>1. /\ UNCHANGED <<rows, last, ask, reads, item>> /\ stage'[c] = "refused"
          /\ UNCHANGED busState
      BY <1>2, <1>11, <2>2 DEF SaveAll
    <3>2. QED
      BY <1>4, <1>8, <2>0, <3>1, OrderStays DEF Over
  <2>3. QED
    BY <2>1, <2>2
\* No row of a bulk update is named again.
<1>12. ASSUME NEW c \in Command, Continue(c), Op(c) = "bulkUpdate",
              NEW k \in 1 .. item[c], List(c)[k].id = Now(c).id
       PROVE  k = item[c]
  BY <1>4, <1>12 DEF Orderly, NamesTwice
<1>13. ASSUME NEW c \in Command, Overwrite(c) PROVE InOrder'
  <2> DEFINE id == Now(c).id
             read == IF Op(c) = "update" THEN reads[c][1] ELSE rows[id]
             value == IF Candidate(c, read) \in Value THEN Candidate(c, read) ELSE rows[id]
             table == [rows EXCEPT ![id] = value]
  <2>0. /\ Continue(c) /\ stage[c] = "write" /\ Op(c) \in {"update", "bulkUpdate"}
        /\ UNCHANGED <<ask, reads, item>> /\ Coming' = Coming /\ Now(c)' = Now(c)
        /\ Op(c)' = Op(c) /\ List(c)' = List(c)
    BY <1>4, <1>8, <1>13 DEF Continue, Overwrite
  <2>1. CASE rows[id] # Absent /\ Taken(id, value)
    <3>1. stage'[c] = "refused" /\ UNCHANGED <<rows, last>>
      BY <1>2, <1>13, <2>1 DEF Overwrite
    <3>2. QED
      BY <1>4, <2>0, <3>1, OrderStays DEF Over
  <2>2. OnlyOwn(c) => \A e \in Coming : Op(c) = "bulkUpdate" /\ e.id # id
                         /\ \E k \in 1 .. item[c] : k # item[c] /\ e.id = List(c)[k].id
    BY <1>12, <2>0 DEF OnlyOwn
  <2>3. ASSUME stage'[c] = "reload" PROVE OnlyOwn(c)'
    BY <1>4, <2>0, <2>2, <2>3 DEF OnlyOwn
  <2>4. CASE rows[id] = Absent
    <3>1. stage'[c] = "reload" /\ UNCHANGED <<rows, last>>
      BY <1>2, <1>13, <2>4 DEF Overwrite
    <3>2. UpToDate(c)'
      BY <1>3, <1>4, <2>0, <2>4, <3>1 DEF UpToDate
    <3>3. \A e \in Coming' : Harmless(e)'
      BY <1>3, <2>0, <3>1 DEF Harmless
    <3>4. QED
      BY <1>3, <1>4, <2>0, <2>3, <3>1, <3>2, <3>3, OrderOf
  <2>5. CASE rows[id] # Absent /\ ~Taken(id, value)
    <3>1. stage'[c] = "reload" /\ Author(c, {id}, table)
      BY <1>2, <1>13, <2>5 DEF Overwrite
    <3>2. value \in Value
      BY <1>4, <2>0, <2>5
    <3>3. /\ table \in [Id -> Value \union {Absent}] /\ table[id] = value
          /\ \A j \in Id \ {id} : table[j] = rows[j]
          /\ {id} \in SUBSET Id
      BY <1>2, <1>4, <2>0, <3>2
    <3>4. value # Absent
      BY <3>2 DEF WellPosed
    <3> HIDE DEF table, value, id
    <3>5. /\ rows' = last' /\ last'[id] = value
          /\ \A j \in Id \ {id} : last'[j] = last[j]
      BY <1>3, <3>1, <3>3, AuthoredLast
    <3>6. UpToDate(c)'
      BY <2>0, <3>1, <3>4, <3>5 DEF UpToDate, id
    <3>7. \A e \in Coming' : Harmless(e)'
      <4> SUFFICES ASSUME NEW e \in Coming PROVE Harmless(e)'
        BY <2>0
      <4>1. Op(c) = "bulkUpdate" /\ e.id # id
        BY <1>4, <2>0, <2>2
      <4>2. e.id \in Id
        BY <1>4, <2>0, <2>2, Requests DEF Item
      <4>3. last'[e.id] = last[e.id] /\ Harmless(e)
        BY <1>3, <3>5, <4>1, <4>2
      <4>4. QED
        BY <4>3 DEF Harmless
    <3>8. QED
      BY <1>4, <2>0, <2>3, <3>1, <3>5, <3>6, <3>7, OrderOf
  <2>6. QED
    BY <2>1, <2>4, <2>5
\* Where a bulk update goes from its item.
<1>14. ASSUME NEW c \in Command, Continue(c), NextItem(c), Op(c) = "bulkUpdate",
              UNCHANGED <<rows, last>>, \A e \in Coming' : Harmless(e)',
              \A e \in Coming' : e \in Coming \/ e.id = Now(c).id
       PROVE  InOrder'
  <2>1. \/ stage'[c] = "write" /\ item'[c] = item[c] + 1
        \/ stage'[c] = "ok"
    BY <1>2, <1>14 DEF NextItem
  <2>2. CASE stage'[c] = "ok"
    BY <1>3, <1>4, <1>14, <2>2, OrderOf DEF Active, Over
  <2>3. CASE stage'[c] = "write" /\ item'[c] = item[c] + 1
    <3>1. stage[c] # "announce"
      BY <1>2, <1>14 DEF AtPlace
    <3>2. \A e \in Coming' : \E k \in 1 .. item[c] : e.id = List(c)[k].id
      BY <1>4, <1>14, <3>1 DEF OnlyOwn
    <3>3. item[c] \in Nat /\ \A k \in 1 .. item[c] : k \in 1 .. item[c] + 1 /\ k # item[c] + 1
      BY <1>2
    <3>4. OnlyOwn(c)'
      BY <1>4, <1>14, <2>3, <3>2, <3>3 DEF OnlyOwn
    <3>5. UpToDate(c)'
      BY <1>4, <1>14, <2>3 DEF UpToDate
    <3>6. QED
      BY <1>3, <1>4, <1>14, <3>4, <3>5, OrderOf
  <2>4. QED
    BY <2>1, <2>2, <2>3
<1>15. ASSUME NEW c \in Command, Reload(c) PROVE InOrder'
  <2> DEFINE id == Now(c).id  row == rows[id]  event == NewEvent(c, "updated", id, row, 1)
  <2>0. /\ Continue(c) /\ stage[c] = "reload" /\ Op(c) \in {"update", "bulkUpdate"}
        /\ UNCHANGED <<rows, last, ask>> /\ row = last[id]
    BY <1>3, <1>15 DEF Continue, Reload
  <2>1. /\ Coming' \subseteq Coming \union {event}
        /\ row = Absent => Coming' = Coming
    BY <1>8, <1>15, ComingPublished DEF Reload
  <2>2. \A e \in Coming' : Harmless(e)'
    <3>1. event.kind = "updated" /\ event.id = id /\ event.value = row
      BY <1>7
    <3>2. Harmless(event)
      BY <2>0, <3>1 DEF Harmless
    <3>3. QED
      BY <1>3, <2>0, <2>1, <3>2 DEF Harmless
  <2>3. /\ reads'[c] = Append(reads[c], row)
        /\ reads'[c][Len(reads[c]) + 1] = row
        /\ \A i \in DOMAIN reads[c] : reads'[c][i] = reads[c][i]
    BY <1>2, <1>4, <1>15, <2>0, AppendProperties DEF Reload
  <2>4. CASE Op(c) = "update"
    <3>1. stage'[c] = "announce" /\ item' = item /\ Len(reads[c]) = 1
      BY <1>2, <1>15, <2>0, <2>4 DEF Reload, AtPlace
    <3>2. reads'[c][2] = row /\ reads'[c][1] = reads[c][1]
      BY <1>2, <2>3, <3>1
    <3>3. UpToDate(c)' /\ OnlyOwn(c)'
      BY <1>4, <2>0, <2>4, <3>1, <3>2 DEF UpToDate, OnlyOwn
    <3>4. QED
      BY <1>3, <1>4, <2>0, <2>2, <3>3, OrderOf
  <2>5. CASE Op(c) = "bulkUpdate" /\ row = Absent
    <3>1. NextItem(c)
      BY <1>15, <2>5 DEF Reload
    <3>2. QED
      BY <1>14, <2>0, <2>1, <2>2, <2>5, <3>1
  <2>6. CASE Op(c) = "bulkUpdate" /\ row # Absent
    <3>1. stage'[c] = "again" /\ item' = item /\ Len(reads[c]) + 1 = item[c]
      BY <1>2, <1>15, <2>0, <2>6 DEF Reload, AtPlace
    <3>2. UpToDate(c)'
      BY <1>4, <2>0, <2>3, <2>6, <3>1 DEF UpToDate
    <3>3. \A e \in Coming' : \E k \in 1 .. item[c] : e.id = List(c)[k].id
      <4>1. event.id = List(c)[item[c]].id /\ item[c] \in 1 .. item[c]
        BY <1>4, <1>7, <2>0
      <4>2. \A e \in Coming : \E k \in 1 .. item[c] : e.id = List(c)[k].id
        BY <1>4, <2>0 DEF OnlyOwn
      <4>3. QED
        BY <2>1, <4>1, <4>2
    <3>4. OnlyOwn(c)'
      BY <1>4, <2>0, <2>6, <3>1, <3>3 DEF OnlyOwn
    <3>5. QED
      BY <1>3, <1>4, <2>0, <2>2, <3>2, <3>4, OrderOf
  <2>7. QED
    BY <2>0, <2>4, <2>5, <2>6
<1>16. ASSUME NEW c \in Command, PublishAgain(c) PROVE InOrder'
  <2> DEFINE second == NewEvent(c, "updated", Now(c).id, reads[c][Len(reads[c])], 2)
  <2>0. /\ Continue(c) /\ stage[c] = "again" /\ Op(c) = "bulkUpdate"
        /\ NextItem(c) /\ UNCHANGED <<rows, last>>
    BY <1>2, <1>16 DEF Continue, PublishAgain, AtPlace
  <2>1. reads[c][Len(reads[c])] = last[Now(c).id]
    BY <1>2, <1>4, <2>0 DEF AtPlace, UpToDate
  <2>2. Coming' \subseteq Coming \union {second}
    BY <1>16 DEF PublishAgain, Coming, Unread
  <2>3. second.kind = "updated" /\ second.id = Now(c).id /\ second.value = last[Now(c).id]
    BY <1>7, <2>1
  <2>4. Harmless(second)
    BY <2>3 DEF Harmless
  <2>5. \A e \in Coming' : Harmless(e)'
    BY <1>3, <2>0, <2>2, <2>4 DEF Harmless
  <2>6. QED
    BY <1>14, <2>0, <2>2, <2>3, <2>5
<1>17. ASSUME NEW c \in Command, Remove(c) PROVE InOrder'
  <2> DEFINE id == Now(c).id  table == [rows EXCEPT ![id] = Absent]
             event == NewEvent(c, "deleted", id, reads[c][1], 1)
  <2>0. Continue(c) /\ Op(c) = "delete" /\ stage[c] = "write" /\ stage'[c] = "ok"
    BY <1>2, <1>17 DEF Continue, Remove
  <2>1. Author(c, {id}, table) /\ Coming' \subseteq Coming \union {event} /\ Coming = {}
    BY <1>5, <1>17, <2>0, ComingPublished DEF Remove
  <2>2. /\ table \in [Id -> Value \union {Absent}] /\ table[id] = Absent
        /\ \A j \in Id \ {id} : table[j] = rows[j]
        /\ {id} \in SUBSET Id
    BY <1>2, <1>4, <2>0
  <2>3. event.kind = "deleted" /\ event.id = id
    BY <1>7
  <2> HIDE DEF table, id, event
  <2>4. rows' = last' /\ last'[id] = Absent
    BY <1>3, <2>1, <2>2, AuthoredLast
  <2>5. \A e \in Coming' : Harmless(e)'
    BY <2>1, <2>3, <2>4 DEF Harmless
  <2>6. QED
    BY <1>4, <2>0, <2>4, <2>5, OrderOf DEF Active, Over
<1>18. ASSUME NEW c \in Command, RemoveAll(c) PROVE InOrder'
  <2> DEFINE table == [id \in Id |-> IF id \in Ids(c) THEN Absent ELSE rows[id]]
  <2>0. /\ Continue(c) /\ Op(c) = "bulkDelete" /\ stage[c] = "write" /\ stage'[c] = "find"
        /\ item' = item /\ reads' = reads
    BY <1>2, <1>18 DEF Continue, RemoveAll
  <2>1. Author(c, Ids(c), table) /\ Coming' = Coming /\ Coming = {}
    BY <1>5, <1>8, <1>18, <2>0 DEF RemoveAll
  <2>2. /\ table \in [Id -> Value \union {Absent}] /\ Ids(c) \in SUBSET Id
        /\ \A id \in Ids(c) : table[id] = Absent
        /\ \A id \in Id \ Ids(c) : table[id] = rows[id]
    BY <1>2, <1>4, <2>0
  <2> HIDE DEF table
  <2>3. rows' = last' /\ \A id \in Ids(c) : last'[id] = Absent
    BY <1>3, <2>1, <2>2, AuthoredLast
  <2>4. OnlyOwn(c)' /\ UpToDate(c)'
    BY <1>4, <2>0, <2>1, <2>3 DEF OnlyOwn, UpToDate
  <2>5. QED
    BY <1>4, <2>0, <2>1, <2>3, <2>4, OrderOf
\* bulkDelete finds none of the rows that it has removed.
<1>19. ASSUME NEW c \in Command, FindRemoved(c) PROVE InOrder'
  <2>0. Continue(c) /\ Op(c) = "bulkDelete" /\ stage[c] = "find"
    BY <1>19 DEF Continue, FindRemoved
  <2>1. rows[Now(c).id] = Absent
    BY <1>3, <1>4, <2>0 DEF UpToDate
  <2>2. stage'[c] = "refused" /\ UNCHANGED <<rows, last, item, ask>> /\ UNCHANGED busState
    BY <1>2, <1>19, <2>1 DEF FindRemoved, busState
  <2>3. \A e \in Coming' : Harmless(e)'
    BY <1>3, <1>8, <2>2 DEF Harmless
  <2>4. QED
    BY <1>3, <1>4, <2>0, <2>2, <2>3, OrderOf DEF Active, Over
<1>20. ASSUME NEW c \in Command, Announce(c) PROVE InOrder'
  <2> DEFINE event == AnnouncedEvent(c)
  <2>0. /\ Continue(c) /\ Op(c) = "update" /\ stage[c] = "announce"
        /\ UNCHANGED <<rows, last, ask>>
        /\ stage'[c] \in {"ok", "refused"}
        /\ UNCHANGED <<local, sending, echoes, consumed, seen>>
        /\ Len(reads[c]) = 2
    BY <1>2, <1>20 DEF Continue, Announce, AtPlace
  <2>1. CASE UNCHANGED topic
    <3>1. UNCHANGED busState
      BY <2>0, <2>1 DEF busState
    <3>2. \A e \in Coming' : Harmless(e)'
      BY <1>3, <1>8, <2>0, <3>1 DEF Harmless
    <3>3. QED
      BY <1>3, <1>4, <2>0, <3>2, OrderOf DEF Active, Over
  <2>2. CASE /\ event \in Event /\ event.kind \in StatusKind
             /\ topic' = [topic EXCEPT ![event.kind] = Append(@, event)]
             /\ InTopics' = InTopics \union {event}
    <3>1. /\ event.id = Now(c).id /\ event.value = DslValue(c)
          /\ event.whole = (reads[c] # <<Absent, Absent>>)
      BY DEF AnnouncedEvent, NewEvent
    <3>2. event.whole
      <4>1. \A e \in InTopics' : e.whole
        BY DEF Orderly, Unfounded
      <4>2. QED
        BY <2>2, <4>1
    <3>3. reads[c][2] # Absent
      <4> SUFFICES ASSUME reads[c][2] = Absent PROVE FALSE
        OBVIOUS
      <4>1. reads[c][1] = Absent
        BY <1>4, <2>0 DEF UpToDate
      <4>2. /\ <<Absent, Absent>> \in Seq(Value \union {Absent})
            /\ Len(<<Absent, Absent>>) = 2
            /\ \A i \in 1 .. 2 : <<Absent, Absent>>[i] = Absent
        OBVIOUS
      <4>3. \A i \in 1 .. 2 : reads[c][i] = <<Absent, Absent>>[i]
        BY <4>1, <4>2
      <4>4. reads[c] = <<Absent, Absent>>
        BY <1>2, <2>0, <4>2, <4>3, SeqEqual
      <4>5. QED
        BY <3>1, <3>2, <4>4
    <3>4. event.value = last[event.id]
      BY <1>4, <2>0, <3>1, <3>3 DEF UpToDate, DslValue
    <3>5. Harmless(event)
      BY <2>2, <3>4 DEF Harmless, WellPosed
    <3>6. Coming' \subseteq Coming \union {event}
      <4>1. \A j \in Kind : Unread(j)' \subseteq Unread(j) \union {event}
        BY <2>0, <2>2, UnreadAppended DEF Kind
      <4>2. QED
        BY <2>0, <4>1 DEF Coming
    <3>7. \A e \in Coming' : Harmless(e)'
      BY <1>3, <2>0, <3>5, <3>6 DEF Harmless
    <3>8. QED
      BY <1>3, <1>4, <2>0, <3>7, OrderOf DEF Active, Over
  <2>3. QED
    BY <1>20, <2>1, <2>2, Announcements
<1>21. ASSUME NEW c \in Command, Fail(c) PROVE InOrder'
  <2>1. /\ UNCHANGED <<rows, last, ask, reads, item, replaying>> /\ UNCHANGED busState
        /\ \A d \in Command : stage'[d] = stage[d] \/ stage'[d] = "refused"
    BY <1>2, <1>21 DEF Fail
  <2>2. QED
    BY <1>3, <1>8, <2>1, OrderStays DEF Over
\* A command that comes in finds everything over.
<1>22. ASSUME NEW c \in Command, Request(c) \/ TurnAway(c) PROVE InOrder'
  <2>1. /\ UNCHANGED <<rows, last, ask, reads, item, replaying>> /\ UNCHANGED busState
        /\ stage' = [stage EXCEPT ![c] = stage'[c]] /\ stage'[c] \in {"service", "refused"}
        /\ Quiet
    BY <1>2, <1>22 DEF Request, TurnAway, Enter, Orderly
  <2>2. Coming = {}
    <3>1. \A k \in Kind : Unread(k) = {}
      BY <2>1, TopicEvents DEF Quiet, Unread
    <3>2. QED
      BY <2>1, <3>1 DEF Quiet, Coming
  <2>3. Alone(c)
    BY <2>1 DEF Quiet, Alone, Active
  <2>4. Coming' = {} /\ \A d \in Command \ {c} : stage'[d] = stage[d]
    BY <1>2, <1>8, <2>1, <2>2
  <2>5. OnlyOwn(c)' /\ UpToDate(c)'
    BY <2>1, <2>4 DEF OnlyOwn, UpToDate
  <2>6. QED
    BY <1>3, <2>1, <2>3, <2>4, <2>5, OrderOf
\* What comes back changes nothing.
<1>23. ASSUME NEW e \in local \union echoes, Apply(e) PROVE InOrder'
  <2>1. e \in Coming /\ e \in Event
    BY DEF Coming, TypeOK
  <2>2. Projected(e) = rows
    <3>1. Harmless(e) /\ e.id \in Id
      BY <1>3, <2>1 DEF Event
    <3>2. \A id \in Id : Projected(e)[id] = rows[id]
      BY <1>3, <3>1 DEF Harmless, Projected, TypeOK
    <3>3. Projected(e) = [id \in Id |-> Projected(e)[id]] /\ rows = [id \in Id |-> rows[id]]
      BY DEF Projected, TypeOK
    <3>4. QED
      BY <3>2, <3>3
  <2>3. /\ UNCHANGED <<rows, last, ask, reads, item, replaying, stage>>
        /\ Coming' \subseteq Coming
    BY <1>23, <2>2 DEF Apply, commandState, Coming, Unread
  <2>4. QED
    BY <1>3, <2>3, OrderStays
<1>24. ASSUME NEW e \in local \union echoes, ApplyFails(e) PROVE InOrder'
  <2>1. /\ UNCHANGED <<rows, last, ask, reads, item, replaying, stage>>
        /\ Coming' \subseteq Coming
    BY <1>24 DEF ApplyFails, commandState, Coming, Unread
  <2>2. QED
    BY <1>3, <2>1, OrderStays
<1>25. ASSUME NEW e \in sending, Send(e) PROVE InOrder'
  <2>1. e \in Event /\ e.kind \in Kind
    BY DEF TypeOK, Event
  <2>2. \A j \in Kind : Unread(j)' \subseteq Unread(j) \union {e}
    BY <1>25, <2>1, UnreadAppended DEF Send
  <2>3. /\ UNCHANGED <<rows, last, ask, reads, item, replaying, stage>>
        /\ UNCHANGED <<local, echoes>> /\ sending' \subseteq sending
    BY <1>25 DEF Send, commandState
  <2>4. Coming' \subseteq Coming
    BY <2>2, <2>3 DEF Coming
  <2>5. QED
    BY <1>3, <2>3, <2>4, OrderStays
<1>26. ASSUME NEW e \in sending, SendFails(e) PROVE InOrder'
  <2>1. /\ UNCHANGED <<rows, last, ask, reads, item, replaying, stage>>
        /\ Coming' \subseteq Coming
    BY <1>26 DEF SendFails, commandState, Coming, Unread
  <2>2. QED
    BY <1>3, <2>1, OrderStays
<1>27. ASSUME NEW k \in Kind, Route(k) PROVE InOrder'
  <2>1. /\ UNCHANGED <<rows, last, ask, reads, item, replaying, stage>>
        /\ UNCHANGED <<local, sending, topic>>
        /\ echoes' \subseteq echoes \union {Upcoming(k)}
    BY <1>27 DEF Route, commandState
  <2>2. consumed[k] \in Nat /\ Len(topic[k]) \in Nat /\ consumed[k] < Len(topic[k])
    BY <1>27, TopicEvents DEF Route, Pending, TypeOK
  <2>3. Upcoming(k) \in Unread(k)
    BY <2>2 DEF Upcoming, Unread
  <2>4. ASSUME NEW j \in Kind PROVE Unread(j)' \subseteq Unread(j)
    <3>1. consumed[j] \in Nat /\ consumed'[j] \in {consumed[j], consumed[j] + 1}
      BY <1>27 DEF Route, Consume, TypeOK
    <3>2. Len(topic[j]) \in Nat
      BY TopicEvents
    <3>3. \A i \in consumed'[j] + 1 .. Len(topic[j]) : i \in consumed[j] + 1 .. Len(topic[j])
      BY <3>1, <3>2
    <3>4. QED
      BY <2>1, <3>3 DEF Unread
  <2>5. Coming' \subseteq Coming
    BY <2>1, <2>3, <2>4 DEF Coming
  <2>6. QED
    BY <1>3, <2>1, <2>5, OrderStays
<1>28. ASSUME NEW k \in Kind, Replay(k) PROVE InOrder'
  BY <1>3, <1>28 DEF Replay
<1>29. CASE StartReplay
  BY <1>29 DEF StartReplay, Orderly
<1>30. CASE Crash
  BY <1>30, CrashOrder DEF Orderly
<1>31. CASE UNCHANGED vars
  <2>1. UNCHANGED <<rows, last, ask, reads, item, replaying, stage>> /\ UNCHANGED busState
    BY <1>31 DEF commandState
  <2>2. QED
    BY <1>3, <1>8, <2>1, OrderStays
<1>32. QED
  BY <1>9, <1>10, <1>11, <1>13, <1>15, <1>16, <1>17, <1>18, <1>19, <1>20, <1>21, <1>22,
     <1>23, <1>24, <1>25, <1>26, <1>27, <1>28, <1>29, <1>30, <1>31
     DEF Next, Continue, Kafka, Settle

-----------------------------------------------------------------------------
(* The invariant.                                                          *)

\* The inductive invariant.
IInv ==
    /\ TypeOK
    /\ Placed
    /\ Grounded
    /\ AllReported
    /\ AllUnwritten
    /\ Calm

\* It holds at first: there are the rows that were written before, and nothing else.
LEMMA InitIInv ==
    ASSUME WellPosed, Init
    PROVE  IInv
<1>1. PICK s \in Scenarios : rows = s.rows /\ ask = s.ask /\ incidents = s.incidents
  BY DEF Init
<1>2. /\ rows \in [Id -> Value \union {Absent}] /\ incidents \in Nat
      /\ \A c \in Command : IsRequest(ask[c]) \/ ask[c] = Unsent
  BY <1>1 DEF WellPosed
<1>3. /\ InTopics = {} /\ Announced = {} /\ Coming = {}
  <2>1. \A k \in Kind : topic[k] = <<>> /\ consumed[k] = 0 /\ Len(topic[k]) = 0
    BY DEF Init
  <2>2. InTopics = {}
    BY <2>1 DEF Init, InTopics, Range
  <2>3. \A k \in Kind : Unread(k) = {}
    BY <2>1 DEF Unread
  <2>4. QED
    BY <2>2, <2>3 DEF Init, Announced, Coming
<1>4. TypeOK
  <2>1. <<>> \in Seq(Value \union {Absent}) /\ <<>> \in Seq(Event)
    OBVIOUS
  <2>2. topic \in [Kind -> Seq(Event)] /\ reads \in [Command -> Seq(Value \union {Absent})]
    BY <2>1 DEF Init
  <2>3. \E scenario \in Scenarios : ask = scenario.ask
    BY <1>1
  <2>4. /\ stage \in [Command -> Place] /\ item \in [Command -> Nat \ {0}]
        /\ wrote \in [Command -> SUBSET Id]
        /\ consumed \in [Kind -> Nat] /\ replayed \in [Kind -> Nat]
    BY DEF Init, Place
  <2>5. /\ local = {} /\ sending = {} /\ echoes = {} /\ seen = {} /\ lost = {}
        /\ authored \subseteq Id \X Value /\ replaying = FALSE /\ raced = FALSE
        /\ last \in [Id -> Value \union {Absent}]
    BY <1>2 DEF Init
  <2>6. QED
    BY <1>2, <2>2, <2>3, <2>4, <2>5 DEF TypeOK
<1>5. \A c \in Command : stage[c] = "waiting" /\ reads[c] = <<>> /\ item[c] = 1 /\ wrote[c] = {}
  BY DEF Init
<1>6. Placed
  BY <1>2, <1>5, Requests DEF Placed, AtPlace
<1>7. Grounded
  <2>1. RowsGrounded
    BY <1>2 DEF Init, RowsGrounded
  <2>2. ReadsGrounded
    BY <1>5 DEF ReadsGrounded
  <2>3. EventsGrounded
    BY <1>3 DEF Init, EventsGrounded
  <2>4. QED
    BY <2>1, <2>2, <2>3 DEF Grounded
<1>8. AllReported
  BY <1>5 DEF AllReported, Reported, InFront
<1>9. AllUnwritten
  BY <1>3, <1>5 DEF AllUnwritten, Unwritten, Init
<1>10. Calm
  BY <1>3, <1>5 DEF Calm, InOrder, Active, Init
<1>11. QED
  BY <1>4, <1>6, <1>7, <1>8, <1>9, <1>10 DEF IInv

\* Every step keeps it.
LEMMA IInvStep ==
    ASSUME WellPosed, IInv, [Next]_vars
    PROVE  IInv'
<1>1. TypeOK /\ Placed /\ Grounded /\ AllReported /\ AllUnwritten /\ Calm
  BY DEF IInv
<1>2. TypeOK' /\ Placed'
  BY <1>1, TypeStep, PlacedStep
<1>3. Grounded'
  BY <1>1, RowsStep, ReadsStep, EventsStep DEF Grounded
<1>4. AllReported' /\ AllUnwritten'
  BY <1>1, ReportedStep, UnwrittenStep
<1>5. Calm'
  BY <1>1, OrderlyBefore, OrderStep DEF Calm
<1>6. QED
  BY <1>2, <1>3, <1>4, <1>5 DEF IInv

\* It implies the safety properties.
LEMMA IInvSafe ==
    ASSUME WellPosed, IInv
    PROVE  /\ TypeOK /\ RowsGrounded /\ AcknowledgedAnnounced /\ BulkPrefix
           /\ RefusedCreationsLeaveNothing /\ CalmRowsAreLast
<1>1. TypeOK /\ Placed /\ Grounded /\ AllReported /\ AllUnwritten /\ Calm
  BY DEF IInv
<1>2. ASSUME NEW c \in Command, Op(c) \in Single \union Bulk
      PROVE  /\ IsRequest(ask[c]) /\ DOMAIN List(c) = 1 .. Len(List(c))
             /\ Len(List(c)) \in Nat /\ item[c] \in 1 .. Len(List(c))
             /\ \A i \in DOMAIN List(c) : List(c)[i].id \in Ids(c)
  <2>1. IsRequest(ask[c])
    BY <1>1, <1>2 DEF TypeOK, WellPosed, Unsent, Op, Single, Bulk
  <2>2. item[c] \in DOMAIN List(c)
    BY <1>1, <2>1 DEF Placed, AtPlace
  <2>3. QED
    BY <2>1, <2>2, Requests
<1>3. AcknowledgedAnnounced
  <2> SUFFICES ASSUME NEW c \in Command, stage[c] = "ok", NEW i \in DOMAIN List(c)
               PROVE  \/ \E e \in Announced : e.by = c /\ e.id = List(c)[i].id
                      \/ Op(c) = "bulkUpdate" /\ reads[c][i] = Absent
    BY DEF AcknowledgedAnnounced
  <2>1. Reported(c) /\ IsRequest(ask[c])
    BY <1>1 DEF AllReported, Placed, AtPlace
  <2>2. CASE Op(c) = "bulkUpdate"
    <3>1. DoneWith(c, i)
      BY <2>1, <2>2 DEF Reported, InFront
    <3>2. QED
      BY <2>2, <3>1 DEF DoneWith
  <2>3. CASE Op(c) # "bulkUpdate"
    <3>1. Handed(c, List(c)[i].id)
      BY <2>1, <2>3, Requests DEF Reported
    <3>2. QED
      BY <3>1 DEF Handed
  <2>4. QED
    BY <2>2, <2>3
<1>4. BulkPrefix
  <2> SUFFICES ASSUME NEW c \in Command, Op(c) = "bulkUpdate",
                      NEW i \in DOMAIN List(c), NEW j \in DOMAIN List(c), i < j,
                      List(c)[j].id \in wrote[c],
                      \A k \in 1 .. j - 1 : List(c)[k].id # List(c)[j].id
               PROVE  DoneWith(c, i)
    BY DEF BulkPrefix
  <2>1. InFront(c)
    BY <1>1 DEF AllReported, Reported
  <2>2. PICK k \in 1 .. item[c] : List(c)[k].id = List(c)[j].id
    BY <2>1 DEF InFront
  <2>3. i \in 1 .. item[c] - 1
    BY <1>2, <2>2 DEF Bulk
  <2>4. QED
    BY <2>1, <2>3 DEF InFront
<1>5. RefusedCreationsLeaveNothing
  BY <1>1 DEF RefusedCreationsLeaveNothing, AllUnwritten, Unwritten
<1>6. CalmRowsAreLast
  BY <1>1 DEF CalmRowsAreLast, Calm, Orderly, InOrder
<1>7. QED
  BY <1>1, <1>3, <1>4, <1>5, <1>6 DEF Grounded

\* So it holds always.
LEMMA Invariance ==
    ASSUME WellPosed
    PROVE  Spec => []IInv
<1>1. Init => IInv
  BY InitIInv
<1>2. IInv /\ [Next]_vars => IInv'
  BY IInvStep
<1>3. QED
  BY <1>1, <1>2, PTL DEF Spec

\* The variables keep their types, through bulk commands, crashes and replays.
THEOREM TypeCorrect ==
    ASSUME WellPosed
    PROVE  Spec => []TypeOK
<1>1. IInv => TypeOK
  BY IInvSafe
<1>2. QED
  BY <1>1, Invariance, PTL

\* Whatever comes back late, twice, after a crash or from a replay, a row is one that a
\* command wrote or that was there, or what the announced status of a missing entity
\* made up.
THEOREM GroundedRows ==
    ASSUME WellPosed
    PROVE  Spec => []RowsGrounded
<1>1. IInv => RowsGrounded
  BY IInvSafe
<1>2. QED
  BY <1>1, Invariance, PTL

\* A command that was answered ok has handed an event to the publisher for every row
\* it wrote, unless the row was gone when it was read for the event.
THEOREM AcknowledgementsAnnounced ==
    ASSUME WellPosed
    PROVE  Spec => []AcknowledgedAnnounced
<1>1. IInv => AcknowledgedAnnounced
  BY IInvSafe
<1>2. QED
  BY <1>1, Invariance, PTL

\* A bulk update that ends halfway is done with the entities in front of the first one
\* that names a row it wrote.
THEOREM BulkUpdatesStopAtPrefixes ==
    ASSUME WellPosed
    PROVE  Spec => []BulkPrefix
<1>1. IInv => BulkPrefix
  BY IInvSafe
<1>2. QED
  BY <1>1, Invariance, PTL

\* A creation that is refused, at any place and of any size, leaves no row and no event.
THEOREM RefusalsLeaveNothing ==
    ASSUME WellPosed
    PROVE  Spec => []RefusedCreationsLeaveNothing
<1>1. IInv => RefusedCreationsLeaveNothing
  BY IInvSafe
<1>2. QED
  BY <1>1, Invariance, PTL

\* With one command at a time, no replay, no restart that reads an event again that the
\* table is past, nothing made up and no row named twice in a bulk update, the table
\* holds what the last command wrote whenever its events come, also from a restart.
THEOREM CalmRowsLast ==
    ASSUME WellPosed
    PROVE  Spec => []CalmRowsAreLast
<1>1. IInv => CalmRowsAreLast
  BY IInvSafe
<1>2. QED
  BY <1>1, Invariance, PTL

=============================================================================
