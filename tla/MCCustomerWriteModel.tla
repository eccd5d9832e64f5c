------------------------- MODULE MCCustomerWriteModel -------------------------
(***************************************************************************)
(* One user, whose customer is created, changed and deleted, and created   *)
(* again under another id.  The DTOs name the risk level, the external     *)
(* reference, or both.                                                     *)
(***************************************************************************)
EXTENDS CustomerWriteModel, TLC

CONSTANTS client1, client2, first, second, low, high, none, external

OneClient == {client1}
TwoClients == {client1, client2}
OneId == {first}
TwoIds == {first, second}
Levels == {low, high}
References == {none, external}

LowRisk == [riskLevel |-> low, externalReference |-> NotGiven]
HighRisk == [riskLevel |-> high, externalReference |-> NotGiven]
Referred == [riskLevel |-> NotGiven, externalReference |-> external]
Both == [riskLevel |-> high, externalReference |-> external]
Dtos == {LowRisk, HighRisk, Referred, Both}

Creation(dto) == [op |-> "create", dto |-> dto]
Update(dto) == [op |-> "update", id |-> first, dto |-> dto]
Deletion == [op |-> "delete", id |-> first]

One(cmd) == <<client1, cmd>>
Other(cmd) == <<client2, cmd>>

\* The level and the reference change one after the other; the customer changes
\* under its creation; it is created twice; it changes and goes at once; it
\* goes; it goes and is created anew; two slots ask for the same change.
RacingCommands ==
    {[ask |-> <<One(Creation(LowRisk)), One(Update(HighRisk)), One(Update(Referred))>>,
      incidents |-> 0],
     [ask |-> <<One(Creation(LowRisk)), Other(Update(Both))>>, incidents |-> 1],
     [ask |-> <<One(Creation(LowRisk)), Other(Creation(LowRisk))>>, incidents |-> 1],
     [ask |-> <<One(Creation(LowRisk)), One(Update(Both)), Other(Deletion)>>,
      incidents |-> 0],
     [ask |-> <<One(Creation(LowRisk)), One(Deletion)>>, incidents |-> 1],
     [ask |-> <<One(Creation(LowRisk)), One(Deletion), Other(Creation(Both))>>,
      incidents |-> 1],
     [ask |-> <<One(Creation(Both)), One(Update(LowRisk)), Other(Update(LowRisk))>>,
      incidents |-> 0]}

\* The level is changed, changed back, and changed again.
BackAndForth ==
    {[ask |-> <<One(Creation(LowRisk)), One(Update(HighRisk)),
                One(Update(LowRisk)), One(Update(HighRisk))>>,
      incidents |-> 0]}

=============================================================================
