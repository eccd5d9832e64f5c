----------------------- MODULE ReferralReadModelProofs -----------------------
(***************************************************************************)
(* What holds of the referral read model for any requests, trees, tokens   *)
(* and clocks.                                                             *)
(***************************************************************************)
EXTENDS ReferralReadModel, TLAPS

(***************************************************************************)
(* The inductive invariant.                                                *)
(***************************************************************************)

\* The cache has the expiry that the login stated, less the margin.
TokenTimed ==
    internalAccessToken # NoToken /\ internalAccessToken.stated = "time"
        => internalAccessTokenExpiresAt = internalAccessToken.expires - Margin

\* A request has no calls before it knows its root, and none but the one for the
\* tree has failed when it falls back to the user.
CallsInStage ==
    \A r \in ReadRequest :
        /\ stage[r] \in {"idle", "root"} => \A k \in Call : call[r][k] = "none"
        /\ stage[r] = "synthetic" => call[r]["tree"] = "null"

IInv ==
    /\ TypeOK
    /\ TokenTimed
    /\ CallsInStage
    /\ RefusalJustified

-----------------------------------------------------------------------------
(* Types.                                                                  *)

LEMMA NamedCalls == {"tree", "user", "manager"} \subseteq Call /\ User \subseteq Call
BY DEF Call

LEMMA OpenedState == Opened \in {"sent", "cached", "login"}
BY DEF Opened

LEMMA OpenType ==
    ASSUME TypeOK, NEW r \in ReadRequest, NEW calls
    PROVE  Open(r, calls) \in [ReadRequest -> [Call -> CallState]]
BY OpenedState DEF TypeOK, Open, CallState

LEMMA AnsweredType ==
    ASSUME TypeOK, NEW r \in ReadRequest, NEW k \in Call,
           NEW answer \in CallState, Answered(r, k, answer)
    PROVE  /\ call' \in [ReadRequest -> [Call -> CallState]]
           /\ call'[r][k] = answer
           /\ \A j \in Call \ {k} : call'[r][j] = call[r][j]
           /\ \A q \in ReadRequest \ {r} : call'[q] = call[q]
BY DEF TypeOK, Answered

\* A step of request r leaves the others as they are, and looks only at itself.
LEMMA OthersKeep ==
    ASSUME CallsInStage, RefusalJustified, NEW r \in ReadRequest,
           \A q \in ReadRequest \ {r} : stage'[q] = stage[q] /\ call'[q] = call[q],
           stage'[r] \in {"idle", "root"} => \A k \in Call : call'[r][k] = "none",
           stage'[r] = "synthetic" => call'[r]["tree"] = "null",
           stage'[r] = "notFound" => \/ \A k \in Call : call'[r][k] = "none"
                                     \/ call'[r]["tree"] = "null" /\ call'[r]["user"] = "null"
    PROVE  CallsInStage' /\ RefusalJustified'
BY DEF CallsInStage, RefusalJustified

\* An answer comes to a call that is under way.
LEMMA AnsweredKeeps ==
    ASSUME IInv, UNCHANGED stage, NEW r \in ReadRequest, NEW k \in Call,
           call[r][k] \in {"login", "cached", "sent"},
           NEW answer \in CallState, Answered(r, k, answer)
    PROVE  CallsInStage' /\ RefusalJustified'
<1> USE DEF IInv
<1>1. /\ call'[r][k] = answer
      /\ \A j \in Call \ {k} : call'[r][j] = call[r][j]
      /\ \A q \in ReadRequest \ {r} : call'[q] = call[q]
  BY AnsweredType
<1>2. stage[r] \in {"idle", "root"} => FALSE
  BY DEF CallsInStage
<1>3. stage[r] = "synthetic" => call'[r]["tree"] = "null"
  BY <1>1, NamedCalls DEF CallsInStage
<1>4. stage[r] = "notFound" => call'[r]["tree"] = "null" /\ call'[r]["user"] = "null"
  BY <1>1, NamedCalls DEF RefusalJustified
<1>5. QED
  BY <1>1, <1>2, <1>3, <1>4, OthersKeep

LEMMA InitInv == ASSUME WellPosed, Init PROVE IInv
<1> USE DEF Init
<1>1. now \in 0 .. MaxTime /\ logins \in 0 .. MaxLogins /\ writes \in 0 .. MaxWrites
  BY DEF WellPosed
<1>2. call \in [ReadRequest -> [Call -> CallState]] /\ stage \in [ReadRequest -> Stage]
  BY DEF CallState, Stage
<1>3. /\ nodes \in [ReadRequest -> Seq(User)] /\ linked \in [ReadRequest -> SUBSET User]
      /\ round \in [ReadRequest -> 0 .. 2]
  OBVIOUS
<1>4. TypeOK
  BY <1>1, <1>2, <1>3 DEF WellPosed, TypeOK
<1>5. TokenTimed /\ CallsInStage /\ RefusalJustified
  BY NamedCalls DEF TokenTimed, CallsInStage, RefusalJustified
<1>6. QED
  BY <1>4, <1>5 DEF IInv

-----------------------------------------------------------------------------
(* The token.                                                              *)

LEMMA LoginGrantedInv ==
    ASSUME WellPosed, IInv, NEW r \in ReadRequest, NEW k \in Call, LoginGranted(r, k)
    PROVE  IInv'
<1>1. PICK l \in Lifetime, s \in {"time", "nothing", "nonsense"} :
          /\ internalAccessToken' = [expires |-> now + l, stated |-> s]
          /\ internalAccessTokenExpiresAt' =
                CASE s = "time" -> now + l - Margin
                  [] s = "nothing" -> now + FiveMinutes - Margin
                  [] s = "nonsense" -> now + FiveMinutes
  BY DEF LoginGranted
<1>2. l \in Nat /\ now \in Nat /\ Margin \in Nat /\ FiveMinutes \in Nat
  BY DEF WellPosed, IInv, TypeOK
<1>3. internalAccessToken' \in Token /\ internalAccessTokenExpiresAt' \in Int
  BY <1>1, <1>2 DEF Token
<1>4. TokenTimed'
  BY <1>1, <1>2 DEF TokenTimed
<1>5. logins' \in 0 .. MaxLogins
  BY DEF WellPosed, IInv, TypeOK, LoginGranted
<1>6. Answered(r, k, "sent") /\ "sent" \in CallState /\ call[r][k] = "login"
  BY DEF LoginGranted, CallState
<1>7. TypeOK'
  BY <1>3, <1>5, <1>6, AnsweredType DEF IInv, TypeOK, LoginGranted
<1>8. CallsInStage' /\ RefusalJustified'
  BY <1>6, AnsweredKeeps DEF LoginGranted
<1>9. QED
  BY <1>4, <1>7, <1>8 DEF IInv

LEMMA LoginRefusedInv ==
    ASSUME WellPosed, IInv, NEW r \in ReadRequest, NEW k \in Call, LoginRefused(r, k)
    PROVE  IInv'
<1>1. Answered(r, k, "sent") /\ "sent" \in CallState /\ call[r][k] = "login"
  BY DEF LoginRefused, CallState
<1>2. TypeOK' /\ TokenTimed'
  BY <1>1, AnsweredType DEF IInv, TypeOK, TokenTimed, LoginRefused, tokenVars
<1>3. CallsInStage' /\ RefusalJustified'
  BY <1>1, AnsweredKeeps DEF LoginRefused
<1>4. QED
  BY <1>2, <1>3 DEF IInv

-----------------------------------------------------------------------------
(* The steps of a request.  None of them touches the token.                *)

LEMMA AskInv == ASSUME WellPosed, IInv, NEW r \in ReadRequest, Ask(r) PROVE IInv'
<1> USE DEF IInv, Ask, Goto, tokenVars
<1>1. TypeOK' /\ TokenTimed'
  BY DEF TypeOK, TokenTimed, Stage
<1>2. CallsInStage' /\ RefusalJustified'
  BY DEF TypeOK, CallsInStage, RefusalJustified
<1>3. QED
  BY <1>1, <1>2

LEMMA FindRootInv == ASSUME WellPosed, IInv, NEW r \in ReadRequest, FindRoot(r) PROVE IInv'
<1> USE DEF IInv
<1>1. /\ stage' \in [ReadRequest -> Stage]
      /\ stage'[r] \in {"tree", "notFound"}
      /\ \A q \in ReadRequest \ {r} : stage'[q] = stage[q]
  BY DEF FindRoot, Goto, TypeOK, Stage
<1>2. /\ call' \in [ReadRequest -> [Call -> CallState]]
      /\ \A q \in ReadRequest \ {r} : call'[q] = call[q]
  <2>1. CASE call' = Open(r, {"tree"})
    BY <2>1, OpenType DEF TypeOK, Open
  <2>2. CASE UNCHANGED call
    BY <2>2 DEF TypeOK
  <2>3. QED
    BY <2>1, <2>2 DEF FindRoot
<1>3. TypeOK' /\ TokenTimed'
  BY <1>1, <1>2 DEF FindRoot, tokenVars, TypeOK, TokenTimed
<1>4. stage'[r] = "notFound" => \A k \in Call : call'[r][k] = "none"
  BY DEF FindRoot, Goto, TypeOK, CallsInStage
<1>5. CallsInStage' /\ RefusalJustified'
  BY <1>1, <1>2, <1>4, OthersKeep
<1>6. QED
  BY <1>3, <1>5

LEMMA TreeAnsweredInv ==
    ASSUME WellPosed, IInv, NEW r \in ReadRequest, TreeAnswered(r) PROVE IInv'
<1> USE DEF IInv, Goto, tokenVars
<1>1. CASE /\ \E t \in Tree : nodes' = [nodes EXCEPT ![r] = t]
           /\ Goto(r, "nodes") /\ Answered(r, "tree", "ok")
  <2>1. nodes' \in [ReadRequest -> Seq(User)]
    BY <1>1 DEF WellPosed, TypeOK
  <2>2. "ok" \in CallState
    BY DEF CallState
  <2>3. TypeOK' /\ TokenTimed'
    BY <1>1, <2>1, <2>2, AnsweredType, NamedCalls
       DEF TypeOK, TokenTimed, Stage, TreeAnswered
  <2>4. CallsInStage' /\ RefusalJustified'
    BY <1>1, <2>2, AnsweredType, NamedCalls
       DEF TypeOK, CallsInStage, RefusalJustified, TreeAnswered
  <2>5. QED
    BY <2>3, <2>4
<1>2. CASE /\ Goto(r, "synthetic")
           /\ call' = [Open(r, {"user", "manager"}) EXCEPT ![r]["tree"] = "null"]
           /\ UNCHANGED nodes
  <2>1. call' \in [ReadRequest -> [Call -> CallState]]
    <3>1. Open(r, {"user", "manager"}) \in [ReadRequest -> [Call -> CallState]]
      BY OpenType
    <3>2. "tree" \in Call /\ "null" \in CallState
      BY NamedCalls DEF CallState
    <3>3. QED
      BY <1>2, <3>1, <3>2
  <2>2. /\ call'[r]["tree"] = "null"
        /\ \A q \in ReadRequest \ {r} : call'[q] = call[q]
    BY <1>2, NamedCalls, OpenType DEF Open, TypeOK
  <2>3. TypeOK' /\ TokenTimed'
    BY <1>2, <2>1 DEF TypeOK, TokenTimed, Stage, TreeAnswered
  <2>4. CallsInStage' /\ RefusalJustified'
    BY <1>2, <2>2 DEF TypeOK, CallsInStage, RefusalJustified, TreeAnswered
  <2>5. QED
    BY <2>3, <2>4
<1>3. QED
  BY <1>1, <1>2 DEF TreeAnswered

LEMMA SnapshotAnsweredInv ==
    ASSUME WellPosed, IInv, NEW r \in ReadRequest, NEW k \in Call, SnapshotAnswered(r, k)
    PROVE  IInv'
<1> USE DEF IInv, SnapshotAnswered, tokenVars
<1>1. PICK answer \in {"ok", "null"} : Answered(r, k, answer)
  OBVIOUS
<1>2. answer \in CallState
  BY DEF CallState
<1>3. TypeOK' /\ TokenTimed'
  BY <1>1, <1>2, AnsweredType DEF TypeOK, TokenTimed
<1>4. CallsInStage' /\ RefusalJustified'
  BY <1>1, <1>2, AnsweredKeeps DEF InFlight
<1>5. QED
  BY <1>3, <1>4

\* The request is refused only when there is no user, and there was no tree then.
LEMMA BuildSyntheticInv ==
    ASSUME WellPosed, IInv, NEW r \in ReadRequest, BuildSynthetic(r) PROVE IInv'
<1> USE DEF IInv, BuildSynthetic, BothSnapshots, Goto, tokenVars
<1>1. nodes' \in [ReadRequest -> Seq(User)]
  <2>1. Asked[r].root \in User
    BY DEF WellPosed
  <2>2. <<Asked[r].root>> \in Seq(User)
    BY <2>1
  <2>3. QED
    BY <2>2 DEF TypeOK
<1>2. TypeOK' /\ TokenTimed'
  BY <1>1 DEF TypeOK, TokenTimed, Stage
<1>3. CallsInStage' /\ RefusalJustified'
  BY DEF TypeOK, CallsInStage, RefusalJustified
<1>4. QED
  BY <1>2, <1>3

LEMMA FindNodesInv ==
    ASSUME WellPosed, IInv, NEW r \in ReadRequest, FindNodes(r) PROVE IInv'
<1> USE DEF IInv, FindNodes, Goto, tokenVars
<1>1. linked' \in [ReadRequest -> SUBSET User] /\ round' \in [ReadRequest -> 0 .. 2]
  BY DEF TypeOK
<1>2. TypeOK' /\ TokenTimed'
  BY <1>1, OpenType DEF TypeOK, TokenTimed, Stage
<1>3. \A q \in ReadRequest \ {r} : call'[q] = call[q]
  BY DEF TypeOK, Open
<1>4. stage'[r] = "wallets" /\ \A q \in ReadRequest \ {r} : stage'[q] = stage[q]
  BY DEF TypeOK
<1>5. CallsInStage' /\ RefusalJustified'
  BY <1>3, <1>4, OthersKeep
<1>6. QED
  BY <1>2, <1>5

LEMMA FindFailsInv ==
    ASSUME WellPosed, IInv, NEW r \in ReadRequest, FindFails(r) PROVE IInv'
<1> USE DEF IInv, FindFails, Goto, tokenVars
<1>1. TypeOK' /\ TokenTimed'
  BY DEF TypeOK, TokenTimed, Stage
<1>2. CallsInStage' /\ RefusalJustified'
  BY DEF TypeOK, CallsInStage, RefusalJustified
<1>3. QED
  BY <1>1, <1>2

LEMMA WalletAnsweredInv ==
    ASSUME WellPosed, IInv, NEW r \in ReadRequest, NEW k \in Call, WalletAnswered(r, k)
    PROVE  IInv'
<1> USE DEF IInv, WalletAnswered, tokenVars
<1>1. PICK answer \in {"ok", "null"} : Answered(r, k, answer)
  OBVIOUS
<1>2. answer \in CallState
  BY DEF CallState
<1>3. TypeOK' /\ TokenTimed'
  BY <1>1, <1>2, AnsweredType DEF TypeOK, TokenTimed
<1>4. CallsInStage' /\ RefusalJustified'
  BY <1>1, <1>2, AnsweredKeeps DEF InFlight
<1>5. QED
  BY <1>3, <1>4

LEMMA AskWalletsAgainInv ==
    ASSUME WellPosed, IInv, NEW r \in ReadRequest, AskWalletsAgain(r) PROVE IInv'
<1> USE DEF IInv, AskWalletsAgain, AllWallets, tokenVars
<1>1. round' \in [ReadRequest -> 0 .. 2]
  BY DEF TypeOK
<1>2. TypeOK' /\ TokenTimed'
  BY <1>1, OpenType DEF TypeOK, TokenTimed
<1>3. \A q \in ReadRequest \ {r} : call'[q] = call[q]
  BY DEF TypeOK, Open
<1>4. stage'[r] = "wallets" /\ \A q \in ReadRequest \ {r} : stage'[q] = stage[q]
  BY DEF TypeOK
<1>5. CallsInStage' /\ RefusalJustified'
  BY <1>3, <1>4, OthersKeep
<1>6. QED
  BY <1>2, <1>5

LEMMA AnswerInv == ASSUME WellPosed, IInv, NEW r \in ReadRequest, Answer(r) PROVE IInv'
<1> USE DEF IInv, Answer, AllWallets, Goto, tokenVars
<1>1. TypeOK' /\ TokenTimed'
  BY OpenType DEF TypeOK, TokenTimed, Stage
<1>2. \A q \in ReadRequest \ {r} : call'[q] = call[q]
  BY DEF TypeOK, Open
<1>3. CallsInStage' /\ RefusalJustified'
  BY <1>2 DEF TypeOK, CallsInStage, RefusalJustified
<1>4. QED
  BY <1>1, <1>3

-----------------------------------------------------------------------------
(* Around it.                                                              *)

LEMMA TickInv == ASSUME WellPosed, IInv, Tick PROVE IInv'
<1> USE DEF IInv, Tick, tokenVars, requestVars
<1>1. now' \in 0 .. MaxTime
  BY DEF WellPosed, TypeOK
<1>2. QED
  BY <1>1 DEF TypeOK, TokenTimed, CallsInStage, RefusalJustified

LEMMA ChangeInv == ASSUME WellPosed, IInv, NEW u \in User, Change(u) PROVE IInv'
<1> USE DEF IInv, Change, tokenVars, requestVars
<1>1. writes' \in 0 .. MaxWrites
  BY DEF WellPosed, TypeOK
<1>2. QED
  BY <1>1 DEF TypeOK, TokenTimed, CallsInStage, RefusalJustified

LEMMA StepInv == ASSUME WellPosed, IInv, [Next]_vars PROVE IInv'
<1>1. ASSUME NEW r \in ReadRequest, Ask(r) \/ Step(r)
      PROVE  IInv'
  BY <1>1, AskInv, FindRootInv, TreeAnsweredInv, BuildSyntheticInv, FindNodesInv,
     FindFailsInv, AskWalletsAgainInv, AnswerInv, LoginGrantedInv, LoginRefusedInv,
     SnapshotAnsweredInv, WalletAnsweredInv DEF Step
<1>2. CASE Tick \/ (\E u \in User : Change(u))
  BY <1>2, TickInv, ChangeInv
<1>3. CASE UNCHANGED vars
  BY <1>3 DEF vars, tokenVars, requestVars, IInv, TypeOK, TokenTimed, CallsInStage,
              RefusalJustified
<1>4. QED
  BY <1>1, <1>2, <1>3 DEF Next

LEMMA Invariance == ASSUME WellPosed PROVE Spec => []IInv
<1>1. Init => IInv
  BY InitInv
<1>2. IInv /\ [Next]_vars => IInv'
  BY StepInv
<1>3. QED
  BY <1>1, <1>2, PTL DEF Spec

-----------------------------------------------------------------------------
(* The theorems.                                                           *)

\* Requests, token and clock are well typed.
THEOREM TypeCorrect == ASSUME WellPosed PROVE Spec => []TypeOK
<1>1. IInv => TypeOK
  BY DEF IInv
<1>2. QED
  BY <1>1, Invariance, PTL

\* A request is refused only for a root customer or a user that is not there.
THEOREM RefusalsJustified == ASSUME WellPosed PROVE Spec => []RefusalJustified
<1>1. IInv => RefusalJustified
  BY DEF IInv
<1>2. QED
  BY <1>1, Invariance, PTL

\* A cached token has not run out.
LEMMA FreshInTime ==
    ASSUME WellPosed, IInv, Opened = "cached"
    PROVE  \/ internalAccessToken.stated # "time"
           \/ now + Margin < internalAccessToken.expires
<1>1. internalAccessToken # NoToken /\ internalAccessTokenExpiresAt > now
  BY DEF Opened, Fresh
<1>2. internalAccessToken \in Token
  BY <1>1 DEF IInv, TypeOK
<1>3. internalAccessToken.expires \in Nat /\ now \in Nat /\ Margin \in Nat
  BY <1>2 DEF Token, IInv, TypeOK, WellPosed
<1>4. QED
  BY <1>1, <1>3 DEF IInv, TokenTimed

\* A call takes the cached token only when it is opened.
LEMMA CachedWhenOpened ==
    ASSUME WellPosed, IInv, [Next]_vars, NEW r \in ReadRequest, NEW k \in Call,
           call'[r][k] = "cached", call[r][k] # "cached"
    PROVE  Opened = "cached"
<1>0. TypeOK
  BY DEF IInv
<1>1. ASSUME NEW q \in ReadRequest, NEW calls, call' = Open(q, calls)
      PROVE  Opened = "cached"
  BY <1>0, <1>1 DEF Open, TypeOK
<1>2. ASSUME NEW q \in ReadRequest, NEW j \in Call, NEW answer \in {"sent", "ok", "null"},
             Answered(q, j, answer)
      PROVE  FALSE
  <2>1. answer \in CallState /\ answer # "cached"
    BY DEF CallState
  <2>2. QED
    BY <1>0, <1>2, <2>1, AnsweredType
<1>3. UNCHANGED call => FALSE
  OBVIOUS
<1>4. ASSUME NEW q \in ReadRequest, TreeAnswered(q)
      PROVE  Opened = "cached"
  <2>1. CASE Answered(q, "tree", "ok")
    BY <1>2, <2>1, NamedCalls
  <2>2. CASE call' = [Open(q, {"user", "manager"}) EXCEPT ![q]["tree"] = "null"]
    BY <1>0, <2>2, NamedCalls, OpenType DEF Open, TypeOK
  <2>3. QED
    BY <1>4, <2>1, <2>2 DEF TreeAnswered
<1>5. ASSUME NEW q \in ReadRequest, Ask(q) \/ Step(q)
      PROVE  Opened = "cached"
  <2>1. CASE Ask(q) \/ FindFails(q) \/ BuildSynthetic(q)
    BY <1>3, <2>1 DEF Ask, FindFails, BuildSynthetic
  <2>2. CASE FindRoot(q) \/ FindNodes(q) \/ AskWalletsAgain(q) \/ Answer(q)
    BY <1>1, <1>3, <2>2 DEF FindRoot, FindNodes, AskWalletsAgain, Answer
  <2>3. CASE \E j \in Call : \/ LoginGranted(q, j) \/ LoginRefused(q, j)
                             \/ SnapshotAnswered(q, j) \/ WalletAnswered(q, j)
    BY <1>2, <2>3 DEF LoginGranted, LoginRefused, SnapshotAnswered, WalletAnswered
  <2>4. QED
    BY <1>4, <1>5, <2>1, <2>2, <2>3 DEF Step
<1>6. CASE Tick \/ (\E u \in User : Change(u)) \/ UNCHANGED vars
  BY <1>3, <1>6 DEF Tick, Change, vars, requestVars
<1>7. QED
  BY <1>5, <1>6 DEF Next

\* A call that takes the cached token takes one that is good for longer than the
\* margin, whatever logins and requests run at once.
THEOREM CachedInTime == ASSUME WellPosed PROVE Spec => CachedTokenInTime
<1>1. IInv /\ [Next]_vars =>
        [\A r \in ReadRequest, k \in Call :
            call'[r][k] = "cached" /\ call[r][k] # "cached" =>
               \/ internalAccessToken.stated # "time"
               \/ now + Margin < internalAccessToken.expires]_vars
  BY FreshInTime, CachedWhenOpened
<1>2. QED
  BY <1>1, Invariance, PTL DEF Spec, CachedTokenInTime

=============================================================================
