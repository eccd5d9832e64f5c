--------------------------- MODULE ReferralReadModel ---------------------------
(***************************************************************************)
(* The referral read model of CustomerQueryService: a request reads its    *)
(* root customer, the referral tree of SalesManager, or a made-up one when *)
(* there is none, the customers of the users in it, and the wallet of each *)
(* from the payment service, all at once; the earnings summary then reads  *)
(* the wallets once more.  Every call to another service takes the cached  *)
(* access token or logs in for a new one.                                  *)
(*                                                                         *)
(* A tree is the sequence of its users, and a user has at most one         *)
(* customer, which goes by the name of the user.                           *)
(***************************************************************************)
EXTENDS Integers, Sequences, FiniteSets, Functions

CONSTANTS
    ReadRequest,    \* concurrent requests
    Asked,          \* what each of them asks: an operation and its root customer
    User,
    InitialCustomers,
    Tree,           \* what SalesManager may answer
    AuthMode,       \* ways the deployment may be configured
    Lifetime,       \* how long a token of the security service may live
    Margin,         \* 15000: the token is not used that long before it expires
    FiveMinutes,    \* for how long a token without an expiry is kept
    NoToken

\* Bounds of the model.
CONSTANTS
    MaxTime,        \* the clock stops
    MaxLogins,      \* logins that succeed
    MaxWrites       \* customers that come or go

AuthModes == {"configured", "login", "anonymous"}

\* What the constants have to be.
WellPosed ==
    /\ AuthMode \subseteq AuthModes
    /\ Asked \in [ReadRequest -> [op : {"tree", "earnings"}, root : User]]
    /\ InitialCustomers \subseteq User
    /\ Tree \subseteq Seq(User) \ {<<>>}
    /\ Lifetime \subseteq Nat
    /\ Margin \in Nat /\ FiveMinutes \in Nat
    /\ MaxTime \in Nat /\ MaxLogins \in Nat /\ MaxWrites \in Nat
    /\ NoToken \notin [expires : Nat, stated : {"time", "nothing", "nonsense"}]

\* The calls of a request: a user stands for the call for its wallet.
Call == {"tree", "user", "manager"} \union User

\* A token: when it expires, and what the login says about that.
Token == [expires : Nat, stated : {"time", "nothing", "nonsense"}]

VARIABLES
    auth,           \* INTERNAL_SERVICE_AUTH_TOKEN, SA_EMAIL and SA_PWD, or neither
    internalAccessToken, internalAccessTokenExpiresAt,
    now,            \* the clock
    customers,      \* users that have a customer
    stage,          \* how far it is
    call,           \* call[r][k]: how far its call k is
    nodes,          \* the tree it works with
    linked,         \* customers found for the users of the tree
    round,          \* how often it has asked for the wallets
    logins, writes  \* so far

tokenVars == <<auth, internalAccessToken, internalAccessTokenExpiresAt>>
requestVars == <<stage, call, nodes, linked, round>>
vars == <<tokenVars, now, customers, requestVars, logins, writes>>

Stage == {"idle", "root", "tree", "synthetic", "nodes", "wallets",
          "ok", "notFound", "error"}
Final == {"ok", "notFound", "error"}
CallState == {"none", "login", "cached", "sent", "ok", "null"}
InFlight == {"cached", "sent"}

TypeOK ==
    /\ auth \in AuthMode
    /\ internalAccessToken \in Token \union {NoToken}
    /\ internalAccessTokenExpiresAt \in Int
    /\ now \in 0 .. MaxTime
    /\ customers \subseteq User
    /\ stage \in [ReadRequest -> Stage]
    /\ call \in [ReadRequest -> [Call -> CallState]]
    /\ nodes \in [ReadRequest -> Seq(User)]
    /\ linked \in [ReadRequest -> SUBSET User]
    /\ round \in [ReadRequest -> 0 .. 2]
    /\ logins \in 0 .. MaxLogins /\ writes \in 0 .. MaxWrites

Init ==
    /\ auth \in AuthMode
    /\ internalAccessToken = NoToken /\ internalAccessTokenExpiresAt = 0
    /\ now = 0
    /\ customers = InitialCustomers
    /\ stage = [r \in ReadRequest |-> "idle"]
    /\ call = [r \in ReadRequest |-> [k \in Call |-> "none"]]
    /\ nodes = [r \in ReadRequest |-> <<>>]
    /\ linked = [r \in ReadRequest |-> {}]
    /\ round = [r \in ReadRequest |-> 0]
    /\ logins = 0 /\ writes = 0

-----------------------------------------------------------------------------
(* Authorization of a call.                                                *)

\* Mutation: a cached token is used as long as there is one.
FreshForEver == internalAccessToken # NoToken

\* There is a cached token, and it has not run out.
Fresh == internalAccessToken # NoToken /\ internalAccessTokenExpiresAt > now

\* buildInternalAuthHeaders: a call waits for a login or goes out at once.
Opened ==
    CASE auth # "login" -> "sent"
      [] auth = "login" /\ Fresh -> "cached"
      [] OTHER -> "login"

\* The request opens calls, all at once; it is done with those of the step before.
Open(r, calls) ==
    [call EXCEPT ![r] = [k \in Call |-> IF k \in calls THEN Opened ELSE "none"]]

Answered(r, k, answer) == call' = [call EXCEPT ![r][k] = answer]

\* The security service grants a token.  The margin comes off the expiry that
\* it states, and off the five minutes when it states none.
LoginGranted(r, k) ==
    /\ call[r][k] = "login" /\ logins < MaxLogins
    /\ \E l \in Lifetime, s \in {"time", "nothing", "nonsense"} :
          /\ internalAccessToken' = [expires |-> now + l, stated |-> s]
          /\ internalAccessTokenExpiresAt' =
                CASE s = "time" -> now + l - Margin
                  [] s = "nothing" -> now + FiveMinutes - Margin
                  [] s = "nonsense" -> now + FiveMinutes
    /\ logins' = logins + 1
    /\ Answered(r, k, "sent")
    /\ UNCHANGED <<auth, now, customers, stage, nodes, linked, round, writes>>

\* It refuses or cannot be reached: the call goes out without a token.
LoginRefused(r, k) ==
    /\ call[r][k] = "login"
    /\ Answered(r, k, "sent")
    /\ UNCHANGED <<tokenVars, now, customers, stage, nodes, linked, round,
                   logins, writes>>

-----------------------------------------------------------------------------
(* A request.                                                              *)

Goto(r, to) == stage' = [stage EXCEPT ![r] = to]

\* getReferralTreeReadModel and getReferralEarningsSummary.
Ask(r) ==
    /\ stage[r] = "idle"
    /\ Goto(r, "root")
    /\ UNCHANGED <<tokenVars, now, customers, call, nodes, linked, round,
                   logins, writes>>

\* buildReferralReadModelContext: the root customer, and on to the tree.
FindRoot(r) ==
    /\ stage[r] = "root"
    /\ \/ Asked[r].root \in customers /\ Goto(r, "tree") /\ call' = Open(r, {"tree"})
       \/ Asked[r].root \notin customers /\ Goto(r, "notFound") /\ UNCHANGED call
    /\ UNCHANGED <<tokenVars, now, customers, nodes, linked, round, logins,
                   writes>>

\* fetchReferralTree: the tree of SalesManager, or one made of the root alone.
TreeAnswered(r) ==
    /\ stage[r] = "tree" /\ call[r]["tree"] \in InFlight
    /\ \/ /\ \E t \in Tree : nodes' = [nodes EXCEPT ![r] = t]
          /\ Goto(r, "nodes") /\ Answered(r, "tree", "ok")
       \/ /\ Goto(r, "synthetic")
          /\ call' = [Open(r, {"user", "manager"}) EXCEPT ![r]["tree"] = "null"]
          /\ UNCHANGED nodes
    /\ UNCHANGED <<tokenVars, now, customers, linked, round, logins, writes>>

\* fetchSecurityUserSnapshot and fetchSalesManagerSnapshot: what goes wrong is null.
SnapshotAnswered(r, k) ==
    /\ stage[r] = "synthetic" /\ k \in {"user", "manager"} /\ call[r][k] \in InFlight
    /\ \E answer \in {"ok", "null"} : Answered(r, k, answer)
    /\ UNCHANGED <<tokenVars, now, customers, stage, nodes, linked, round,
                   logins, writes>>

BothSnapshots(r) ==
    stage[r] = "synthetic" /\ \A k \in {"user", "manager"} : call[r][k] \in {"ok", "null"}

\* Mutation: the tree needs the snapshot of the sales manager too.
BuildOfBoth(r) ==
    /\ BothSnapshots(r)
    /\ IF call[r]["user"] = "ok" /\ call[r]["manager"] = "ok"
       THEN Goto(r, "nodes") /\ nodes' = [nodes EXCEPT ![r] = <<Asked[r].root>>]
       ELSE Goto(r, "notFound") /\ UNCHANGED nodes
    /\ UNCHANGED <<tokenVars, now, customers, call, linked, round, logins,
                   writes>>

\* buildSyntheticReferralTree needs the user only.
BuildSynthetic(r) ==
    /\ BothSnapshots(r)
    /\ IF call[r]["user"] = "ok"
       THEN Goto(r, "nodes") /\ nodes' = [nodes EXCEPT ![r] = <<Asked[r].root>>]
       ELSE Goto(r, "notFound") /\ UNCHANGED nodes
    /\ UNCHANGED <<tokenVars, now, customers, call, linked, round, logins,
                   writes>>

\* The customers of the users in the tree, and the calls for their wallets.
FindNodes(r) ==
    /\ stage[r] = "nodes"
    /\ LET found == Range(nodes[r]) \intersect customers IN
          /\ linked' = [linked EXCEPT ![r] = found]
          /\ call' = Open(r, found)
    /\ round' = [round EXCEPT ![r] = 1]
    /\ Goto(r, "wallets")
    /\ UNCHANGED <<tokenVars, now, customers, nodes, logins, writes>>

\* A statement fails, and with it the request.
FindFails(r) ==
    /\ stage[r] \in {"root", "nodes"}
    /\ Goto(r, "error")
    /\ UNCHANGED <<tokenVars, now, customers, call, nodes, linked, round,
                   logins, writes>>

\* fetchWalletSnapshot: what goes wrong is null, and counts as no wallet.
WalletAnswered(r, k) ==
    /\ stage[r] = "wallets" /\ k \in linked[r] /\ call[r][k] \in InFlight
    /\ \E answer \in {"ok", "null"} : Answered(r, k, answer)
    /\ UNCHANGED <<tokenVars, now, customers, stage, nodes, linked, round,
                   logins, writes>>

\* Mutation: the request waits for wallets that cannot be had.
AllWalletsFound(r) ==
    stage[r] = "wallets" /\ \A k \in linked[r] : call[r][k] = "ok"

AllWallets(r) ==
    stage[r] = "wallets" /\ \A k \in linked[r] : call[r][k] \in {"ok", "null"}

\* The earnings summary asks for the wallets that the context already asked for.
AskWalletsAgain(r) ==
    /\ AllWallets(r) /\ Asked[r].op = "earnings" /\ round[r] = 1
    /\ round' = [round EXCEPT ![r] = 2]
    /\ call' = Open(r, linked[r])
    /\ UNCHANGED <<tokenVars, now, customers, stage, nodes, linked, logins,
                   writes>>

Answer(r) ==
    /\ AllWallets(r) /\ (Asked[r].op = "earnings" => round[r] = 2)
    /\ Goto(r, "ok")
    /\ call' = Open(r, {})
    /\ UNCHANGED <<tokenVars, now, customers, nodes, linked, round,
                   logins, writes>>

-----------------------------------------------------------------------------
(* Around it.                                                              *)

Tick ==
    /\ now < MaxTime
    /\ now' = now + 1
    /\ UNCHANGED <<tokenVars, customers, requestVars, logins, writes>>

\* A command creates or deletes a customer.
Change(u) ==
    /\ writes < MaxWrites
    /\ writes' = writes + 1
    /\ customers' = IF u \in customers THEN customers \ {u} ELSE customers \union {u}
    /\ UNCHANGED <<tokenVars, now, requestVars, logins>>

-----------------------------------------------------------------------------

Step(r) ==
    \/ FindRoot(r) \/ TreeAnswered(r) \/ BuildSynthetic(r) \/ FindNodes(r) \/ FindFails(r)
    \/ AskWalletsAgain(r) \/ Answer(r)
    \/ \E k \in Call :
          LoginGranted(r, k) \/ LoginRefused(r, k) \/ SnapshotAnswered(r, k)
          \/ WalletAnswered(r, k)

Next ==
    \/ \E r \in ReadRequest : Ask(r) \/ Step(r)
    \/ Tick
    \/ \E u \in User : Change(u)

Spec == Init /\ [][Next]_vars

-----------------------------------------------------------------------------
(* Properties.                                                             *)

\* A call that takes the cached token, which another call may have logged in for
\* and a third one replaced, takes one that is good for longer than the margin,
\* unless the login did not say when it expires.
CachedTokenInTime ==
    [][\A r \in ReadRequest, k \in Call :
          call'[r][k] = "cached" /\ call[r][k] # "cached" =>
             \/ internalAccessToken.stated # "time"
             \/ now + Margin < internalAccessToken.expires]_vars

\* A request is told that something was not found only when the root customer was
\* not there, or neither SalesManager had a tree nor the security service the
\* user: no login, no wallet and no sales manager is needed for an answer.
RefusalJustified ==
    \A r \in ReadRequest : stage[r] = "notFound" =>
        \/ \A k \in Call : call[r][k] = "none"
        \/ call[r]["tree"] = "null" /\ call[r]["user"] = "null"

\* No request is under way.
Settled == \A r \in ReadRequest : stage[r] \in Final \union {"idle"}

\* A request that came in is answered, if the calls it makes are: no fetch has a
\* timeout of its own.
RequestsSettle == <>[]Settled

=============================================================================
