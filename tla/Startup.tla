------------------------------- MODULE Startup -------------------------------
(***************************************************************************)
(* What the start of a messaging module promises: it tries again after a   *)
(* failure, MaxRetries times and no more, makes one attempt at a time, and *)
(* once one of them succeeds it is up until the process ends.              *)
(* KafkaBootstrap implements it.                                           *)
(***************************************************************************)
EXTENDS Naturals

CONSTANT MaxRetries

VARIABLES
    status,
    tries           \* attempts begun

Status == {"down", "trying", "waiting", "up", "gaveUp", "stopped"}

Init == status = "down" /\ tries = 0

Try ==
    /\ status \in {"down", "waiting"}
    /\ status' = "trying" /\ tries' = tries + 1

Succeed ==
    /\ status = "trying"
    /\ status' = "up" /\ UNCHANGED tries

\* The first attempt is no retry.
Fail ==
    /\ status = "trying"
    /\ status' = IF tries > MaxRetries THEN "gaveUp" ELSE "waiting"
    /\ UNCHANGED tries

\* The process ends.
Stop ==
    /\ status \notin {"down", "stopped"}
    /\ status' = "stopped" /\ UNCHANGED tries

Next == Try \/ Succeed \/ Fail \/ Stop

Spec == Init /\ [][Next]_<<status, tries>>

=============================================================================
