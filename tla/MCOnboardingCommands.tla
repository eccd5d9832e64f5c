-------------------------- MODULE MCOnboardingCommands --------------------------
(* An instance of OnboardingCommands for TLC: an onboarding starts and is  *)
(* approved, one command after the other and nothing that fails.           *)
EXTENDS OnboardingCommands, TLC

CONSTANTS a, start, approve

Ids == {a}
Commands == {start, approve}

Update(status) == [op |-> "update", items |-> <<[id |-> a, value |-> status]>>]

StartThenApprove ==
    {[rows |-> [id \in Ids |-> NotStarted], incidents |-> 0,
      ask |-> [c \in Commands |-> Update(IF c = start THEN InProgress ELSE Approved)]]}

=============================================================================
