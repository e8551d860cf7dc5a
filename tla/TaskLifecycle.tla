--------------------------- MODULE TaskLifecycle ---------------------------
(***************************************************************************)
(* What a code task promises whoever submitted it (the module docstring of *)
(* retry.py and the return values of CodeTaskWorkflow.run): it works in    *)
(* rounds, a round follows only a failed verdict, there are at most        *)
(* MaxRounds of them, a task is completed only on a passing verdict and    *)
(* handed to a human only when the rounds are used up, and how it ended    *)
(* never changes.                                                          *)
(***************************************************************************)
EXTENDS Naturals

CONSTANT MaxRounds


VARIABLES round, verdict, outcome

lifecycle == <<round, verdict, outcome>>

Init ==
  /\ round = 0
  /\ verdict = "none"
  /\ outcome = "open"

BeginRound ==
  /\ outcome = "open"
  /\ round < MaxRounds
  /\ round = 0 \/ verdict = "fail"
  /\ round' = round + 1
  /\ verdict' = "none"
  /\ UNCHANGED outcome

Judge ==
  /\ outcome = "open"
  /\ round > 0
  /\ verdict = "none"
  /\ verdict' \in {"pass", "fail"}
  /\ UNCHANGED <<round, outcome>>

Close ==
  /\ outcome = "open"
  /\ outcome' \in {"completed", "needs_human_review", "halted", "failed", "crashed"}
  /\ outcome' = "completed" => verdict = "pass"
  /\ outcome' = "needs_human_review" => verdict = "fail" /\ round = MaxRounds
  /\ UNCHANGED <<round, verdict>>

Next == BeginRound \/ Judge \/ Close

Spec == Init /\ [][Next]_lifecycle

=============================================================================
