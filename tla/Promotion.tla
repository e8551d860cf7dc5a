------------------------------ MODULE Promotion ------------------------------
(***************************************************************************)
(* The rows of `candidates': what bench/scorer.py proposes from the        *)
(* outcomes of recent tasks, and bench/promotion.py, by which one of them  *)
(* becomes the active configuration.  The calls of promote_candidate and   *)
(* rollback run in processes of their own; each statement commits by       *)
(* itself.  Benchmarking and approving a candidate is done outside the     *)
(* code, on the row.                                                       *)
(***************************************************************************)
EXTENDS Integers, FiniteSets

CONSTANTS Candidates,   \* rows that may come to exist
          Promoters,    \* callers of promote_candidate at one time
          RecentOutcomes \* outcomes of recent tasks, counted: [completed, review, other]

ASSUME PromotionAssumption ==
  /\ IsFiniteSet(Promoters)
  /\ \A s \in RecentOutcomes : {s.completed, s.review, s.other} \subseteq Nat

VARIABLES rows,      \* the status of each row, "none" before it exists
          promoters, \* each caller: "idle", or the row it is about to promote
          outcomes,  \* of the recent tasks
          overlap    \* a promotion began while another was under way

promotionVars == <<rows, promoters, outcomes, overlap>>

PromotionInit ==
  /\ rows = [c \in Candidates |-> "none"]
  /\ promoters = [p \in Promoters |-> "idle"]
  /\ outcomes \in RecentOutcomes
  /\ overlap = FALSE

InStatus(s) == {c \in Candidates : rows[c] = s}

\* UPDATE ... SET status = 'rolled_back' WHERE status = 'promoted'
RolledBack == [c \in Candidates |-> IF rows[c] = "promoted" THEN "rolled_back" ELSE rows[c]]

-----------------------------------------------------------------------------
(* scorer.py *)

\* Every status but completed counts as a failure, those of open tasks too.
score_recent_tasks ==
  [total |-> outcomes.completed + outcomes.review + outcomes.other,
   completed |-> outcomes.completed,
   reasons |-> {r \in {"review", "other"} : outcomes[r] > 0}]

HighRate(score) == score.total >= 10 /\ 10 * score.completed > 8 * score.total

\* max() of no reason at all is an error: every one of ten tasks completed.
surface_raises(score) == HighRate(score) /\ score.reasons = {}

surface_candidates(score) ==
  {k \in {"planner", "thresholds", "top reason"} :
     \/ k = "planner" /\ score.total >= 5 /\ 2 * score.completed < score.total
     \/ k = "thresholds" /\ "review" \in score.reasons
     \/ k = "top reason" /\ HighRate(score)}

\* create_candidate_row for one of the candidates surfaced.
Propose(c) ==
  /\ rows[c] = "none"
  /\ LET score == score_recent_tasks
     IN  ~surface_raises(score) /\ surface_candidates(score) # {}
  /\ rows' = [rows EXCEPT ![c] = "proposed"]
  /\ UNCHANGED <<promoters, outcomes, overlap>>

\* Somebody benchmarks a row, then approves or rejects it.
Decide(c) ==
  /\ \/ rows[c] = "proposed" /\ rows' = [rows EXCEPT ![c] = "benchmarked"]
     \/ rows[c] = "benchmarked"
        /\ \E s \in {"approved", "rejected"} : rows' = [rows EXCEPT ![c] = s]
  /\ UNCHANGED <<promoters, outcomes, overlap>>

-----------------------------------------------------------------------------
(* promotion.py *)

\* Mutant: what is promoted stays until the new one is.
BeginWithoutRollback(p, c) ==
  /\ promoters[p] = "idle" /\ rows[c] # "none"
  /\ overlap' = (overlap \/ \E q \in Promoters : promoters[q] # "idle")
  /\ promoters' = [promoters EXCEPT ![p] = c]
  /\ UNCHANGED <<rows, outcomes>>

\* promote_candidate, its first statement.
BeginPromotion(p, c) ==
  /\ promoters[p] = "idle" /\ rows[c] # "none"
  /\ overlap' = (overlap \/ \E q \in Promoters : promoters[q] # "idle")
  /\ promoters' = [promoters EXCEPT ![p] = c]
  /\ rows' = RolledBack
  /\ UNCHANGED outcomes

\* Its second; with no such approved row ValueError, and nothing is restored.
EndPromotion(p) ==
  /\ promoters[p] # "idle"
  /\ rows' = [c \in Candidates |->
                IF c = promoters[p] /\ rows[c] = "approved" THEN "promoted" ELSE rows[c]]
  /\ promoters' = [promoters EXCEPT ![p] = "idle"]
  /\ UNCHANGED <<outcomes, overlap>>

rollback ==
  /\ InStatus("promoted") # {}
  /\ rows' = RolledBack
  /\ UNCHANGED <<promoters, outcomes, overlap>>

PromotionNext ==
  \/ \E c \in Candidates : Propose(c) \/ Decide(c)
  \/ \E p \in Promoters, c \in Candidates : BeginPromotion(p, c)
  \/ \E p \in Promoters : EndPromotion(p)
  \/ rollback

PromotionSpec == PromotionInit /\ [][PromotionNext]_promotionVars

-----------------------------------------------------------------------------
\* The code relies on the statement before for there being one active configuration:
\* without overlapping promotions there is at most one, and with them never more than
\* there are promoters.
ActiveAreFew ==
  /\ Cardinality(InStatus("promoted")) <= Cardinality(Promoters)
  /\ ~overlap => Cardinality(InStatus("promoted")) <= 1

\* "Any previously promoted candidate is rolled back first" and "LIMIT 1": one
\* configuration is active.  Overlapping promotions leave two.
OneIsActive == Cardinality(InStatus("promoted")) <= 1

\* "Promotion flips the config atomically" (promotion.py): between the two statements,
\* and for good when the second finds no approved row, nothing is active.
PromotionFlips ==
  [][\A p \in Promoters, c \in Candidates :
       rows[c] = "promoted" /\ promoters'[p] # promoters[p] => InStatus("promoted")' # {}]_promotionVars

\* surface_candidates answers for every score.
ScorerAnswers == ~surface_raises(score_recent_tasks)
=============================================================================
