------------------------------- MODULE MCServer -------------------------------
(***************************************************************************)
(* One run for components of the server and of its tools whose promises    *)
(* are about what they leave behind. They share nothing here: a behaviour  *)
(* picks one of them, and the others keep the state they begin in, so that *)
(* the states of this run are the sum of theirs and not the product.       *)
(***************************************************************************)
EXTENDS Benchmark, Promotion, Replay, Archive, LiteStore, Handoff, Doors, Sandbox,
        TaskControl, TLC

CONSTANTS r1, r2, s1

VARIABLE part

Parts == {"bench", "promotion", "replay", "archive", "lite", "handoff",
          "doors", "sandbox", "control"}

serverVars ==
  <<benchVars, promotionVars, replayVars, archiveVars, liteVars, handoffVars,
    doorVars, sandboxVars, vars, part>>

\* A component that is not picked begins in one of its initial states.
PromotionRests == outcomes = (CHOOSE o \in RecentOutcomes : TRUE) /\ PromotionInit
ReplayRests == oracle = (CHOOSE o \in Oracles : TRUE) /\ ReplayInit
DoorRests == mode = "lite" /\ DoorInit
SandboxRests ==
  /\ files = [f \in PatchedFiles |-> "base"] /\ ownDir = "none"
  /\ sandbox = [state |-> "closed", local |-> FALSE, tries |-> 0, uses |-> 0]
  /\ SandboxInit

ServerInit ==
  /\ part \in Parts
  /\ BenchInit /\ ArchiveInit /\ LiteInit /\ HandoffInit
  /\ Init
  /\ IF part = "promotion" THEN PromotionInit ELSE PromotionRests
  /\ IF part = "replay" THEN ReplayInit ELSE ReplayRests
  /\ IF part = "doors" THEN DoorInit ELSE DoorRests
  /\ IF part = "sandbox" THEN SandboxInit ELSE SandboxRests

\* A step of the part that was picked.
Only(p) ==
  /\ UNCHANGED part
  /\ p # "bench" => UNCHANGED benchVars
  /\ p # "promotion" => UNCHANGED promotionVars
  /\ p # "replay" => UNCHANGED replayVars
  /\ p # "archive" => UNCHANGED archiveVars
  /\ p # "lite" => UNCHANGED liteVars
  /\ p # "handoff" => UNCHANGED handoffVars
  /\ p # "doors" => UNCHANGED doorVars
  /\ p # "sandbox" => UNCHANGED sandboxVars
  /\ p # "control" => UNCHANGED vars

ServerNext ==
  \/ part = "bench" /\ BenchNext /\ Only("bench")
  \/ part = "promotion" /\ PromotionNext /\ Only("promotion")
  \/ part = "replay" /\ ReplayNext /\ Only("replay")
  \/ part = "archive" /\ ArchiveNext /\ Only("archive")
  \/ part = "lite" /\ LiteNext /\ Only("lite")
  \/ part = "handoff" /\ HandoffNext /\ Only("handoff")
  \/ part = "doors" /\ DoorNext /\ Only("doors")
  \/ part = "sandbox" /\ SandboxNext /\ Only("sandbox")
  \/ part = "control" /\ Next /\ Only("control")

ServerSpec == ServerInit /\ [][ServerNext]_serverVars

-----------------------------------------------------------------------------
\* Reviewers, like those who replay, are interchangeable.
OneAndAnother == {r1, r2}
Symmetry == Permutations({r1, r2})
OneSweeper == {s1}
\* A diff that lands on the first tree, and one that takes it back.
ThereAndBack == {[t \in Trees |-> "t2"], [t \in Trees |-> "t1"]}
\* The tests ask for the second tree. Where the files are listed they are flaky on it.
SecondTreePasses ==
  {[listed |-> l, says |-> [t \in Trees |-> IF t = "t1" THEN {FALSE}
                                            ELSE IF l THEN BOOLEAN ELSE {TRUE}]] : l \in BOOLEAN}
SomeOutcomes ==
  {[completed |-> 9, review |-> 1, other |-> 0], [completed |-> 2, review |-> 0, other |-> 3]}

\* What a benchmark concludes is earned by paired results (bench/), and promotion leaves
\* no more candidates active than there are promoters at work (bench/promotion.py).
MeasurementIsSound == ResultsArePaired /\ ProceedIsEarned /\ ActiveAreFew

\* What the tools tell of an earlier run is so: a replay that finds another verdict has
\* judged other files or flaky tests (replay/engine.py), and what a handoff pack says is
\* what was done (core/handoff.py).
EvidenceIsSound == MismatchMeansChange /\ HandoffIsSound

\* A store gives back what was put there: blobs and recordings, unless two writers clash
\* over one file (core/blob.py), and the SQLite pool behind its PostgreSQL text (lite/).
StorageIsFaithful == OnlyClashesTear /\ LiteFaithful
===============================================================================
