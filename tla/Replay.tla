------------------------------- MODULE Replay -------------------------------
(***************************************************************************)
(* Replay of one task: replay/engine.py and replay/batch.py, the           *)
(* recordings it is answered from, the workspace it copies, and the        *)
(* memory (memory/facts.py, memory/consolidate.py) whose facts are part of *)
(* a worker's prompt; run_regression_gate of bench/regression_gate.py.     *)
(*                                                                         *)
(* The task itself is reduced to what a replay depends on: the requests of *)
(* its attempts, what the replies did to its workspace and the verdicts.   *)
(* A reply of the worker is no valid result, or a diff, which turns one    *)
(* tree of files into another, an earlier one perhaps, or does not land    *)
(* and leaves it. The verdicts that the tests may give on a tree are drawn *)
(* once: flaky tests, and those that time out now and then, give both.     *)
(***************************************************************************)
EXTENDS Integers, Sequences, FiniteSets

CONSTANTS WorkAttempts,   \* attempts of the task
          Trees,          \* what the workspace may hold,
          FirstTree,      \* and what it holds when the task begins
          Edits,          \* what diffs make of a tree; one that does not land leaves it
          Oracles,        \* see oracle
          Replayers,      \* replays that may run at once
          Consolidators,  \* `bucker memory consolidate' runs
          MaxFacts,       \* facts that match the objective
          OtherTasks      \* bound: what others do to recordings and memory

ASSUME ReplayAssumption ==
  /\ WorkAttempts \in Nat \ {0} /\ MaxFacts \in Nat /\ OtherTasks \in Nat
  /\ FirstTree \in Trees /\ "gone" \notin Trees /\ Edits \subseteq [Trees -> Trees]
  /\ Oracles \subseteq [listed : BOOLEAN, says : [Trees -> SUBSET BOOLEAN \ {{}}]]
  /\ IsFiniteSet(Replayers) /\ "nobody" \notin Replayers

VARIABLES oracle,    \* listed: the contract lists the files; says: verdicts on a tree
          original,  \* the task: pc, attempt, tree, verdicts
          recordings,\* the reply on record for a prompt
          others,    \* how often others changed the recordings or the memory
          memory,    \* facts: how many; marked: the task's marker file exists
          adding,    \* each consolidation
          copy,      \* workspace/replay/<task id>: whose copy it is, and its files
          replays    \* each replay; from: the tree it copied, tree: the one it verified

replayVars == <<oracle, original, recordings, others, memory, adding, copy, replays>>

Replies == [valid : {TRUE}, edit : Edits]
           \cup {[valid |-> FALSE, edit |-> [t \in Trees |-> t]]}
NoReplay == [pc |-> "none", expected |-> FALSE, outcome |-> "none", from |-> "gone",
             tree |-> "gone", disturbed |-> FALSE]
NoCopy == [owner |-> "nobody", tree |-> "gone"]

ReplayInit ==
  /\ oracle \in Oracles
  /\ original = [pc |-> "work", attempt |-> 1, tree |-> FirstTree, verdicts |-> <<>>]
  /\ recordings = [p \in {} |-> "none"]
  /\ others = 0
  /\ memory = [facts |-> 0, marked |-> FALSE]
  /\ adding = [c \in Consolidators |-> "none"]
  /\ copy = NoCopy
  /\ replays = [r \in Replayers |-> NoReplay]

\* build_prompt of worker_agent for the contract of the planner: the listed files as they
\* are, the matching facts.
Prompt(tree) == <<IF oracle.listed THEN tree ELSE "not listed", memory.facts>>

Kept(prompt, reply) ==
  [p \in DOMAIN recordings \cup {prompt} |-> IF p = prompt THEN reply ELSE recordings[p]]

\* Nothing is applied in a directory that is gone.
Apply(reply, tree) == IF tree \in Trees THEN reply.edit[tree] ELSE tree

\* Replay r goes on as `next'; whose directory it works in, if not its own, is disturbed.
InDirectory(r, next) ==
  [s \in Replayers |-> IF s = r THEN next
                       ELSE [replays[s] EXCEPT !.disturbed = @ \/ copy.owner = s]]

-----------------------------------------------------------------------------
(* The task: run_worker, run_verifier *)

\* A later attempt may ask in words, or a model, of its own, which no replay asks again.
\* An invalid reply is on record, too; the activity is tried again, or the task fails. A
\* replay that has not copied the files yet will copy those that the diff leaves.
RunWorker ==
  /\ original.pc = "work"
  /\ \E reply \in Replies, inItsWords \in BOOLEAN :
       /\ inItsWords => original.attempt > 1
       /\ recordings' = IF inItsWords THEN recordings
                        ELSE Kept(Prompt(original.tree), reply)
       /\ \E pc \in IF reply.valid THEN {"verify"} ELSE {"work", "closed"} :
            original' = [original EXCEPT !.pc = pc, !.tree = Apply(reply, @)]
  /\ replays' = [r \in Replayers |-> [replays[r] EXCEPT
       !.disturbed = @ \/ (replays[r].pc = "copy" /\ original'.tree # original.tree)]]
  /\ UNCHANGED <<oracle, others, memory, adding, copy>>

Verify ==
  /\ original.pc = "verify"
  /\ \E passed \in oracle.says[original.tree] :
       LET last == passed \/ original.attempt = WorkAttempts
       IN  original' = [original EXCEPT !.verdicts = Append(@, passed),
                          !.pc = IF last THEN "closed" ELSE "work",
                          !.attempt = IF last THEN @ ELSE @ + 1]
  /\ UNCHANGED <<oracle, recordings, others, memory, adding, copy, replays>>

\* Recordings are found by the digest of the request, whoever's it is: another task with
\* the same contract and files overwrites the reply.
OthersAsk ==
  /\ others < OtherTasks
  /\ \E p \in DOMAIN recordings, reply \in Replies : recordings' = Kept(p, reply)
  /\ others' = others + 1
  /\ UNCHANGED <<oracle, original, memory, adding, copy, replays>>

-----------------------------------------------------------------------------
(* Memory.  The workflow's own consolidate_task_memory calls               *)
(* consolidate_task with a UUID, which UUID(...) rejects: it adds nothing. *)

\* is_done and read_stream: nothing to add without a verdict.
CheckMarker(c) ==
  /\ adding[c] = "none"
  /\ ~memory.marked /\ original.verdicts # <<>>
  /\ adding' = [adding EXCEPT ![c] = "add"]
  /\ UNCHANGED <<oracle, original, recordings, others, memory, copy, replays>>

\* memory.add; mark_done comes after it.
AddFact(c) ==
  /\ adding[c] = "add" /\ memory.facts < MaxFacts
  /\ memory' = [memory EXCEPT !.facts = @ + 1]
  /\ adding' = [adding EXCEPT ![c] = "mark"]
  /\ UNCHANGED <<oracle, original, recordings, others, copy, replays>>

MarkDone(c) ==
  /\ adding[c] = "mark"
  /\ memory' = [memory EXCEPT !.marked = TRUE]
  /\ adding' = [adding EXCEPT ![c] = "done"]
  /\ UNCHANGED <<oracle, original, recordings, others, copy, replays>>

\* `bucker memory add' and consolidations of other tasks; prune and remove.
ChangeMemory ==
  /\ others < OtherTasks
  /\ memory' \in {[memory EXCEPT !.facts = n] : n \in 0..MaxFacts \ {memory.facts}}
  /\ others' = others + 1
  /\ UNCHANGED <<oracle, original, recordings, adding, copy, replays>>

-----------------------------------------------------------------------------
(* replay_task.  A step ends where it awaits. *)

\* A replay of a stream that is verified again as it is read has an old verdict.
Expecting(verdict) ==
  [NoReplay EXCEPT !.pc = "copy", !.expected = verdict, !.disturbed = original.pc = "verify"]

\* There is no second verdict.
Ended(pc, outcome) == [NoReplay EXCEPT !.pc = pc, !.outcome = outcome]

\* Mutant: the first verdict is taken for the task's.
StartFromFirst(r) ==
  /\ replays[r].pc = "none"
  /\ \/ replays' = [replays EXCEPT ![r] = Ended("done", "error")]
     \/ /\ original.verdicts # <<>>
        /\ replays' = [replays EXCEPT ![r] = Expecting(Head(original.verdicts))]
  /\ UNCHANGED <<oracle, original, recordings, others, memory, adding, copy>>

\* The stream is read, and the planner's reply: without a verdict or a recording there is
\* nothing to compare, and a verifier that is registered no more is a mismatch.
StartReplay(r) ==
  /\ replays[r].pc = "none"
  /\ \/ replays' = [replays EXCEPT ![r] = Ended("done", "error")]
     \/ /\ original.verdicts # <<>>
        /\ \/ replays' = [replays EXCEPT ![r] = Ended("done", "unverified")]
           \/ replays' = [replays EXCEPT ![r] =
                 Expecting(original.verdicts[Len(original.verdicts)])]
  /\ UNCHANGED <<oracle, original, recordings, others, memory, adding, copy>>

\* replay_workspace_for removes what is there, copytree copies the files as they are now,
\* with the diffs of the task in them. When the workspace is missing there is no copy; the
\* copy stays when the sandbox does not start.
CopyWorkspace(r) ==
  /\ replays[r].pc = "copy"
  /\ \/ /\ replays' = [replays EXCEPT ![r] = Ended("done", "error")]
        /\ UNCHANGED copy
     \/ /\ copy' = [owner |-> r, tree |-> original.tree]
        /\ \/ replays' = InDirectory(r, Ended("done", "error"))
           \/ replays' = InDirectory(r, [replays[r] EXCEPT !.pc = "work", !.from = original.tree])
  /\ UNCHANGED <<oracle, original, recordings, others, memory, adding>>

\* execute_task in recorded mode: no recording is an error, no valid result among the
\* recorded replies is a mismatch, and a diff is applied.
ReplayWork(r) ==
  /\ replays[r].pc = "work"
  /\ LET prompt == Prompt(copy.tree)
     IN  \/ /\ prompt \notin DOMAIN recordings
            /\ replays' = InDirectory(r, Ended("stop", "error"))
            /\ UNCHANGED copy
         \/ /\ prompt \in DOMAIN recordings /\ ~recordings[prompt].valid
            /\ replays' = InDirectory(r, Ended("stop", "unverified"))
            /\ UNCHANGED copy
         \/ /\ prompt \in DOMAIN recordings /\ recordings[prompt].valid
            /\ copy' = [copy EXCEPT !.tree = Apply(recordings[prompt], @)]
            /\ replays' = InDirectory(r, [replays[r] EXCEPT !.pc = "verify"])
  /\ UNCHANGED <<oracle, original, recordings, others, memory, adding>>

\* In a directory that another replay has removed the tests fail.
ReplayVerify(r) ==
  /\ replays[r].pc = "verify"
  /\ \E passed \in IF copy.tree \in Trees THEN oracle.says[copy.tree] ELSE {FALSE} :
       replays' = [replays EXCEPT ![r].pc = "stop", ![r].tree = copy.tree,
         ![r].outcome = IF passed = replays[r].expected THEN "match" ELSE "mismatch"]
  /\ UNCHANGED <<oracle, original, recordings, others, memory, adding, copy>>

\* The finally clause: the directory is removed, whose ever it is by now.
StopReplay(r) ==
  /\ replays[r].pc = "stop"
  /\ copy' = NoCopy
  /\ replays' = InDirectory(r, [replays[r] EXCEPT !.pc = "done"])
  /\ UNCHANGED <<oracle, original, recordings, others, memory, adding>>

ReplayNext ==
  \/ RunWorker \/ Verify \/ OthersAsk \/ ChangeMemory
  \/ \E c \in Consolidators : CheckMarker(c) \/ AddFact(c) \/ MarkDone(c)
  \/ \E r \in Replayers :
        StartReplay(r) \/ CopyWorkspace(r) \/ ReplayWork(r) \/ ReplayVerify(r) \/ StopReplay(r)

ReplaySpec == ReplayInit /\ [][ReplayNext]_replayVars

-----------------------------------------------------------------------------
(* What callers make of the outcomes *)

\* replay_batch keeps what could not be checked apart from what diverged.
Bucket(outcome) == IF outcome = "error" THEN "errors"
                   ELSE IF outcome = "match" THEN "matched" ELSE "mismatched"

\* run_regression_gate over this task: passed = mismatches == 0 and errors == 0.
GatePasses(r) == Bucket(replays[r].outcome) = "matched"

\* A replay that finds another verdict than the stream's last has judged other files than
\* that verdict did, or tests that are not of one mind about them: unless it was disturbed
\* (the task moved on under it, or another replay of the task used its directory), the
\* reply on record has changed the files it copied, or the tests are flaky on those. What
\* memory and other tasks do to the recordings can make it apply another reply, and no more.
MismatchMeansChange ==
  \A r \in Replayers :
     replays[r].outcome = "mismatch" /\ ~replays[r].disturbed
       => \/ replays[r].tree # replays[r].from
          \/ oracle.says[replays[r].tree] = BOOLEAN

\* "re-runs any completed task answering every model call from stored recordings"
\* (replay/engine.py): with nothing disturbed, it matches.
ReplayReproduces ==
  \A r \in Replayers :
     replays[r].pc = "done" /\ ~replays[r].disturbed /\ original.pc = "closed" /\ replays[r].expected
        => replays[r].outcome = "match"

\* "Isolated replay workspace: a fresh copy of the original, per run"
\* (replay/engine.py): a replay verifies its own copy.
ReplayUsesItsCopy ==
  \A r \in Replayers : replays[r].pc \in {"work", "verify"} => copy.owner = r

\* "Idempotent" (memory/consolidate.py): one fact per task, however often it is
\* consolidated.
OneFactPerTask ==
  Cardinality({c \in Consolidators : adding[c] \in {"mark", "done"}}) <= 1
=============================================================================
