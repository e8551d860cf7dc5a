------------------------------- MODULE Sandbox -------------------------------
(***************************************************************************)
(* sandbox/runtime.py and sandbox/local.py: the container (or the bare     *)
(* process) in which a task's commands run, and how a worker's diff gets   *)
(* into its workspace.  The workspace outlives the sandbox: each attempt   *)
(* opens a sandbox of its own over it, applies one diff and leaves.        *)
(*                                                                         *)
(* git apply and GNU patch are external: of a diff's sections they are     *)
(* modelled by which they apply, as `git apply --recount', `patch -p1' and *)
(* `patch -p0' do with these headers.                                      *)
(***************************************************************************)
EXTENDS Integers, Sequences, FiniteSets, SequencesExt

CONSTANTS PatchedFiles,  \* files that diffs name
          DiffSections,  \* sections of a diff at most
          SandboxUses    \* sandboxes opened over the workspace

ASSUME SandboxAssumption ==
  /\ IsFiniteSet(PatchedFiles) /\ DiffSections \in Nat \ {0} /\ SandboxUses \in Nat

\* One file's part of a diff: with a `diff --git' line or no headers at all ("plain"
\* headers only are treated alike), paths with a/ and b/ or bare, an edit of a file or
\* a new one.
Section == [file : PatchedFiles, headers : {"git", "none"},
            prefixed : BOOLEAN, kind : {"edit", "new"}]

SandboxDiffs == {d \in UNION {[1 .. n -> Section] : n \in 1 .. DiffSections} :
            /\ IsInjective([i \in DOMAIN d |-> d[i].file])
            /\ \A i \in DOMAIN d : d[i].headers = "none" => Len(d) = 1 /\ d[i].kind = "edit"
            /\ \A i, j \in DOMAIN d : d[i].prefixed = d[j].prefixed}

VARIABLES files,     \* each file: "absent", "base", "drifted" (near to base), "changed"
          ownDir,    \* the project's directory called a: "none", "there", "lost"
          diff,      \* the diff under way, <<>> when there is none
          exit,      \* what apply_diff reported of it: "none", "ok", "failed"
          sandbox,   \* [state, local, tries, uses]: its state is "closed", "starting", "open"
          container, \* "absent", "created" or "running"
          cutShort,  \* a docker command about it failed or was given up
          late       \* a diff whose command was given up and still runs, <<>> for none

sandboxVars == <<files, ownDir, diff, exit, sandbox, container, cutShort, late>>

SandboxInit ==
  /\ files \in [PatchedFiles -> {"absent", "base", "drifted"}]
  /\ ownDir \in {"none", "there"}
  /\ diff = <<>> /\ exit = "none"
  /\ sandbox \in [state : {"closed"}, local : BOOLEAN, tries : {0}, uses : {0}]
  /\ container = "absent" /\ cutShort = FALSE /\ late = <<>>

-----------------------------------------------------------------------------
(* The life of the sandbox *)

OpenSandbox ==
  /\ sandbox.state = "closed" /\ sandbox.uses < SandboxUses
  /\ sandbox' = [sandbox EXCEPT !.state = IF sandbox.local THEN "open" ELSE "starting",
                                !.tries = 0, !.uses = @ + 1]
  /\ container' = "absent" /\ cutShort' = FALSE  \* another name, a container of its own
  /\ UNCHANGED late
  /\ diff' = <<>> /\ exit' = "none"
  /\ UNCHANGED <<files, ownDir>>

\* docker run succeeds; the name of a container that a try left behind is taken.
ContainerStarts ==
  /\ sandbox.state = "starting" /\ sandbox.tries < 3 /\ container = "absent"
  /\ container' = "running" /\ sandbox' = [sandbox EXCEPT !.state = "open"]
  /\ UNCHANGED <<files, ownDir, diff, exit, cutShort, late>>

\* It fails, possibly after it has created the container, or it is killed at its
\* time limit, possibly after it has started it.
ContainerFails ==
  /\ sandbox.state = "starting" /\ sandbox.tries < 3
  /\ sandbox' = [sandbox EXCEPT !.tries = @ + 1]
  /\ \/ UNCHANGED <<container, cutShort>>
     \/ container = "absent" /\ container' \in {"created", "running"} /\ cutShort' = TRUE
  /\ UNCHANGED <<files, ownDir, diff, exit, late>>

\* SandboxError: nobody calls stop, and stop would return at once.
ContainerGivenUp ==
  /\ sandbox.state = "starting" /\ sandbox.tries = 3
  /\ sandbox' = [sandbox EXCEPT !.state = "closed"]
  /\ UNCHANGED <<files, ownDir, diff, exit, container, cutShort, late>>

\* Mutant: the sandbox is forgotten before it is removed.
ForgetSandbox ==
  /\ sandbox.state = "open"
  /\ sandbox' = [sandbox EXCEPT !.state = "closed"]
  /\ UNCHANGED <<files, ownDir, diff, exit, container, cutShort, late>>

\* stop: docker rm --force, whatever comes of it; what ran inside is gone with it.
CloseSandbox ==
  /\ sandbox.state = "open" /\ ~sandbox.local
  /\ sandbox' = [sandbox EXCEPT !.state = "closed"]
  /\ \/ container' = "absent" /\ late' = <<>> /\ UNCHANGED cutShort
     \/ cutShort' = TRUE /\ UNCHANGED <<container, late>>
  /\ UNCHANGED <<files, ownDir, diff, exit>>

\* LocalSandbox.stop has nothing to remove.
CloseLocal ==
  /\ sandbox.state = "open" /\ sandbox.local
  /\ sandbox' = [sandbox EXCEPT !.state = "closed"]
  /\ UNCHANGED <<files, ownDir, diff, exit, container, cutShort, late>>

-----------------------------------------------------------------------------
(* apply_diff *)

\* ensure_diff_headers: one file known and no headers, they are put in.
Headed(d) ==
  [i \in DOMAIN d |-> IF d[i].headers = "none"
                      THEN [d[i] EXCEPT !.headers = "plain", !.prefixed = TRUE] ELSE d[i]]

\* repair_diff_prefixes: inside a hunk a line without a prefix becomes an addition, the
\* `diff --git' line of a next section too.
Repaired(d) ==
  [i \in DOMAIN d |-> IF i > 1 THEN [d[i] EXCEPT !.headers = "plain"] ELSE d[i]]

\* git apply --recount: all or nothing, on exact context.  Counting a hunk's lines it
\* stops at a `diff --git' line only, and a plain header spoils the hunk before it.
GitApplies(d) ==
  /\ \A i \in 2 .. Len(d) : d[i].headers = "git"
  /\ \A i \in DOMAIN d : files[d[i].file] = IF d[i].kind = "edit" THEN "base" ELSE "absent"

\* patch --forward takes each section by itself, on similar context.
PatchTakes(s, fs) ==
  fs[s.file] \in IF s.kind = "edit" THEN {"base", "drifted"} ELSE {"absent"}

Change(d, I, fs) ==
  [f \in PatchedFiles |-> IF \E i \in I : d[i].file = f THEN "changed" ELSE fs[f]]

TakenP1(d) == {i \in DOMAIN d : d[i].prefixed /\ PatchTakes(d[i], files)}

\* With -p0 a prefixed section goes to a/ or b/: a new file lands there.
TakenP0(d, fs) == {i \in DOMAIN d : ~d[i].prefixed /\ PatchTakes(d[i], fs)}
StrayP0(d) == {i \in DOMAIN d : d[i].prefixed /\ d[i].kind = "new"}

\* Mutant: the chain reports success when any section was taken.
AppliedInPart(d) ==
  LET p1 == Change(d, TakenP1(d), files)
  IN  IF GitApplies(d) THEN [files |-> Change(d, DOMAIN d, files), ok |-> TRUE]
      ELSE [files |-> p1, ok |-> TakenP1(d) # {}]

\* The three in turn, each only when the one before it failed.
Applied(d) ==
  LET p1 == Change(d, TakenP1(d), files)
      p0 == Change(d, TakenP0(d, p1), p1)
  IN  IF GitApplies(d) THEN [files |-> Change(d, DOMAIN d, files), ok |-> TRUE]
      ELSE IF TakenP1(d) = DOMAIN d THEN [files |-> p1, ok |-> TRUE]
      ELSE [files |-> p0, ok |-> TakenP0(d, p1) \cup StrayP0(d) = DOMAIN d]

\* _remove_stray_prefix_dirs: a directory a or b is removed, the project's own too.
StrayRemoved(dir) == IF dir = "there" THEN "lost" ELSE dir

\* apply_diff on a diff as the worker wrote it.
ApplyDiff ==
  /\ sandbox.state = "open" /\ diff = <<>>
  /\ \E d \in SandboxDiffs :
       LET result == Applied(Repaired(Headed(d)))
       IN  /\ diff' = d
           /\ files' = result.files
           /\ exit' = IF result.ok THEN "ok" ELSE "failed"
  /\ ownDir' = StrayRemoved(ownDir)
  /\ UNCHANGED <<sandbox, container, cutShort, late>>

\* exec gives the command up and kills the docker client, or of a local sandbox the
\* shell: what these started goes on.
ApplyTimesOut ==
  /\ sandbox.state = "open" /\ diff = <<>>
  /\ \E d \in SandboxDiffs : diff' = d /\ late' = d
  /\ exit' = "failed"
  /\ ownDir' = StrayRemoved(ownDir)
  /\ UNCHANGED <<files, sandbox, container, cutShort>>

LateApply ==
  /\ late # <<>>
  /\ files' = Applied(Repaired(Headed(late))).files /\ late' = <<>>
  /\ UNCHANGED <<ownDir, diff, exit, sandbox, container, cutShort>>

SandboxNext ==
  \/ OpenSandbox \/ ContainerStarts \/ ContainerFails \/ ContainerGivenUp \/ CloseSandbox
  \/ CloseLocal \/ ApplyDiff \/ ApplyTimesOut \/ LateApply

SandboxSpec == SandboxInit /\ [][SandboxNext]_sandboxVars

-----------------------------------------------------------------------------
(* Properties *)

\* The files of a diff that edits and that apply_diff reported applied are changed,
\* every one, whichever of the three programs took it and whatever earlier attempts
\* left in the workspace.
EditsAreApplied ==
  exit = "ok" /\ (\A i \in DOMAIN diff : diff[i].kind = "edit")
    => \A i \in DOMAIN diff : files[diff[i].file] = "changed"

\* "Always call this" (runtime.py:253): a sandbox that was closed leaves no container,
\* unless a docker command about it failed or timed out.
ContainersAreRemoved == sandbox.state = "closed" /\ ~cutShort => container = "absent"

\* Both of the above, in a container and in a bare process.
SandboxHonest == EditsAreApplied /\ ContainersAreRemoved

\* The same of every diff (the docstring of apply_diff).  Violated: a new file that the
\* workspace already has goes to b/ under -p0, which exits 0, and b/ is removed.
SuccessIsReal ==
  exit = "ok" => \A i \in DOMAIN diff : files[diff[i].file] = "changed"

\* Nothing of a diff that could not be applied is in the workspace: violated, patch
\* takes each section by itself.
FailureLeavesNothing ==
  [][exit = "none" /\ exit' = "failed" => files' = files]_sandboxVars

\* A diff reported failed changes nothing after its attempt has ended: violated, what a
\* command started outlives it in a local sandbox, or when docker rm fails.
NothingComesLate == sandbox.state = "closed" => late = <<>>

\* A directory of the project called a or b survives: violated.
OwnDirectoriesStay == ownDir # "lost"
=============================================================================
