------------------------------- MODULE Archive -------------------------------
(***************************************************************************)
(* The archive behind the model router: the content-addressed blobs of     *)
(* core/blob.py and the recordings of router/client.py, written by the     *)
(* live calls and read by the recorded ones.  The callers are processes    *)
(* that share one blob_root (workers, the API, a benchmark) and make the   *)
(* same call, the only case in which they share files; each file is        *)
(* written to a temporary name that depends on its final name alone, then  *)
(* renamed.                                                                *)
(***************************************************************************)
EXTENDS Integers, FiniteSets

CONSTANTS ArchiveCallers, \* processes that make the call
          ModelReplies,   \* what a model may answer to it
          ArchiveCalls    \* calls made at most

\* A reply has a content of its own; the names are the model's.
ASSUME ArchiveAssumption ==
  /\ ArchiveCalls \in Nat /\ IsFiniteSet(ArchiveCallers)
  /\ ModelReplies \cap {"idle", "engine", "lookup", "answered", "request", "recording",
                        "none", "torn"} = {}

\* The files of one call: its request, one raw reply each, its recording.
Files == {"request", "recording"} \cup ModelReplies

VARIABLES final,     \* what each file holds: "none", "torn" (cut short), or its content
          temporary, \* the same of its temporary file
          clashed,   \* files whose temporary two processes have had open together
          stage,     \* per caller: "idle", or the file it is concerned with, or "engine"
          step,      \* of a write: "check", "open", "write", "replace"
          handle,    \* where its open handle points: "none", "temporary", "final"
          reply,     \* the reply of its call, "none"
          how,       \* the mode of its call: "live", "stream" or "recorded"
          calls

archiveVars == <<final, temporary, clashed, stage, step, handle, reply, how, calls>>

ArchiveInit ==
  /\ final = [f \in Files |-> "none"] /\ temporary = [f \in Files |-> "none"]
  /\ clashed = {} /\ calls = 0
  /\ stage = [c \in ArchiveCallers |-> "idle"] /\ step = [c \in ArchiveCallers |-> "check"]
  /\ handle = [c \in ArchiveCallers |-> "none"] /\ reply = [c \in ArchiveCallers |-> "none"]
  /\ how = [c \in ArchiveCallers |-> "live"]

\* What a file written by c holds: a blob what its name says, a recording the reply.
Content(c) == IF stage[c] = "recording" THEN reply[c] ELSE stage[c]

Ends(c) ==
  /\ stage' = [stage EXCEPT ![c] = "idle"] /\ step' = [step EXCEPT ![c] = "check"]
  /\ handle' = [handle EXCEPT ![c] = "none"] /\ reply' = [reply EXCEPT ![c] = "none"]

\* What follows a file that is written: the request, then the engine or the lookup,
\* the raw reply, the recording, and the answer.
Continue(c) ==
  CASE stage[c] = "request" /\ how[c] = "recorded" -> "lookup"
    [] stage[c] = "request" /\ how[c] # "recorded" -> "engine"
    [] stage[c] \in ModelReplies -> "recording"
    [] OTHER -> "answered"

Advances(c) ==
  /\ stage' = [stage EXCEPT ![c] = Continue(c)] /\ step' = [step EXCEPT ![c] = "check"]

\* The request is archived before anything else.
Call(c, h) ==
  /\ stage[c] = "idle" /\ calls < ArchiveCalls
  /\ how' = [how EXCEPT ![c] = h]
  /\ stage' = [stage EXCEPT ![c] = "request"] /\ step' = [step EXCEPT ![c] = "check"]
  /\ calls' = calls + 1
  /\ UNCHANGED <<final, temporary, clashed, handle, reply>>

\* complete, in the mode of its router.
CallModel(c) == \E h \in {"live", "recorded"} : Call(c, h)

\* stream_complete; in recorded mode it is answered as complete is.
StreamModel(c) == Call(c, "stream")

\* BlobStore.put looks first; RecordingStore.put does not.
CheckFile(c) ==
  /\ stage[c] \in Files /\ step[c] = "check"
  /\ IF stage[c] # "recording" /\ final[stage[c]] # "none"
     THEN Advances(c)
     ELSE step' = [step EXCEPT ![c] = "open"] /\ UNCHANGED stage
  /\ UNCHANGED <<final, temporary, clashed, handle, reply, how, calls>>

\* Mutant: the file is written under its own name.
WriteInPlace(c) ==
  /\ stage[c] \in Files /\ step[c] = "open"
  /\ final' = [final EXCEPT ![stage[c]] = "torn"]
  /\ temporary' = [temporary EXCEPT ![stage[c]] = "torn"]
  /\ handle' = [handle EXCEPT ![c] = "final"] /\ step' = [step EXCEPT ![c] = "write"]
  /\ UNCHANGED <<clashed, stage, reply, how, calls>>

\* Opening for writing cuts the file that is there.
OpenTemporary(c) ==
  /\ stage[c] \in Files /\ step[c] = "open"
  /\ temporary' = [temporary EXCEPT ![stage[c]] = "torn"]
  /\ handle' = [handle EXCEPT ![c] = "temporary"] /\ step' = [step EXCEPT ![c] = "write"]
  /\ clashed' = clashed \cup
       {f \in {stage[c]} : \E d \in ArchiveCallers \ {c} : stage[d] = f /\ handle[d] # "none"}
  /\ UNCHANGED <<final, stage, reply, how, calls>>

\* The bytes go where the handle points, be it renamed since; over another content
\* of another length they leave neither.
WriteBytes(c) ==
  /\ stage[c] \in Files /\ step[c] = "write"
  /\ \E x \in {Content(c), "torn"} :
       LET old == IF handle[c] = "final" THEN final[stage[c]] ELSE temporary[stage[c]]
       IN  /\ x = "torn" => old \notin {"torn", Content(c)}
           /\ IF handle[c] = "final"
              THEN final' = [final EXCEPT ![stage[c]] = x] /\ UNCHANGED temporary
              ELSE temporary' = [temporary EXCEPT ![stage[c]] = x] /\ UNCHANGED final
  /\ step' = [step EXCEPT ![c] = "replace"]
  /\ UNCHANGED <<clashed, stage, handle, reply, how, calls>>

\* tmp.replace(path); handles open on the temporary go with it.
ReplaceFile(c) ==
  /\ stage[c] \in Files /\ step[c] = "replace" /\ temporary[stage[c]] # "none"
  /\ final' = [final EXCEPT ![stage[c]] = temporary[stage[c]]]
  /\ temporary' = [temporary EXCEPT ![stage[c]] = "none"]
  /\ handle' = [d \in ArchiveCallers |->
                  IF d = c THEN "none"
                  ELSE IF stage[d] = stage[c] /\ handle[d] = "temporary" THEN "final"
                  ELSE handle[d]]
  /\ Advances(c)
  /\ UNCHANGED <<clashed, reply, how, calls>>

\* Another process has renamed it: FileNotFoundError ends the call, reply and all;
\* the stream passes over a recording that fails.
ReplaceFails(c) ==
  /\ stage[c] \in Files /\ step[c] = "replace" /\ temporary[stage[c]] = "none"
  /\ IF how[c] = "stream" /\ stage[c] = "recording"
     THEN Advances(c) /\ handle' = [handle EXCEPT ![c] = "none"] /\ UNCHANGED reply
     ELSE Ends(c)
  /\ UNCHANGED <<final, temporary, clashed, how, calls>>

\* _live, stream_complete: the engine answers, or the call has failed and nothing is kept.
EngineAnswers(c) ==
  /\ stage[c] = "engine"
  /\ \E r \in ModelReplies :
       /\ stage' = [stage EXCEPT ![c] = r] /\ step' = [step EXCEPT ![c] = "check"]
       /\ reply' = [reply EXCEPT ![c] = r]
  /\ UNCHANGED <<final, temporary, clashed, handle, how, calls>>

EngineFails(c) ==
  /\ stage[c] = "engine" /\ Ends(c)
  /\ UNCHANGED <<final, temporary, clashed, how, calls>>

\* BlobStore.verify: a blob that is missing or hashes to another ref is not trusted.
Trusted(r) == final[r] = r

\* _from_recording: the recording must be there and parse, and its raw reply verify.
Recorded(c) ==
  /\ stage[c] = "lookup" /\ final["recording"] \in ModelReplies
  /\ Trusted(final["recording"])
  /\ reply' = [reply EXCEPT ![c] = final["recording"]]
  /\ stage' = [stage EXCEPT ![c] = "answered"]
  /\ UNCHANGED <<final, temporary, clashed, step, handle, how, calls>>

RecordingMissing(c) ==
  /\ stage[c] = "lookup"
  /\ ~(final["recording"] \in ModelReplies /\ Trusted(final["recording"]))
  /\ Ends(c)
  /\ UNCHANGED <<final, temporary, clashed, how, calls>>

\* The caller has its answer, or its process dies: its handles close, the files stay.
LeaveCall(c) ==
  /\ stage[c] # "idle" /\ Ends(c)
  /\ UNCHANGED <<final, temporary, clashed, how, calls>>

ArchiveNext == \E c \in ArchiveCallers :
  \/ CallModel(c) \/ StreamModel(c) \/ CheckFile(c) \/ OpenTemporary(c) \/ WriteBytes(c) \/ ReplaceFile(c)
  \/ ReplaceFails(c) \/ EngineAnswers(c) \/ EngineFails(c) \/ Recorded(c)
  \/ RecordingMissing(c) \/ LeaveCall(c)

ArchiveSpec == ArchiveInit /\ [][ArchiveNext]_archiveVars

-----------------------------------------------------------------------------
(* Properties *)

\* Whatever process dies between whichever steps, a file under its final name is
\* whole, unless two processes have had its temporary open together: "a crash
\* mid-write must not leave a half-written recording" (router/client.py:156).
OnlyClashesTear == \A f \in Files \ clashed : final[f] # "torn"

\* While nobody has a file open, every file under its final name is whole ("a crash
\* mid-write can't leave a torn blob", core/blob.py:47).
\* Violated: of two processes that write the same blob the second opens the
\* temporary anew, the first renames the emptied file, and the second dies;
\* path.exists() then keeps every later put from repairing it.
BlobsAreWhole ==
  (\A c \in ArchiveCallers : handle[c] = "none") => \A f \in Files : final[f] # "torn"
=============================================================================
