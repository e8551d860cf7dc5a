-------------------------- MODULE InferenceStream --------------------------
(***************************************************************************)
(* One streamed request from the provider's wire to the client's: the      *)
(* chunks OpenAICompatAdapter.stream reads, the canonical events           *)
(* RouterEngine.stream makes of them and of the failures, and the frames   *)
(* the two consumers send, stream_frames of desktop_gateway/streaming.py   *)
(* and _stream_sse of api/gateway.py.                                      *)
(*                                                                         *)
(* The generators are pulled: a chunk passes every layer before the next   *)
(* one is read.  Circuits and quota of many requests are in Gateway.       *)
(***************************************************************************)
EXTENDS Naturals, Sequences

CONSTANTS Candidates,  \* how many models the plan ranks
          Replies,     \* <<HTTP status, what the error body names>> of the provider
          MaxDeltas    \* deltas of one candidate

ASSUME InferenceAssumption == Candidates \in Nat \ {0} /\ MaxDeltas \in Nat \ {0}

VARIABLES request,      \* where the request is, and the adapter's and engine's flags
          attempts, \* decision.attempts, by error_type
          selected, \* decision.selected, 0 for None
          held,     \* local variables of stream_frames
          client,   \* what has arrived
          records   \* ledger.record or _audit_telemetry, and gateway_usage rows

streamVars == <<request, attempts, selected, held, client, records>>

NoError == [type |-> "none", honest |-> FALSE]

\* _map_error
Category(reply) ==
  LET status == reply[1]
      names == reply[2]
  IN  CASE status \in {401, 403} -> "authentication_error"
        [] status = 429 /\ names = "quota" -> "quota_exceeded_error"
        [] status = 429 /\ names # "quota" -> "rate_limit_error"
        [] status = 404 -> "model_unavailable_error"
        [] status = 400 /\ names = "context" -> "context_length_error"
        [] status = 400 /\ names # "context" -> "invalid_request_error"
        [] status = 408 -> "timeout_error"
        [] OTHER -> "provider_unavailable_error"

Hinted == {Category(r) : r \in Replies} \cup
          {"timeout_error", "provider_unavailable_error", "empty_response", "deadline_exceeded",
           "all_providers_failed_error"}

\* public_error: the one reason of every attempt, and a hint from a closed vocabulary.
PublicError(type, reasons) ==
  LET one == IF type = "all_providers_failed_error" /\ Len(reasons) > 0
                /\ \A i \in 1..Len(reasons) : reasons[i] = reasons[1]
             THEN reasons[1] ELSE type
  IN  [type |-> IF one \in Hinted THEN one ELSE "gateway_error", honest |-> FALSE]

StreamInit ==
  /\ \E c \in {"desktop", "api"} :
       request = [consumer |-> c, pc |-> "plan", cand |-> 0, forwarded |-> FALSE,
                  deltas |-> 0, finished |-> FALSE]
  /\ attempts = <<>> /\ selected = 0
  /\ held = [error |-> NoError, served |-> 0, interrupted |-> FALSE]
  /\ client = [ends |-> <<>>, late |-> FALSE, voices |-> {}, error |-> NoError,
               done |-> FALSE, left |-> FALSE]
  /\ records = [outcomes |-> <<>>, served |-> 0, usage |-> 0]

Desktop == request.consumer = "desktop"
Goto(pc) == request' = [request EXCEPT !.pc = pc]
Recorded(outcome, model) ==
  records' = [records EXCEPT !.outcomes = Append(@, outcome), !.served = model]

\* plan raises before the first frame.  Nothing catches it in the full API's streams.
PlanRefused ==
  /\ request.pc = "plan"
  /\ Goto("over")
  /\ client' = [client EXCEPT !.ends = <<"refused">>]
  /\ IF Desktop THEN Recorded("error", 0) ELSE UNCHANGED records
  /\ UNCHANGED <<attempts, selected, held>>

Planned ==
  /\ request.pc = "plan"
  /\ Goto("next")
  /\ UNCHANGED <<attempts, selected, held, client, records>>

-----------------------------------------------------------------------------
(* The loop over the candidates *)

NextCandidate ==
  /\ request.pc = "next" /\ ~request.forwarded /\ request.cand < Candidates
  /\ request' = [request EXCEPT !.pc = "body", !.cand = @ + 1, !.deltas = 0, !.finished = FALSE]
  /\ UNCHANGED <<attempts, selected, held, client, records>>

\* Less than an attempt and the reserve is left of the deadline.
OutOfTime ==
  /\ request.pc = "next" /\ request.cand < Candidates
  /\ attempts' = Append(attempts, "deadline_exceeded")
  /\ Goto("failed")
  /\ UNCHANGED <<selected, held, client, records>>

\* An 'error' event.  stream_frames keeps it and breaks, _stream_sse sends a finish frame.
ErrorEvent(type, interrupted) ==
  IF Desktop
  THEN /\ held' = [held EXCEPT !.error = [PublicError(type, attempts') EXCEPT
                                            !.honest = interrupted],
                               !.interrupted = interrupted]
       /\ UNCHANGED client
  ELSE /\ client' = [client EXCEPT !.ends = Append(@, IF interrupted THEN "interrupted"
                                                      ELSE "error")]
       /\ UNCHANGED held

AllFailed ==
  /\ request.pc = "failed" \/ (request.pc = "next" /\ request.cand = Candidates)
  /\ UNCHANGED attempts
  /\ ErrorEvent("all_providers_failed_error", FALSE)
  /\ records' = [records EXCEPT !.usage = @ + 1]
  /\ Goto("close")
  /\ UNCHANGED selected

\* `except GatewayError`: the next candidate, or the end once anything was forwarded.
AttemptFails(category) ==
  /\ attempts' = Append(attempts, category)
  /\ IF request.forwarded
     THEN /\ ErrorEvent(category, TRUE)
          /\ records' = [records EXCEPT !.usage = @ + 1]
          /\ Goto("close")
     ELSE Goto("next") /\ UNCHANGED <<held, client, records>>
  /\ UNCHANGED selected

-----------------------------------------------------------------------------
(* The adapter's loop over the lines of the response *)

\* A status of 400 and more, or an error object in a chunk.
ReplyFails ==
  /\ request.pc = "body"
  /\ \E r \in Replies : AttemptFails(Category(r))

\* No first delta within its budget, the deadline, or httpx's own timeout.
ProviderTimesOut == request.pc = "body" /\ AttemptFails("timeout_error")

\* The connection breaks, or a chunk is not an object.
ProviderBreaks == request.pc = "body" /\ AttemptFails("provider_unavailable_error")

\* A choice that is no object: AttributeError, which only stream_frames catches.
OddChunk ==
  /\ request.pc = "body"
  /\ IF Desktop
     THEN held' = [held EXCEPT !.error = [NoError EXCEPT !.type = "gateway_error"]] /\ Goto("close")
     ELSE Goto("raised") /\ UNCHANGED held
  /\ UNCHANGED <<attempts, selected, client, records>>

\* Mutant: the model named in the record is the first of the ranking.
FirstRanked == 1

\* decision.candidates[len(decision.attempts)], counted from 1
Speaker == Len(attempts) + 1

\* text_delta, tool_call_delta
Delta ==
  /\ request.pc = "body" /\ request.deltas < MaxDeltas
  /\ request' = [request EXCEPT !.forwarded = TRUE, !.deltas = @ + 1]
  /\ held' = IF Desktop THEN [held EXCEPT !.served = Speaker] ELSE held
  /\ client' = [client EXCEPT !.voices = @ \cup {request.cand}, !.late = @ \/ client.ends # <<>>]
  /\ UNCHANGED <<attempts, selected, records>>

\* A chunk with a finish_reason; more chunks may follow it.
FinishReason ==
  /\ request.pc = "body" /\ ~request.finished
  /\ request' = [request EXCEPT !.finished = TRUE]
  /\ UNCHANGED <<attempts, selected, held, client, records>>

\* Mutant: the finish frame is sent when the event comes, as _stream_sse does.
ForwardFinish ==
  /\ request.pc = "body" /\ request.finished
  /\ Goto("clean")
  /\ client' = [client EXCEPT !.ends = Append(@, "finish")]
  /\ UNCHANGED <<attempts, selected, held, records>>

\* [DONE] or the end of the body, and then the events 'finish' and 'usage'.
BodyEnds ==
  /\ request.pc = "body"
  /\ \/ ~request.finished /\ AttemptFails("provider_unavailable_error")
     \/ /\ request.finished
        /\ Goto("clean")
        /\ client' = IF Desktop THEN client
                     ELSE [client EXCEPT !.ends = Append(@, "finish")]
        /\ UNCHANGED <<attempts, selected, held, records>>

\* An empty stream is a failed attempt, and its 'finish' has been passed on.
CleanEnd ==
  /\ request.pc = "clean"
  /\ IF request.forwarded
     THEN /\ selected' = request.cand
          /\ records' = [records EXCEPT !.usage = @ + 1]
          /\ Goto("close")
          /\ UNCHANGED attempts
     ELSE /\ attempts' = Append(attempts, "empty_response")
          /\ Goto("next")
          /\ UNCHANGED <<selected, records>>
  /\ UNCHANGED <<held, client>>

-----------------------------------------------------------------------------
(* The end of the response *)

\* asyncio.timeout around the whole stream; the engine's generator is cancelled.
StreamTimesOut ==
  /\ Desktop /\ request.pc \in {"next", "body", "clean"}
  /\ held' = [held EXCEPT !.error = [NoError EXCEPT !.type = "timeout_error"]]
  /\ Goto("close")
  /\ UNCHANGED <<attempts, selected, client, records>>

Served == IF selected # 0 THEN selected ELSE held.served

\* The answer has begun and the generator has not: what its finally does is not done either.
Unpulled == request.pc = "next" /\ request.cand = 0 /\ attempts = <<>>

\* The client goes away: CancelledError where the generator awaits, GeneratorExit, which
\* sets no error, where it has yielded.  The engine records no usage.
ClientLeaves ==
  /\ request.pc \in {"next", "body", "clean", "close", "frames"}
  /\ client' = [client EXCEPT !.left = TRUE]
  /\ Goto("over")
  /\ \/ (request.pc = "frames" \/ Unpulled) /\ UNCHANGED records
     \/ /\ request.pc # "frames"
        /\ \E o \in {"error", "success"} :
             /\ Desktop /\ o = "success" => held.error = NoError /\ request.pc # "close"
             /\ Recorded(o, Served)
  /\ UNCHANGED <<attempts, selected, held>>

\* The finally clause.  That of stream_frames makes the public error once more.
Finally ==
  /\ request.pc \in {"close", "raised"}
  /\ held' = IF held.error = NoError THEN held
             ELSE [held EXCEPT !.error = PublicError(held.error.type, attempts)]
  /\ Recorded(IF Desktop /\ held.error # NoError THEN "error" ELSE "success", Served)
  /\ Goto(IF request.pc = "raised" THEN "over" ELSE "frames")
  /\ UNCHANGED <<attempts, selected, client>>

\* Error or finish, then [DONE].
LastFrames ==
  /\ request.pc = "frames"
  /\ client' = [client EXCEPT
       !.done = TRUE,
       !.error = held.error,
       !.ends = IF ~Desktop THEN @
                ELSE Append(@, IF held.error = NoError THEN "finish" ELSE "error")]
  /\ Goto("over")
  /\ UNCHANGED <<attempts, selected, held, records>>

StreamNext ==
  \/ PlanRefused \/ Planned \/ NextCandidate \/ OutOfTime \/ AllFailed
  \/ ReplyFails \/ ProviderTimesOut \/ ProviderBreaks \/ OddChunk
  \/ Delta \/ FinishReason \/ BodyEnds \/ CleanEnd
  \/ StreamTimesOut \/ ClientLeaves \/ Finally \/ LastFrames

StreamSpec == StreamInit /\ [][StreamNext]_streamVars

-----------------------------------------------------------------------------

\* The desktop's agent gets one end of its stream, a finish or an error, whatever
\* candidates came before, and nothing of an answer after it.
StreamEndsOnce ==
  Desktop => /\ ~client.late
             /\ Len(client.ends) <= 1
             /\ client.done => client.ends \in {<<"finish">>, <<"error">>}

\* A request is recorded once, with the end its client was given and the model whose
\* words it was given.  One whose client left before the first pull may leave no record.
LedgerMatchesStream ==
  Desktop /\ request.pc = "over" =>
    /\ Len(records.outcomes) = 1 \/ (records.outcomes = <<>> /\ client.left /\ request.cand = 0)
    /\ client.done => (records.outcomes[1] = "success" <=> client.ends = <<"finish">>)
    /\ client.voices \subseteq {records.served}

\* A stream that broke after its first words is reported as interrupted: "Surface the
\* honest interrupted message" (streaming.py).
InterruptionIsSaid == Desktop /\ client.done /\ held.interrupted => client.error.honest

\* The full API's client gets one end as well.
ApiEndsOnce == ~Desktop => Len(client.ends) <= 1 /\ ~client.late

\* "NEVER raises for provider failures" (routing.py).
EngineNeverRaises == request.pc # "raised"
=============================================================================
