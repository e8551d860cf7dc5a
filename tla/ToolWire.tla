------------------------------- MODULE ToolWire -------------------------------
(***************************************************************************)
(* The tool calls of a streamed answer, from the provider's chunks to the  *)
(* call a client puts together: OpenAICompatAdapter._normalize_chunk       *)
(* (gateway/adapters.py) and the two consumers, stream_frames              *)
(* (desktop_gateway/streaming.py) and _stream_sse (api/gateway.py).  What  *)
(* ends a stream is in InferenceStream.                                    *)
(***************************************************************************)
EXTENDS Naturals, Sequences

CONSTANTS ToolCalls,  \* the indices of the calls of one answer
          WireChunks  \* chunks of one answer: a bound

ASSUME ToolWireAssumption == WireChunks \in Nat

VARIABLES
  consumer, \* "desktop" or "api"
  acc,     \* tool_acc of the adapter: what it has gathered of each call
  seen,    \* seen_tools of stream_frames
  built,   \* what a client that concatenates has gathered
  meant,   \* what the provider has said
  chunks   \* how many chunks have passed

wireVars == <<consumer, acc, seen, built, meant, chunks>>

\* A call: the pieces of its name and of its arguments.  The id goes with the name.
NoCall == [name |-> <<>>, arguments |-> <<>>]

WireInit ==
  /\ consumer \in {"desktop", "api"}
  /\ acc = [i \in ToolCalls |-> NoCall] /\ seen = {}
  /\ built = acc /\ meant = acc /\ chunks = 0

\* One delta: the identity, or none, and a piece of the arguments, or none.  The provider
\* names each call once, in its first delta.
DeltasOf(i) ==
  {[index |-> i, name |-> n, arguments |-> a] :
     n \in IF meant[i] = NoCall THEN {<<"name">>} ELSE {<<>>}, a \in {<<>>, <<chunks>>}}

\* _normalize_chunk: the identity is kept, the arguments are gathered; the event has the
\* identity as kept and the arguments of this delta.
Gathered(d) ==
  [name |-> IF d.name # <<>> THEN d.name ELSE acc[d.index].name,
   arguments |-> acc[d.index].arguments \o d.arguments]

\* Mutant: the event has the arguments as gathered.
GatheredEvent(d) == Gathered(d)

WireEvent(d) == [Gathered(d) EXCEPT !.arguments = d.arguments]

\* The frame: the desktop sends the identity once, the API with every frame.
Frame(d) ==
  IF consumer = "desktop" /\ d.index \in seen THEN [WireEvent(d) EXCEPT !.name = <<>>] ELSE WireEvent(d)

\* What a client that concatenates makes of one more piece.
Concats(call, d) == [name |-> call.name \o d.name, arguments |-> call.arguments \o d.arguments]

\* A chunk passes both layers and the client before the next is read.
WireChunk(d) ==
  /\ chunks < WireChunks /\ chunks' = chunks + 1
  /\ acc' = [acc EXCEPT ![d.index] = Gathered(d)]
  /\ seen' = seen \cup {d.index}
  /\ built' = [built EXCEPT ![d.index] = Concats(@, Frame(d))]
  /\ meant' = [meant EXCEPT ![d.index] = Concats(@, d)]
  /\ UNCHANGED consumer

WireNext == \E i \in ToolCalls : \E d \in DeltasOf(i) : WireChunk(d)

WireSpec == WireInit /\ [][WireNext]_wireVars

-----------------------------------------------------------------------------
\* Interleaved calls stay apart: the arguments a client concatenates are those the
\* provider sent for that call, and so are those of the adapter's own finish event; the
\* desktop's client has the name too, once.
CallsArriveWhole ==
  \A i \in ToolCalls :
    /\ acc[i] = meant[i] /\ built[i].arguments = meant[i].arguments
    /\ consumer = "desktop" => built[i].name = meant[i].name

\* streaming.py:58-59 "Shared adapter reports accumulated id/name each time; OpenAI
\* clients concatenate them.  Send identity once."
NamesArriveOnce == \A i \in ToolCalls : built[i].name = meant[i].name
===============================================================================
