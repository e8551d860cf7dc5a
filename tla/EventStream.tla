---------------------------- MODULE EventStream ----------------------------
(***************************************************************************)
(* What the event store promises its callers about one task's stream, as   *)
(* the contract at the head of core/eventstore.py states it: facts are     *)
(* immutable, an idempotency key names at most one fact, and the order of  *)
(* ids is the order in which facts appear.                                 *)
(***************************************************************************)
EXTENDS Naturals

CONSTANTS Ids,       \* positions in the stream, natural numbers
          Keys,      \* idempotency keys of one task
          NoKey,     \* the key of an append made without one
          Payloads   \* what an event may say

VARIABLE stream      \* the facts a reader of the stream can see

Event == [id : Ids, key : Keys \cup {NoKey}, payload : Payloads]

Init == stream = {}

\* A fact becomes visible: behind everything already visible, and only when
\* its key is still free.
Record(e) ==
  /\ \A f \in stream : f.id < e.id
  /\ e.key # NoKey => \A f \in stream : f.key # e.key
  /\ stream' = stream \cup {e}

Next == \E e \in Event : Record(e)

Spec == Init /\ [][Next]_stream
=============================================================================
