------------------------------ MODULE LiteStore ------------------------------
(***************************************************************************)
(* lite/pool.py: asyncpg's surface over a SQLite file.  Its statements are *)
(* those of the whole program, written for Postgres: placeholders, dates   *)
(* and values are translated on their way in and guessed back on their way *)
(* out.  The callers are the coroutines of one process, and only one of    *)
(* them has a connection at a time.                                        *)
(***************************************************************************)
EXTENDS Integers, Sequences, FiniteSets, Functions

CONSTANTS LiteCallers,  \* coroutines that use the pool
          MaxArguments, \* of a statement
          DayLength,    \* minutes of a day, scaled down
          LiteHorizon,  \* the last minute
          StaleAfter    \* max_age_minutes of reconcile_pending

ASSUME LiteAssumption ==
  /\ DayLength \in Nat \ {0} /\ LiteHorizon \in Nat /\ StaleAfter \in Nat
  /\ MaxArguments \in Nat

\* What a program may store, by type; a text may look like one of the others.
Values == {"null", "number", "dict", "uuid", "datetime", "text",
           "text like a dict", "text like a uuid", "text like a datetime"}

VARIABLES clock,
          created, \* minute in which each caller's task was created, -1 before
          holder,  \* the caller that has the pool's lock, "nobody"
          waiting, \* callers that wait for it, in order
          found,   \* what the last reconcile_pending selected: [at, rows], at = -1 before
          bound,   \* the last statement: its placeholders, and the argument each was given
          fetched  \* the last value stored and read again: [stored, read]

liteVars == <<clock, created, holder, waiting, found, bound, fetched>>

NothingBound == [places |-> <<>>, given |-> <<>>]
NothingFetched == [stored |-> "null", read |-> "null"]

LiteInit ==
  /\ clock = 0 /\ created = [c \in LiteCallers |-> -1]
  /\ holder = "nobody" /\ waiting = <<>>
  /\ found = [at |-> -1, rows |-> {}]
  /\ bound = NothingBound /\ fetched = NothingFetched

-----------------------------------------------------------------------------
(* translate_sql, reorder_params *)

\* Numbers of placeholders in the order of the text; asyncpg's drivers give a
\* statement exactly the arguments it mentions.
Places == {p \in UNION {[1 .. n -> 1 .. MaxArguments] : n \in 1 .. MaxArguments} :
             \E m \in 1 .. MaxArguments : Range(p) = 1 .. m}

Arguments(p) == [i \in Range(p) |-> i]

\* Mutant: question marks take the arguments as they come.
InTextOrder(p, args) == [i \in DOMAIN p |-> IF i \in DOMAIN args THEN args[i] ELSE 0]

\* Already in numeric order, each once: as they come.  Otherwise one per placeholder.
reorder_params(p, args) ==
  IF p = [i \in 1 .. Len(p) |-> i] THEN args ELSE [i \in DOMAIN p |-> args[p[i]]]

\* Stored: 2026-01-31T10:00.  NOW(): datetime('now'), 2026-01-31 10:00.  As texts the
\* day decides, then the separator, in which a blank is less than a T, then the minute.
Text(minute, separator) ==
  <<minute \div DayLength, IF separator = " " THEN 0 ELSE 1, minute % DayLength>>

TextLess(a, b) ==
  \E i \in 1 .. 3 : a[i] < b[i] /\ \A j \in 1 .. i - 1 : a[j] = b[j]

StoredBefore(minute, cutoff) == TextLess(Text(minute, "T"), Text(cutoff, " "))

-----------------------------------------------------------------------------
(* _encode_param, _decode_value *)

Encoded(v) ==
  CASE v \in {"dict", "text like a dict"} -> "{...}"
    [] v \in {"uuid", "text like a uuid"} -> "8-4-4-4-12"
    [] v \in {"datetime", "text like a datetime"} -> "....-..-..T"
    [] OTHER -> v

Decoded(s) ==
  CASE s = "{...}" -> "dict" [] s = "8-4-4-4-12" -> "uuid" [] s = "....-..-..T" -> "datetime"
    [] OTHER -> s

-----------------------------------------------------------------------------
(* acquire, _connect: one lock; a statement commits by itself *)

AcquireLite(c) ==
  /\ holder # c /\ c \notin Range(waiting)
  /\ IF holder = "nobody" THEN holder' = c /\ UNCHANGED waiting
     ELSE waiting' = Append(waiting, c) /\ UNCHANGED holder
  /\ UNCHANGED <<clock, created, found, bound, fetched>>

ReleaseLite(c) ==
  /\ holder = c
  /\ IF waiting = <<>> THEN holder' = "nobody" /\ UNCHANGED waiting
     ELSE holder' = Head(waiting) /\ waiting' = Tail(waiting)
  /\ UNCHANGED <<clock, created, found, bound, fetched>>

\* INSERT INTO tasks, its created_at by default.
InsertTask(c) ==
  /\ holder = c /\ created[c] = -1
  /\ created' = [created EXCEPT ![c] = clock]
  /\ UNCHANGED <<clock, holder, waiting, found, bound, fetched>>

\* execute / fetch with some placeholders, and a value through a column.
RunStatement(c) ==
  /\ holder = c
  /\ \/ \E p \in Places : bound' = [places |-> p, given |-> reorder_params(p, Arguments(p))]
        /\ fetched' = NothingFetched
     \/ \E v \in Values : fetched' = [stored |-> v, read |-> Decoded(Encoded(v))]
        /\ bound' = NothingBound
  /\ UNCHANGED <<clock, created, holder, waiting, found>>

\* reconcile_pending's SELECT: created_at < NOW() - StaleAfter minutes.
SelectOld(c) ==
  /\ holder = c /\ clock >= StaleAfter
  /\ found' = [at |-> clock,
               rows |-> {d \in LiteCallers :
                           created[d] # -1 /\ StoredBefore(created[d], clock - StaleAfter)}]
  /\ UNCHANGED <<clock, created, holder, waiting, bound, fetched>>

LiteTick ==
  /\ clock < LiteHorizon
  /\ clock' = clock + 1
  /\ UNCHANGED <<created, holder, waiting, found, bound, fetched>>

LiteNext ==
  \/ LiteTick
  \/ \E c \in LiteCallers : AcquireLite(c) \/ ReleaseLite(c) \/ InsertTask(c)
                            \/ RunStatement(c) \/ SelectOld(c)

LiteSpec == LiteInit /\ [][LiteNext]_liteVars

-----------------------------------------------------------------------------
(* Properties *)

\* "asyncpg ... binds args[0] to $1 regardless of where it appears" (pool.py:81-82):
\* so does the translation, for every order and repetition of placeholders.
BindsByNumber == \A i \in DOMAIN bound.places : bound.given[i] = bound.places[i]

\* A task that reconcile_pending takes for stale is older than the limit: whatever the
\* two formats of a date do to the comparison, no fresh task is started a second time.
FoundAreOld ==
  \A d \in found.rows : created[d] + StaleAfter < found.at

\* Both of the above: what lite/pool.py binds and finds is what was meant.
LiteFaithful == BindsByNumber /\ FoundAreOld

\* "a string comparison is correct" (pool.py:51-53): every task older than the limit is
\* found.  Violated: of the same day a T sorts after a blank, so that a task that was
\* never started waits until the next day.
OldAreFound ==
  \A d \in LiteCallers :
    created[d] # -1 /\ created[d] + StaleAfter < found.at => d \in found.rows

\* "Everything else -- event sourcing ... -- behaves identically" (pool.py:23-24): what
\* is read is what was stored.  Violated: an objective that is a JSON text comes back as an object.
ReadsWhatWasStored == fetched.read = fetched.stored
=============================================================================
