------------------------------ MODULE EventLog ------------------------------
(***************************************************************************)
(* The event store and its snapshot cache for one task's stream            *)
(* (core/eventstore.py, core/snapshots.py), with the readers that follow   *)
(* the stream by id (core/watch.py, api/ws.py).                            *)
(*                                                                         *)
(* The two storage backends differ in one respect the readers depend on.   *)
(* PostgreSQL draws events.id from a sequence when the INSERT starts and   *)
(* makes the row visible when it commits, so appends that overlap may      *)
(* become visible out of id order.  SQLite admits one writer at a time.    *)
(* SerialWrites says which backend create_pool returned.                   *)
(*                                                                         *)
(* The fold of core/state.py is a pure function of the events it is given  *)
(* in id order, so a reconstructed state is represented by the set of      *)
(* events folded into it.                                                  *)
(***************************************************************************)
EXTENDS Naturals, FiniteSets

CONSTANTS Writers,           \* connections that append to the stream
          Readers,           \* callers of SnapshotStore.get_state
          Watchers,          \* followers of the stream (watch_task, the websocket)
          Keys, NoKey, Payloads,
          SnapshotInterval,  \* SNAPSHOT_INTERVAL
          SerialWrites,      \* TRUE for SQLite, FALSE for PostgreSQL
          MaxId              \* bound: ids the sequence may hand out

ASSUME NoKeyAssumption == NoKey \notin Keys
ASSUME IntervalAssumption == SnapshotInterval \in Nat \ {0}
ASSUME SerialAssumption == SerialWrites \in BOOLEAN
ASSUME MaxIdAssumption == MaxId \in Nat

VARIABLES events,     \* committed rows of the stream
          nextId,     \* the BIGSERIAL sequence
          writer,     \* one append in progress per connection
          acks,       \* events append has returned to its callers
          snapshots,  \* rows of the snapshot cache
          reader,     \* one get_state in progress per reader
          watcher     \* cursor of each follower and what it has delivered

vars == <<events, nextId, writer, acks, snapshots, reader, watcher>>

Ids == 1..MaxId
Event == [id : Ids, key : Keys \cup {NoKey}, payload : Payloads]
Snapshot == [version : Nat, state : SUBSET Event]

NoEvent == [pc |-> "idle"]
NoRead == [pc |-> "idle", version |-> 0, state |-> {}]

Init ==
  /\ events = {}
  /\ nextId = 1
  /\ writer = [w \in Writers |-> NoEvent]
  /\ acks = {}
  /\ snapshots = {}
  /\ reader = [r \in Readers |-> NoRead]
  /\ watcher = [v \in Watchers |-> [cursor |-> 0, seen |-> {}]]

-----------------------------------------------------------------------------
(* EventStore.append *)

\* Mutant: the sequence hands out ids without the write lock.
BeginInsertUnlocked(w, k, p) ==
  /\ writer[w].pc = "idle"
  /\ nextId <= MaxId
  /\ writer' = [writer EXCEPT ![w] =
                  [pc |-> "insert", row |-> [id |-> nextId, key |-> k, payload |-> p]]]
  /\ nextId' = nextId + 1
  /\ UNCHANGED <<events, acks, snapshots, reader, watcher>>

\* The INSERT has drawn its id and is not yet visible.  SQLite's write lock
\* keeps every other INSERT out until it has ended.
BeginInsert(w, k, p) ==
  /\ writer[w].pc = "idle"
  /\ nextId <= MaxId
  /\ SerialWrites => \A x \in Writers : writer[x].pc # "insert"
  /\ writer' = [writer EXCEPT ![w] =
                  [pc |-> "insert", row |-> [id |-> nextId, key |-> k, payload |-> p]]]
  /\ nextId' = nextId + 1
  /\ UNCHANGED <<events, acks, snapshots, reader, watcher>>

\* Mutant: no ON CONFLICT clause, and no unique index to need one.
NeverConflict(row) == FALSE

\* The unique index on (task_id, idempotency_key) the ON CONFLICT clause names.
Conflict(row) == row.key # NoKey /\ \E e \in events : e.key = row.key

\* The INSERT commits and RETURNING hands the new row back.
CommitInsert(w) ==
  /\ writer[w].pc = "insert"
  /\ ~Conflict(writer[w].row)
  /\ events' = events \cup {writer[w].row}
  /\ writer' = [writer EXCEPT ![w].pc = "return"]
  /\ UNCHANGED <<nextId, acks, snapshots, reader, watcher>>

\* ON CONFLICT DO NOTHING: no row comes back, the id is spent.
SkipInsert(w) ==
  /\ writer[w].pc = "insert"
  /\ Conflict(writer[w].row)
  /\ writer' = [writer EXCEPT ![w].pc = "lookup"]
  /\ UNCHANGED <<events, nextId, acks, snapshots, reader, watcher>>

\* The SELECT that hands back the original event.
LookupExisting(w) ==
  /\ writer[w].pc = "lookup"
  /\ \E e \in events :
        /\ e.key = writer[w].row.key
        /\ writer' = [writer EXCEPT ![w] = [pc |-> "return", row |-> e]]
  /\ UNCHANGED <<events, nextId, acks, snapshots, reader, watcher>>

\* Mutant: the row is handed back before its transaction commits.
ReturnUncommitted(w) ==
  /\ writer[w].pc \in {"insert", "return"}
  /\ acks' = acks \cup {writer[w].row}
  /\ writer' = [writer EXCEPT ![w] = NoEvent]
  /\ UNCHANGED <<events, nextId, snapshots, reader, watcher>>

ReturnEvent(w) ==
  /\ writer[w].pc = "return"
  /\ acks' = acks \cup {writer[w].row}
  /\ writer' = [writer EXCEPT ![w] = NoEvent]
  /\ UNCHANGED <<events, nextId, snapshots, reader, watcher>>

\* The caller dies or the connection drops: an INSERT in flight is rolled
\* back, a committed one stays although nobody was told.
CrashWriter(w) ==
  /\ writer[w].pc # "idle"
  /\ writer' = [writer EXCEPT ![w] = NoEvent]
  /\ UNCHANGED <<events, nextId, acks, snapshots, reader, watcher>>

-----------------------------------------------------------------------------
(* EventStore.read_stream and SnapshotStore.get_state *)

ReadStream(after) == {e \in events : e.id > after}

\* The id of the last event of a batch read after version v.
LastEventIds(v, batch) ==
  IF batch = {} THEN {v}
  ELSE {e.id : e \in {f \in batch : \A g \in batch : g.id <= f.id}}

\* SnapshotStore.latest: the newest snapshot, or the empty state.
ReadLatest(r) ==
  /\ reader[r].pc = "idle"
  /\ \/ /\ snapshots = {}
        /\ reader' = [reader EXCEPT ![r] = [pc |-> "tail", version |-> 0, state |-> {}]]
     \/ \E s \in snapshots :
          /\ \A t \in snapshots : t.version <= s.version
          /\ reader' = [reader EXCEPT ![r] =
                          [pc |-> "tail", version |-> s.version, state |-> s.state]]
  /\ UNCHANGED <<events, nextId, writer, acks, snapshots, watcher>>

\* Mutant: the tail is folded onto the empty state instead of the snapshot's.
FoldTailOnly(r, auto) ==
  /\ reader[r].pc = "tail"
  /\ LET tail == ReadStream(reader[r].version)
     IN  \E v \in LastEventIds(reader[r].version, tail) :
           reader' = [reader EXCEPT ![r] =
             [pc |-> IF auto /\ Cardinality(tail) >= SnapshotInterval
                     THEN "save" ELSE "idle",
              version |-> v,
              state |-> tail]]
  /\ UNCHANGED <<events, nextId, writer, acks, snapshots, watcher>>

\* The tail is read and folded on top; a long tail is worth a new snapshot.
FoldTail(r, auto) ==
  /\ reader[r].pc = "tail"
  /\ LET tail == ReadStream(reader[r].version)
     IN  \E v \in LastEventIds(reader[r].version, tail) :
           reader' = [reader EXCEPT ![r] =
             [pc |-> IF auto /\ Cardinality(tail) >= SnapshotInterval
                     THEN "save" ELSE "idle",
              version |-> v,
              state |-> reader[r].state \cup tail]]
  /\ UNCHANGED <<events, nextId, writer, acks, snapshots, watcher>>

\* Mutant: the version saved is the stream's last id now, not the last id folded.
SaveAtStreamHead(r) ==
  /\ reader[r].pc = "save"
  /\ \E v \in LastEventIds(0, events) :
       snapshots' =
         IF \E s \in snapshots : s.version = v
         THEN snapshots
         ELSE snapshots \cup {[version |-> v, state |-> reader[r].state]}
  /\ reader' = [reader EXCEPT ![r].pc = "idle"]
  /\ UNCHANGED <<events, nextId, writer, acks, watcher>>

\* SnapshotStore.save: ON CONFLICT (task_id, version) DO NOTHING.
SaveSnapshot(r) ==
  /\ reader[r].pc = "save"
  /\ snapshots' =
       IF \E s \in snapshots : s.version = reader[r].version
       THEN snapshots
       ELSE snapshots \cup {[version |-> reader[r].version, state |-> reader[r].state]}
  /\ reader' = [reader EXCEPT ![r].pc = "idle"]
  /\ UNCHANGED <<events, nextId, writer, acks, watcher>>

CrashReader(r) ==
  /\ reader[r].pc # "idle"
  /\ reader' = [reader EXCEPT ![r] = NoRead]
  /\ UNCHANGED <<events, nextId, writer, acks, snapshots, watcher>>

-----------------------------------------------------------------------------
\* Mutant: the cursor moves to the newest id handed out, not the last one read.
PollToHead(v) ==
  /\ LET batch == ReadStream(watcher[v].cursor)
     IN  /\ batch # {}
         /\ watcher' = [watcher EXCEPT ![v] =
                          [cursor |-> nextId - 1, seen |-> watcher[v].seen \cup batch]]
  /\ UNCHANGED <<events, nextId, writer, acks, snapshots, reader>>

(* watch_task and task_events_ws: read after the cursor, deliver in order,  *)
(* leave the cursor on the last event delivered.                            *)
Poll(v) ==
  /\ LET batch == ReadStream(watcher[v].cursor)
     IN  /\ batch # {}
         /\ \E c \in LastEventIds(watcher[v].cursor, batch) :
              watcher' = [watcher EXCEPT ![v] =
                            [cursor |-> c, seen |-> watcher[v].seen \cup batch]]
  /\ UNCHANGED <<events, nextId, writer, acks, snapshots, reader>>

-----------------------------------------------------------------------------
Append(w) ==
  \/ \E k \in Keys \cup {NoKey}, p \in Payloads : BeginInsert(w, k, p)
  \/ CommitInsert(w) \/ SkipInsert(w) \/ LookupExisting(w) \/ ReturnEvent(w)
  \/ CrashWriter(w)

GetState(r) ==
  \/ ReadLatest(r)
  \/ \E auto \in BOOLEAN : FoldTail(r, auto)
  \/ SaveSnapshot(r) \/ CrashReader(r)

Next ==
  \/ \E w \in Writers : Append(w)
  \/ \E r \in Readers : GetState(r)
  \/ \E v \in Watchers : Poll(v)

Spec == Init /\ [][Next]_vars

\* Followers poll on a timer for as long as they are connected.
FairSpec == Spec /\ \A v \in Watchers : WF_vars(Poll(v))

-----------------------------------------------------------------------------
WriterState ==
  {NoEvent} \cup [pc : {"insert", "lookup", "return"}, row : Event]

ReaderState == [pc : {"idle", "tail", "save"}, version : Nat, state : SUBSET Event]

\* Every variable has the shape the tables and the coroutines' locals give it.
TypeOK ==
  /\ events \in SUBSET Event
  /\ nextId \in 1..(MaxId + 1)
  /\ writer \in [Writers -> WriterState]
  /\ acks \in SUBSET Event
  /\ snapshots \in SUBSET Snapshot
  /\ reader \in [Readers -> ReaderState]
  /\ watcher \in [Watchers -> [cursor : Nat, seen : SUBSET Event]]

\* Exactly once per (task, key), eventstore.py lines 8-9: whoever retries an
\* append after a crash or races another one, the key names one fact, and every
\* caller that was ever answered for that key was given that same fact.
ExactlyOnce ==
  \A e, f \in events \cup acks :
     /\ e.id = f.id => e = f
     /\ e.key = f.key /\ e.key # NoKey => e = f

\* An acknowledged event can be read back by everyone: append never answers
\* with a row that is still uncommitted or was rolled back.
AcksDurable == acks \subseteq events

\* snapshots.py lines 3-4: a cached state is exactly the fold of the stream up
\* to its version, and stays so while other writers go on appending.
SnapshotExact ==
  \A s \in snapshots : s.state = {e \in events : e.id <= s.version}

\* The answer of get_state is the fold of the entire stream at the moment the
\* tail is read (rebuild_full), whatever snapshots other readers save meanwhile.
GetStateExact ==
  [][\A r \in Readers :
       reader[r].pc = "tail" /\ reader'[r].pc \in {"idle", "save"}
         /\ reader'[r] # NoRead
       => reader'[r].state = events]_vars

\* A follower that moves its cursor to an id has delivered every event up to it:
\* nothing ever becomes visible behind a cursor.
NoEventBehindCursor ==
  \A v \in Watchers :
     watcher[v].seen = {e \in events : e.id <= watcher[v].cursor}

\* Every event reaches every follower.
EventuallyDelivered ==
  \A v \in Watchers : \A i \in 1..MaxId :
     (\E e \in events : e.id = i) ~> (\E e \in watcher[v].seen : e.id = i)

-----------------------------------------------------------------------------
(* The inductive strengthening of the properties above. *)

Inserting(w) == writer[w].pc = "insert"

\* The sequence never hands an id out twice, and an id in flight is not yet taken.
IdsFresh ==
  /\ \A e \in events : e.id < nextId
  /\ \A w \in Writers : Inserting(w) =>
        /\ writer[w].row.id < nextId
        /\ \A e \in events : e.id # writer[w].row.id
        /\ \A x \in Writers : Inserting(x) /\ x # w => writer[x].row.id # writer[w].row.id

FactsUnique ==
  \A e, f \in events :
     /\ e.id = f.id => e = f
     /\ e.key = f.key /\ e.key # NoKey => e = f

\* What an append is about to answer is committed, and a lookup finds its row.
AnswersCommitted ==
  /\ acks \subseteq events
  /\ \A w \in Writers :
        /\ writer[w].pc = "return" => writer[w].row \in events
        /\ writer[w].pc = "lookup" =>
             writer[w].row.key # NoKey /\ \E e \in events : e.key = writer[w].row.key

LogInv == IdsFresh /\ FactsUnique /\ AnswersCommitted

\* With one writer at a time, the id in flight is above everything visible.
InFlightOnTop ==
  \A w \in Writers : Inserting(w) =>
     /\ \A e \in events : e.id < writer[w].row.id
     /\ \A x \in Writers : Inserting(x) => x = w

\* A cache entry, a reconstruction or a cursor stands at an event (or at zero)
\* and holds the stream up to there.
Prefix(v) == {e \in events : e.id <= v}
StandsAt(v, state) ==
  /\ v = 0 \/ \E e \in events : e.id = v
  /\ state = Prefix(v)

PrefixesExact ==
  /\ \A s \in snapshots : StandsAt(s.version, s.state)
  /\ \A r \in Readers : StandsAt(reader[r].version, reader[r].state)
  /\ \A v \in Watchers : StandsAt(watcher[v].cursor, watcher[v].seen)

\* What one writer at a time adds: the inductive invariant of the SQLite backend.
SerialInv == SerialWrites => InFlightOnTop /\ PrefixesExact

\* What append promises its callers.
Contract == INSTANCE EventStream WITH stream <- events
ImplementsStream == Contract!Spec
=============================================================================
