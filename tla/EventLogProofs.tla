--------------------------- MODULE EventLogProofs ---------------------------
(***************************************************************************)
(* Proofs about EventLog, for every number of writers, readers, followers, *)
(* keys and ids.                                                           *)
(***************************************************************************)
EXTENDS EventLog, TLAPS

\* The variables keep the shape of the tables and of the coroutines' locals.
THEOREM Typing == Spec => []TypeOK
<1>1. Init => TypeOK
  BY MaxIdAssumption DEF Init, TypeOK, NoEvent, NoRead, WriterState, ReaderState
<1>2. TypeOK /\ [Next]_vars => TypeOK'
  <2> SUFFICES ASSUME TypeOK, [Next]_vars PROVE TypeOK'
    OBVIOUS
  <2> USE DEF TypeOK
  <2>1. ASSUME NEW w \in Writers, NEW k \in Keys \cup {NoKey}, NEW p \in Payloads,
               BeginInsert(w, k, p)
        PROVE  TypeOK'
    <3>1. [id |-> nextId, key |-> k, payload |-> p] \in Event
      BY <2>1, MaxIdAssumption DEF BeginInsert, Event, Ids
    <3>2. writer' \in [Writers -> WriterState]
      BY <2>1, <3>1 DEF BeginInsert, WriterState
    <3>3. nextId' \in 1..(MaxId + 1)
      BY <2>1, MaxIdAssumption DEF BeginInsert
    <3> QED BY <2>1, <3>2, <3>3 DEF BeginInsert
  <2>2. ASSUME NEW w \in Writers, CommitInsert(w) PROVE TypeOK'
    <3>1. writer[w] \in [pc : {"insert", "lookup", "return"}, row : Event]
      BY <2>2 DEF CommitInsert, WriterState, NoEvent
    <3>2. writer' \in [Writers -> WriterState]
      BY <2>2, <3>1 DEF CommitInsert, WriterState
    <3>3. events' \in SUBSET Event
      BY <2>2, <3>1 DEF CommitInsert
    <3> QED BY <2>2, <3>2, <3>3 DEF CommitInsert
  <2>3. ASSUME NEW w \in Writers, SkipInsert(w) PROVE TypeOK'
    <3>1. writer[w] \in [pc : {"insert", "lookup", "return"}, row : Event]
      BY <2>3 DEF SkipInsert, WriterState, NoEvent
    <3>2. writer' \in [Writers -> WriterState]
      BY <2>3, <3>1 DEF SkipInsert, WriterState
    <3> QED BY <2>3, <3>2 DEF SkipInsert
  <2>4. ASSUME NEW w \in Writers, LookupExisting(w) PROVE TypeOK'
    BY <2>4 DEF LookupExisting, WriterState
  <2>5. ASSUME NEW w \in Writers, ReturnEvent(w) PROVE TypeOK'
    <3>1. writer[w] \in [pc : {"insert", "lookup", "return"}, row : Event]
      BY <2>5 DEF ReturnEvent, WriterState, NoEvent
    <3>2. acks' \in SUBSET Event
      BY <2>5, <3>1 DEF ReturnEvent
    <3>3. writer' \in [Writers -> WriterState]
      BY <2>5 DEF ReturnEvent, WriterState
    <3> QED BY <2>5, <3>2, <3>3 DEF ReturnEvent
  <2>6. ASSUME NEW w \in Writers, CrashWriter(w) PROVE TypeOK'
    BY <2>6 DEF CrashWriter, WriterState
  <2>7. ASSUME NEW r \in Readers, ReadLatest(r) PROVE TypeOK'
    BY <2>7 DEF ReadLatest, ReaderState, Snapshot
  <2>8. ASSUME NEW r \in Readers, NEW auto \in BOOLEAN, FoldTail(r, auto) PROVE TypeOK'
    BY <2>8 DEF FoldTail, LastEventIds, ReadStream, ReaderState, Event, Ids
  <2>9. ASSUME NEW r \in Readers, SaveSnapshot(r) PROVE TypeOK'
    <3>1. snapshots' \in SUBSET Snapshot
      BY <2>9 DEF SaveSnapshot, ReaderState, Snapshot
    <3>2. reader' \in [Readers -> ReaderState]
      BY <2>9 DEF SaveSnapshot, ReaderState
    <3> QED BY <2>9, <3>1, <3>2 DEF SaveSnapshot
  <2>10. ASSUME NEW r \in Readers, CrashReader(r) PROVE TypeOK'
    BY <2>10 DEF CrashReader, ReaderState, NoRead
  <2>11. ASSUME NEW v \in Watchers, Poll(v) PROVE TypeOK'
    BY <2>11 DEF Poll, LastEventIds, ReadStream, Event, Ids
  <2>12. CASE UNCHANGED vars
    BY <2>12 DEF vars
  <2> QED
    BY <2>1, <2>2, <2>3, <2>4, <2>5, <2>6, <2>7, <2>8, <2>9, <2>10, <2>11, <2>12
       DEF Next, Append, GetState
<1> QED BY <1>1, <1>2, PTL DEF Spec

-----------------------------------------------------------------------------
\* Ids are never handed out twice, keys never name two facts, and what append
\* answers is committed: inductive for either backend.
THEOREM LogInvariant == Spec => []LogInv
<1>1. Init => LogInv
  BY DEF Init, LogInv, IdsFresh, FactsUnique, AnswersCommitted, NoEvent, Inserting
<1>2. TypeOK /\ LogInv /\ [Next]_vars => LogInv'
  <2> SUFFICES ASSUME TypeOK, LogInv, [Next]_vars PROVE LogInv'
    OBVIOUS
  <2> USE DEF LogInv, Inserting
  <2>1. ASSUME NEW w \in Writers, NEW k \in Keys \cup {NoKey}, NEW p \in Payloads,
               BeginInsert(w, k, p)
        PROVE  LogInv'
    <3>1. writer'[w] = [pc |-> "insert", row |-> [id |-> nextId, key |-> k, payload |-> p]]
      BY <2>1 DEF BeginInsert, TypeOK
    <3>2. \A x \in Writers : x # w => writer'[x] = writer[x]
      BY <2>1 DEF BeginInsert, TypeOK
    <3>3. /\ nextId \in Nat /\ nextId' = nextId + 1
          /\ events' = events /\ acks' = acks
      BY <2>1, MaxIdAssumption DEF BeginInsert, TypeOK
    <3>4. \A e \in events : e.id \in Nat
      BY MaxIdAssumption DEF TypeOK, Event, Ids
    <3>5. \A x \in Writers : writer[x].pc = "insert" => writer[x].row.id \in Nat
      BY MaxIdAssumption DEF TypeOK, WriterState, NoEvent, Event, Ids
    <3>6. IdsFresh'
      BY <3>1, <3>2, <3>3, <3>4, <3>5 DEF IdsFresh
    <3>7. FactsUnique'
      BY <3>3 DEF FactsUnique
    <3>8. AnswersCommitted'
      BY <3>1, <3>2, <3>3 DEF AnswersCommitted
    <3> QED BY <3>6, <3>7, <3>8
  <2>2. ASSUME NEW w \in Writers, CommitInsert(w) PROVE LogInv'
    <3> DEFINE row == writer[w].row
    <3>1. /\ writer[w].pc = "insert" /\ row \in Event
          /\ writer'[w].pc = "return" /\ writer'[w].row = row
      BY <2>2 DEF CommitInsert, TypeOK, WriterState, NoEvent
    <3>2. \A x \in Writers : x # w => writer'[x] = writer[x]
      BY <2>2 DEF CommitInsert, TypeOK
    <3>3. events' = events \cup {row} /\ nextId' = nextId /\ acks' = acks
      BY <2>2 DEF CommitInsert
    <3>4. row.key # NoKey => \A e \in events : e.key # row.key
      BY <2>2 DEF CommitInsert, Conflict
    <3>5. \A e \in events : e.id # row.id
      BY <3>1 DEF IdsFresh
    <3>6. IdsFresh'
      BY <3>1, <3>2, <3>3, <3>5 DEF IdsFresh
    <3>7. FactsUnique'
      BY <3>3, <3>4, <3>5 DEF FactsUnique
    <3>8. AnswersCommitted'
      BY <3>1, <3>2, <3>3 DEF AnswersCommitted
    <3> QED BY <3>6, <3>7, <3>8
  <2>3. ASSUME NEW w \in Writers, SkipInsert(w) PROVE LogInv'
    <3>1. /\ writer'[w].pc = "lookup" /\ writer'[w].row = writer[w].row
          /\ \A x \in Writers : x # w => writer'[x] = writer[x]
      BY <2>3 DEF SkipInsert, TypeOK, WriterState, NoEvent
    <3>2. events' = events /\ nextId' = nextId /\ acks' = acks
      BY <2>3 DEF SkipInsert
    <3>3. writer[w].row.key # NoKey /\ \E e \in events : e.key = writer[w].row.key
      BY <2>3 DEF SkipInsert, Conflict
    <3>4. IdsFresh' /\ FactsUnique'
      BY <3>1, <3>2 DEF IdsFresh, FactsUnique
    <3>5. AnswersCommitted'
      BY <3>1, <3>2, <3>3 DEF AnswersCommitted
    <3> QED BY <3>4, <3>5
  <2>4. ASSUME NEW w \in Writers, LookupExisting(w) PROVE LogInv'
    <3>1. /\ writer'[w].pc = "return" /\ writer'[w].row \in events
          /\ \A x \in Writers : x # w => writer'[x] = writer[x]
      BY <2>4 DEF LookupExisting, TypeOK
    <3>2. events' = events /\ nextId' = nextId /\ acks' = acks
      BY <2>4 DEF LookupExisting
    <3> QED BY <3>1, <3>2 DEF IdsFresh, FactsUnique, AnswersCommitted
  <2>5. ASSUME NEW w \in Writers, ReturnEvent(w) PROVE LogInv'
    <3>1. /\ writer'[w].pc = "idle"
          /\ \A x \in Writers : x # w => writer'[x] = writer[x]
      BY <2>5 DEF ReturnEvent, TypeOK, NoEvent
    <3>2. events' = events /\ nextId' = nextId
      BY <2>5 DEF ReturnEvent
    <3>3. acks' \subseteq events
      BY <2>5 DEF ReturnEvent, AnswersCommitted
    <3> QED BY <3>1, <3>2, <3>3 DEF IdsFresh, FactsUnique, AnswersCommitted
  <2>6. ASSUME NEW w \in Writers, CrashWriter(w) PROVE LogInv'
    <3>1. /\ writer'[w].pc = "idle"
          /\ \A x \in Writers : x # w => writer'[x] = writer[x]
      BY <2>6 DEF CrashWriter, TypeOK, NoEvent
    <3>2. events' = events /\ nextId' = nextId /\ acks' = acks
      BY <2>6 DEF CrashWriter
    <3> QED BY <3>1, <3>2 DEF IdsFresh, FactsUnique, AnswersCommitted
  <2>7. CASE UNCHANGED <<events, nextId, writer, acks>>
    BY <2>7 DEF IdsFresh, FactsUnique, AnswersCommitted
  <2>8. ASSUME NEW r \in Readers, GetState(r) PROVE LogInv'
    BY <2>7, <2>8 DEF GetState, ReadLatest, FoldTail, SaveSnapshot, CrashReader
  <2>9. ASSUME NEW v \in Watchers, Poll(v) PROVE LogInv'
    BY <2>7, <2>9 DEF Poll
  <2>10. CASE UNCHANGED vars
    BY <2>7, <2>10 DEF vars
  <2> QED
    BY <2>1, <2>2, <2>3, <2>4, <2>5, <2>6, <2>8, <2>9, <2>10 DEF Next, Append
<1> QED BY <1>1, <1>2, Typing, PTL DEF Spec

\* Exactly once per (task, key), and every caller answered with the same fact.
THEOREM AppendExactlyOnce == Spec => []ExactlyOnce
<1>1. LogInv => ExactlyOnce
  BY DEF LogInv, FactsUnique, AnswersCommitted, ExactlyOnce
<1> QED BY <1>1, LogInvariant, PTL

\* An answered append is committed.
THEOREM AcksAreDurable == Spec => []AcksDurable
<1>1. LogInv => AcksDurable
  BY DEF LogInv, AnswersCommitted, AcksDurable
<1> QED BY <1>1, LogInvariant, PTL

-----------------------------------------------------------------------------
(* The SQLite backend: one writer at a time.                               *)

\* Adding an event above everything visible changes no prefix a reader holds.
LEMMA PrefixStable ==
  ASSUME TypeOK, NEW row \in Event, \A e \in events : e.id < row.id,
         NEW v \in Nat, NEW state, StandsAt(v, state)
  PROVE  /\ v = 0 \/ \E e \in events \cup {row} : e.id = v
         /\ state = {e \in events \cup {row} : e.id <= v}
<1>1. \A e \in events : e.id \in Nat /\ e.id > 0
  BY MaxIdAssumption DEF TypeOK, Event, Ids
<1>2. row.id \in Nat /\ row.id > 0
  BY MaxIdAssumption DEF Event, Ids
<1>3. v < row.id
  BY <1>1, <1>2 DEF StandsAt
<1> QED BY <1>2, <1>3 DEF StandsAt, Prefix

\* Reading the tail behind a prefix and folding it on top gives the whole stream.
LEMMA TailCompletes ==
  ASSUME TypeOK, NEW v \in Nat, NEW state, StandsAt(v, state),
         NEW c \in LastEventIds(v, ReadStream(v))
  PROVE  /\ state \cup ReadStream(v) = events
         /\ c \in Nat
         /\ StandsAt(c, events)
<1>1. \A e \in events : e.id \in Nat
  BY MaxIdAssumption DEF TypeOK, Event, Ids
<1>2. state \cup ReadStream(v) = events
  BY <1>1 DEF StandsAt, Prefix, ReadStream
<1>3. CASE ReadStream(v) = {}
  BY <1>2, <1>3 DEF LastEventIds, StandsAt
<1>4. CASE ReadStream(v) # {}
  <2>1. PICK f \in ReadStream(v) :
          c = f.id /\ \A g \in ReadStream(v) : g.id <= f.id
    BY <1>4 DEF LastEventIds
  <2>2. f \in events /\ f.id > v
    BY <2>1 DEF ReadStream
  <2>3. \A e \in events : e.id <= c
    BY <1>1, <2>1, <2>2 DEF ReadStream
  <2> QED BY <1>1, <1>2, <2>1, <2>2, <2>3 DEF StandsAt, Prefix
<1> QED BY <1>3, <1>4

\* With one writer at a time the id in flight is on top, and every snapshot,
\* reconstruction and cursor holds an exact prefix of the stream.
THEOREM SerialInvariant == Spec => []SerialInv
<1>1. Init => SerialInv
  BY DEF Init, SerialInv, InFlightOnTop, PrefixesExact, StandsAt, Prefix, Inserting,
         NoEvent, NoRead
<1>2. TypeOK /\ LogInv /\ SerialInv /\ [Next]_vars => SerialInv'
  <2> SUFFICES ASSUME TypeOK, LogInv, InFlightOnTop, PrefixesExact, SerialWrites,
                      [Next]_vars
               PROVE  InFlightOnTop' /\ PrefixesExact'
    BY DEF SerialInv
  <2>0. /\ \A e \in events : e.id \in Nat
        /\ \A s \in snapshots : s.version \in Nat
        /\ \A r \in Readers : reader[r].version \in Nat
        /\ \A v \in Watchers : watcher[v].cursor \in Nat
    BY MaxIdAssumption DEF TypeOK, Event, Ids, Snapshot, ReaderState
  <2>1. ASSUME NEW w \in Writers, NEW k \in Keys \cup {NoKey}, NEW p \in Payloads,
               BeginInsert(w, k, p)
        PROVE  InFlightOnTop' /\ PrefixesExact'
    <3>1. writer'[w].row.id = nextId
      BY <2>1 DEF BeginInsert, TypeOK
    <3>2. \A x \in Writers : x # w => writer'[x].pc # "insert"
      BY <2>1 DEF BeginInsert, TypeOK
    <3>3. events' = events /\ \A e \in events : e.id < nextId
      BY <2>1 DEF BeginInsert, LogInv, IdsFresh
    <3>4. InFlightOnTop'
      BY <3>1, <3>2, <3>3 DEF InFlightOnTop, Inserting
    <3>5. PrefixesExact'
      BY <2>1 DEF BeginInsert, PrefixesExact, StandsAt, Prefix
    <3> QED BY <3>4, <3>5
  <2>2. ASSUME NEW w \in Writers, CommitInsert(w)
        PROVE  InFlightOnTop' /\ PrefixesExact'
    <3>1. writer[w].pc = "insert" /\ writer[w].row \in Event
      BY <2>2 DEF CommitInsert, TypeOK, WriterState, NoEvent
    <3>2. \A e \in events : e.id < writer[w].row.id
      BY <3>1 DEF InFlightOnTop, Inserting
    <3>3. events' = events \cup {writer[w].row}
      BY <2>2 DEF CommitInsert
    <3>4. \A x \in Writers : writer'[x].pc # "insert"
      BY <2>2, <3>1 DEF CommitInsert, TypeOK, InFlightOnTop, Inserting
    <3>5. InFlightOnTop'
      BY <3>4 DEF InFlightOnTop, Inserting
    <3>6. snapshots' = snapshots /\ reader' = reader /\ watcher' = watcher
      BY <2>2 DEF CommitInsert
    <3>7. \A s \in snapshots : StandsAt(s.version, s.state)'
      <4> TAKE s \in snapshots
      <4>1. StandsAt(s.version, s.state)
        BY DEF PrefixesExact
      <4>2. /\ \/ s.version = 0
               \/ \E e \in events \cup {writer[w].row} : e.id = s.version
            /\ s.state = {e \in events \cup {writer[w].row} : e.id <= s.version}
        BY <2>0, <3>1, <3>2, <4>1, PrefixStable
      <4> QED BY <3>3, <3>6, <4>2 DEF StandsAt, Prefix
    <3>8. \A r \in Readers : StandsAt(reader[r].version, reader[r].state)'
      <4> TAKE r \in Readers
      <4>1. StandsAt(reader[r].version, reader[r].state)
        BY DEF PrefixesExact
      <4>2. /\ \/ reader[r].version = 0
               \/ \E e \in events \cup {writer[w].row} : e.id = reader[r].version
            /\ reader[r].state = {e \in events \cup {writer[w].row} : e.id <= reader[r].version}
        BY <2>0, <3>1, <3>2, <4>1, PrefixStable
      <4> QED BY <3>3, <3>6, <4>2 DEF StandsAt, Prefix
    <3>9. \A v \in Watchers : StandsAt(watcher[v].cursor, watcher[v].seen)'
      <4> TAKE v \in Watchers
      <4>1. StandsAt(watcher[v].cursor, watcher[v].seen)
        BY DEF PrefixesExact
      <4>2. /\ \/ watcher[v].cursor = 0
               \/ \E e \in events \cup {writer[w].row} : e.id = watcher[v].cursor
            /\ watcher[v].seen = {e \in events \cup {writer[w].row} : e.id <= watcher[v].cursor}
        BY <2>0, <3>1, <3>2, <4>1, PrefixStable
      <4> QED BY <3>3, <3>6, <4>2 DEF StandsAt, Prefix
    <3> QED BY <3>5, <3>6, <3>7, <3>8, <3>9 DEF PrefixesExact
  <2>3. ASSUME NEW w \in Writers,
               SkipInsert(w) \/ LookupExisting(w) \/ ReturnEvent(w) \/ CrashWriter(w)
        PROVE  InFlightOnTop' /\ PrefixesExact'
    <3>1. /\ events' = events /\ snapshots' = snapshots
          /\ reader' = reader /\ watcher' = watcher
      BY <2>3 DEF SkipInsert, LookupExisting, ReturnEvent, CrashWriter
    <3>2. writer'[w].pc # "insert"
      <4>1. CASE SkipInsert(w)
        BY <4>1 DEF SkipInsert, TypeOK, WriterState, NoEvent
      <4>2. CASE LookupExisting(w)
        BY <4>2 DEF LookupExisting, TypeOK
      <4>3. CASE ReturnEvent(w) \/ CrashWriter(w)
        BY <4>3 DEF ReturnEvent, CrashWriter, TypeOK, NoEvent
      <4> QED BY <2>3, <4>1, <4>2, <4>3
    <3>3. \A x \in Writers : x # w => writer'[x] = writer[x]
      BY <2>3 DEF SkipInsert, LookupExisting, ReturnEvent, CrashWriter, TypeOK
    <3>4. InFlightOnTop'
      BY <3>1, <3>2, <3>3 DEF InFlightOnTop, Inserting
    <3>5. PrefixesExact'
      BY <3>1 DEF PrefixesExact, StandsAt, Prefix
    <3> QED BY <3>4, <3>5
  <2>4. ASSUME NEW r \in Readers, ReadLatest(r)
        PROVE  InFlightOnTop' /\ PrefixesExact'
    <3>1. /\ events' = events /\ writer' = writer
          /\ snapshots' = snapshots /\ watcher' = watcher
      BY <2>4 DEF ReadLatest
    <3>2. \A q \in Readers : q # r => reader'[q] = reader[q]
      BY <2>4 DEF ReadLatest, TypeOK
    <3>3. StandsAt(reader'[r].version, reader'[r].state)
      <4>1. StandsAt(0, {})
        BY MaxIdAssumption DEF StandsAt, Prefix, TypeOK, Event, Ids
      <4>2. CASE reader'[r].version = 0 /\ reader'[r].state = {}
        BY <4>1, <4>2
      <4>3. ASSUME NEW s \in snapshots,
                   reader'[r].version = s.version, reader'[r].state = s.state
            PROVE  StandsAt(reader'[r].version, reader'[r].state)
        BY <4>3 DEF PrefixesExact
      <4>4. \/ reader'[r].version = 0 /\ reader'[r].state = {}
            \/ \E s \in snapshots :
                 reader'[r].version = s.version /\ reader'[r].state = s.state
        BY <2>4 DEF ReadLatest, TypeOK
      <4> QED BY <4>2, <4>3, <4>4
    <3> QED BY <3>1, <3>2, <3>3 DEF InFlightOnTop, Inserting, PrefixesExact, StandsAt, Prefix
  <2>5. ASSUME NEW r \in Readers, NEW auto \in BOOLEAN, FoldTail(r, auto)
        PROVE  InFlightOnTop' /\ PrefixesExact'
    <3>1. /\ events' = events /\ writer' = writer
          /\ snapshots' = snapshots /\ watcher' = watcher
      BY <2>5 DEF FoldTail
    <3>2. \A q \in Readers : q # r => reader'[q] = reader[q]
      BY <2>5 DEF FoldTail, TypeOK
    <3>3. PICK c \in LastEventIds(reader[r].version, ReadStream(reader[r].version)) :
            /\ reader'[r].version = c
            /\ reader'[r].state = reader[r].state \cup ReadStream(reader[r].version)
      BY <2>5 DEF FoldTail, TypeOK
    <3>4. StandsAt(reader'[r].version, reader'[r].state)
      <4>1. StandsAt(reader[r].version, reader[r].state)
        BY DEF PrefixesExact
      <4>2. /\ reader[r].state \cup ReadStream(reader[r].version) = events
            /\ StandsAt(c, events)
        BY <2>0, <4>1, TailCompletes
      <4> QED BY <3>3, <4>2
    <3> QED BY <3>1, <3>2, <3>4 DEF InFlightOnTop, Inserting, PrefixesExact, StandsAt, Prefix
  <2>6. ASSUME NEW r \in Readers, SaveSnapshot(r)
        PROVE  InFlightOnTop' /\ PrefixesExact'
    <3>1. events' = events /\ writer' = writer /\ watcher' = watcher
      BY <2>6 DEF SaveSnapshot
    <3>2. \A q \in Readers : /\ reader'[q].version = reader[q].version
                            /\ reader'[q].state = reader[q].state
      BY <2>6 DEF SaveSnapshot, TypeOK, ReaderState
    <3>3. snapshots' \subseteq
            snapshots \cup {[version |-> reader[r].version, state |-> reader[r].state]}
      BY <2>6 DEF SaveSnapshot
    <3> QED BY <3>1, <3>2, <3>3 DEF InFlightOnTop, Inserting, PrefixesExact, StandsAt, Prefix
  <2>7. ASSUME NEW r \in Readers, CrashReader(r)
        PROVE  InFlightOnTop' /\ PrefixesExact'
    <3>1. /\ events' = events /\ writer' = writer
          /\ snapshots' = snapshots /\ watcher' = watcher
      BY <2>7 DEF CrashReader
    <3>2. /\ reader'[r].version = 0 /\ reader'[r].state = {}
          /\ \A q \in Readers : q # r => reader'[q] = reader[q]
      BY <2>7 DEF CrashReader, TypeOK, NoRead
    <3>3. StandsAt(0, {})
      BY MaxIdAssumption DEF StandsAt, Prefix, TypeOK, Event, Ids
    <3> QED BY <3>1, <3>2, <3>3 DEF InFlightOnTop, Inserting, PrefixesExact, StandsAt, Prefix
  <2>8. ASSUME NEW v \in Watchers, Poll(v)
        PROVE  InFlightOnTop' /\ PrefixesExact'
    <3>1. /\ events' = events /\ writer' = writer
          /\ snapshots' = snapshots /\ reader' = reader
      BY <2>8 DEF Poll
    <3>2. \A q \in Watchers : q # v => watcher'[q] = watcher[q]
      BY <2>8 DEF Poll, TypeOK
    <3>3. PICK c \in LastEventIds(watcher[v].cursor, ReadStream(watcher[v].cursor)) :
            /\ watcher'[v].cursor = c
            /\ watcher'[v].seen = watcher[v].seen \cup ReadStream(watcher[v].cursor)
      BY <2>8 DEF Poll, TypeOK
    <3>4. StandsAt(watcher'[v].cursor, watcher'[v].seen)
      <4>1. StandsAt(watcher[v].cursor, watcher[v].seen)
        BY DEF PrefixesExact
      <4>2. /\ watcher[v].seen \cup ReadStream(watcher[v].cursor) = events
            /\ StandsAt(c, events)
        BY <2>0, <4>1, TailCompletes
      <4> QED BY <3>3, <4>2
    <3> QED BY <3>1, <3>2, <3>4 DEF InFlightOnTop, Inserting, PrefixesExact, StandsAt, Prefix
  <2>9. CASE UNCHANGED vars
    BY <2>9 DEF vars, InFlightOnTop, Inserting, PrefixesExact, StandsAt, Prefix
  <2> QED
    BY <2>1, <2>2, <2>3, <2>4, <2>5, <2>6, <2>7, <2>8, <2>9 DEF Next, Append, GetState
<1> QED BY <1>1, <1>2, Typing, LogInvariant, PTL DEF Spec

\* On SQLite a snapshot is, and stays, exactly the fold of the stream up to its
\* version: the one sentence at the head of core/snapshots.py.
THEOREM SnapshotsExact == SerialWrites => (Spec => []SnapshotExact)
<1> SUFFICES ASSUME SerialWrites PROVE Spec => []SnapshotExact
  OBVIOUS
<1>1. SerialInv => SnapshotExact
  BY DEF SerialInv, PrefixesExact, StandsAt, Prefix, SnapshotExact
<1> QED BY <1>1, SerialInvariant, PTL

\* On SQLite get_state answers with the fold of the whole stream as it is when the
\* tail is read, whatever is appended and saved while the call is between its two
\* queries.
THEOREM GetStateIsExact == SerialWrites => (Spec => GetStateExact)
<1> SUFFICES ASSUME SerialWrites PROVE Spec => GetStateExact
  OBVIOUS
<1>1. TypeOK /\ SerialInv /\ [Next]_vars =>
        [\A r \in Readers :
            reader[r].pc = "tail" /\ reader'[r].pc \in {"idle", "save"}
              /\ reader'[r] # NoRead
            => reader'[r].state = events]_vars
  <2> SUFFICES ASSUME TypeOK, PrefixesExact, Next, NEW r \in Readers,
                      reader[r].pc = "tail", reader'[r].pc \in {"idle", "save"},
                      reader'[r] # NoRead
               PROVE  reader'[r].state = events
    BY DEF SerialInv
  <2>1. PICK q \in Readers : GetState(q)
    BY DEF Next, Append, BeginInsert, CommitInsert, SkipInsert, LookupExisting, ReturnEvent,
           CrashWriter, Poll
  <2>2. q = r
    BY <2>1 DEF GetState, ReadLatest, FoldTail, SaveSnapshot, CrashReader, TypeOK
  <2>3. PICK auto \in BOOLEAN : FoldTail(r, auto)
    BY <2>1, <2>2 DEF GetState, ReadLatest, SaveSnapshot, CrashReader, TypeOK
  <2>4. PICK c \in LastEventIds(reader[r].version, ReadStream(reader[r].version)) :
          reader'[r].state = reader[r].state \cup ReadStream(reader[r].version)
    BY <2>3 DEF FoldTail, TypeOK
  <2>5. reader[r].version \in Nat /\ StandsAt(reader[r].version, reader[r].state)
    BY DEF TypeOK, ReaderState, PrefixesExact
  <2> QED BY <2>4, <2>5, TailCompletes
<1> QED BY <1>1, Typing, SerialInvariant, PTL DEF Spec, GetStateExact

\* On SQLite nothing ever becomes visible behind the cursor of a follower.
THEOREM CursorsExact == SerialWrites => (Spec => []NoEventBehindCursor)
<1> SUFFICES ASSUME SerialWrites PROVE Spec => []NoEventBehindCursor
  OBVIOUS
<1>1. SerialInv => NoEventBehindCursor
  BY DEF SerialInv, PrefixesExact, StandsAt, Prefix, NoEventBehindCursor
<1> QED BY <1>1, SerialInvariant, PTL

\* On SQLite the store implements the contract at the head of core/eventstore.py:
\* the stream grows only at its end, by facts whose key is free.
THEOREM StoreImplementsStream == SerialWrites => (Spec => ImplementsStream)
<1> SUFFICES ASSUME SerialWrites PROVE Spec => ImplementsStream
  OBVIOUS
<1>1. Init => Contract!Init
  BY DEF Init, Contract!Init
<1>2. TypeOK /\ SerialInv /\ [Next]_vars => [Contract!Next]_events
  <2> SUFFICES ASSUME TypeOK, InFlightOnTop, [Next]_vars, events' # events
               PROVE  Contract!Next
    BY DEF SerialInv
  <2>1. PICK w \in Writers : CommitInsert(w)
    BY DEF Next, Append, GetState, BeginInsert, SkipInsert, LookupExisting, ReturnEvent,
           CrashWriter, ReadLatest, FoldTail, SaveSnapshot, CrashReader, Poll, vars
  <2>2. writer[w].row \in Event /\ Inserting(w)
    BY <2>1 DEF CommitInsert, TypeOK, WriterState, NoEvent, Inserting
  <2>3. Contract!Record(writer[w].row)
    BY <2>1, <2>2 DEF CommitInsert, Conflict, InFlightOnTop, Contract!Record
  <2> QED BY <2>2, <2>3 DEF Contract!Next, Contract!Event, Event
<1> QED BY <1>1, <1>2, Typing, SerialInvariant, PTL DEF Spec, ImplementsStream, Contract!Spec
=============================================================================
