----------------------------- MODULE GraphProofs -----------------------------
(***************************************************************************)
(* Proofs about Graph, for any steps, dependencies and verdicts, in both   *)
(* ways of running a graph.                                                *)
(*                                                                         *)
(* The first part is about the algorithms: what validate_graph lets pass   *)
(* always has a step left whose dependencies are done, so that             *)
(* topological_waves never has to break a cycle.  The second follows the   *)
(* waves through the workflow.                                             *)
(***************************************************************************)
EXTENDS Graph, TLAPS, FiniteSetTheorems, WellFoundedInduction

(* Recursion and induction up to a number *)

\* A set of numbers has a least one.
LEMMA LeastOf ==
  ASSUME NEW T \in SUBSET Nat, T # {}
  PROVE  \E n \in T : \A m \in T : n <= m
<1>1. PICK n \in T : \A m \in T : ~(<<m, n>> \in OpToRel(<, Nat))
  BY NatLessThanWellFounded, WFMin
<1>2. \A m \in T : ~(m < n)
  BY <1>1 DEF OpToRel
<1> QED BY <1>2

\* A function that begins with a value and goes on by a rule exists.
Recursive(S, base, rule, N) ==
  \E f \in [0..N -> S] : f[0] = base /\ \A n \in 1..N : f[n] = rule[f[n - 1]]

LEMMA RecursionExists ==
  ASSUME NEW S, NEW base \in S, NEW rule \in [S -> S], NEW N \in Nat
  PROVE  Recursive(S, base, rule, N)
<1> DEFINE Has(k) == \E f \in [0..k -> S] :
                        f[0] = base /\ \A n \in 1..k : f[n] = rule[f[n - 1]]
           Bad == {k \in Nat : ~Has(k)}
<1>1. Has(0)
  <2> DEFINE g == [n \in 0..0 |-> base]
  <2>1. g \in [0..0 -> S] /\ g[0] = base /\ \A n \in 1..0 : g[n] = rule[g[n - 1]]
    OBVIOUS
  <2> HIDE DEF g
  <2> QED BY <2>1
<1>2. ASSUME NEW k \in Nat, Has(k)  PROVE Has(k + 1)
  <2>1. PICK f \in [0..k -> S] : f[0] = base /\ \A n \in 1..k : f[n] = rule[f[n - 1]]
    BY <1>2
  <2> DEFINE g == [n \in 0..(k + 1) |-> IF n \in 0..k THEN f[n] ELSE rule[f[k]]]
  <2>2. g \in [0..(k + 1) -> S] /\ g[0] = base
    BY <2>1
  <2>3. \A n \in 1..(k + 1) : g[n] = rule[g[n - 1]]
    <3> TAKE n \in 1..(k + 1)
    <3>1. CASE n \in 1..k
      BY <2>1, <3>1
    <3>2. CASE n = k + 1
      BY <3>2
    <3> QED BY <3>1, <3>2
  <2> HIDE DEF g
  <2> QED BY <2>2, <2>3
<1>3. Bad = {}
  <2> SUFFICES ASSUME Bad # {}  PROVE FALSE
    OBVIOUS
  <2>1. Bad \in SUBSET Nat /\ \A k \in Nat : k \in Bad <=> ~Has(k)
    OBVIOUS
  <2> HIDE DEF Has, Bad
  <2>2. PICK k \in Bad : \A m \in Bad : k <= m
    BY <2>1, LeastOf
  <2>3. k # 0 /\ k \in Nat /\ ~Has(k)
    BY <1>1, <2>1
  <2>4. PICK j \in Nat : j + 1 = k
    BY <2>3
  <2>5. j \notin Bad
    BY <2>2, <2>3, <2>4
  <2> QED BY <1>2, <2>1, <2>3, <2>4, <2>5
<1> QED BY <1>3 DEF Recursive

-----------------------------------------------------------------------------
(* validate_graph and topological_waves *)

\* The numbers of dependencies left are right, no step is listed before what it depends
\* on, and the steps that are ready are those whose dependencies are all listed.
KahnState == [order : SUBSET GraphSteps, ready : SUBSET GraphSteps, indegree : [GraphSteps -> Int]]
Counts(deps, k) ==
  /\ k \in KahnState /\ k.order \cap k.ready = {}
  /\ \A s \in GraphSteps : k.indegree[s] = Cardinality(deps[s] \ k.order)
  /\ \A s \in k.order \cup k.ready : deps[s] \subseteq k.order
  /\ \A s \in GraphSteps \ k.order : deps[s] \subseteq k.order => s \in k.ready

KahnStart(deps) ==
  [order |-> {}, ready |-> {s \in GraphSteps : deps[s] = {}},
   indegree |-> [s \in GraphSteps |-> Cardinality(deps[s])]]
KahnTurn(deps, k) == IF k.ready = {} THEN k ELSE TakeReady(deps, k)
Size == Cardinality(GraphSteps)

LEMMA KahnBegins ==
  ASSUME NEW deps \in [GraphSteps -> SUBSET GraphSteps]
  PROVE  Counts(deps, KahnStart(deps))
<1>1. \A s \in GraphSteps : IsFiniteSet(deps[s]) /\ Cardinality(deps[s]) \in Nat
  BY GraphAssumption, FS_Subset, FS_CardinalityType
<1>2. KahnStart(deps) \in KahnState
  BY <1>1 DEF KahnStart, KahnState
<1>3. \A s \in GraphSteps : deps[s] \ {} = deps[s]
  OBVIOUS
<1> QED BY <1>2, <1>3 DEF Counts, KahnStart

LEMMA KahnGoesOn ==
  ASSUME NEW deps \in [GraphSteps -> SUBSET GraphSteps], NEW k, Counts(deps, k), k.ready # {}
  PROVE  \E node \in GraphSteps :
            /\ TakeReady(deps, k).order = k.order \cup {node}
            /\ node \notin k.order /\ deps[node] \subseteq k.order
            /\ Counts(deps, TakeReady(deps, k))
<1> DEFINE node == CHOOSE s \in k.ready : TRUE
           left == [s \in GraphSteps |-> k.indegree[s] - IF node \in deps[s] THEN 1 ELSE 0]
           freed == {s \in GraphSteps : node \in deps[s] /\ left[s] = 0}
           next == [order |-> k.order \cup {node}, ready |-> (k.ready \ {node}) \cup freed,
                    indegree |-> left]
<1>1. TakeReady(deps, k) = next
  BY DEF TakeReady
<1>2. node \in k.ready /\ node \in GraphSteps /\ node \notin k.order /\ deps[node] \subseteq k.order
  BY DEF Counts, KahnState
<1>3. left \in [GraphSteps -> Int]
  BY DEF Counts, KahnState
<1> HIDE DEF node
<1>4. \A s \in GraphSteps : /\ left[s] = Cardinality(deps[s] \ (k.order \cup {node}))
                            /\ left[s] = 0 <=> deps[s] \subseteq k.order \cup {node}
  <2> TAKE s \in GraphSteps
  <2>1. IsFiniteSet(deps[s] \ k.order) /\ k.indegree[s] = Cardinality(deps[s] \ k.order)
    BY GraphAssumption, FS_Subset DEF Counts
  <2>2. IsFiniteSet(deps[s] \ (k.order \cup {node}))
    BY GraphAssumption, FS_Subset
  <2>3. CASE node \in deps[s]
    <3>1. deps[s] \ (k.order \cup {node}) = (deps[s] \ k.order) \ {node}
          /\ node \in deps[s] \ k.order
      BY <1>2, <2>3
    <3>2. Cardinality((deps[s] \ k.order) \ {node}) = Cardinality(deps[s] \ k.order) - 1
      BY <2>1, <3>1, FS_RemoveElement
    <3>3. left[s] = Cardinality(deps[s] \ (k.order \cup {node}))
      BY <2>1, <2>3, <3>1, <3>2
    <3>4. left[s] = 0 <=> deps[s] \ (k.order \cup {node}) = {}
      BY <2>2, <3>3, FS_EmptySet
    <3> QED BY <3>3, <3>4
  <2>4. CASE node \notin deps[s]
    <3>1. deps[s] \ (k.order \cup {node}) = deps[s] \ k.order
      BY <2>4
    <3>2. left[s] = k.indegree[s]
      BY <2>4 DEF Counts, KahnState
    <3>3. left[s] = 0 <=> deps[s] \ (k.order \cup {node}) = {}
      BY <2>1, <2>2, <3>1, <3>2, FS_EmptySet
    <3> QED BY <2>1, <3>1, <3>2, <3>3
  <2> QED BY <2>3, <2>4
<1>5. \A s \in freed : s \in GraphSteps /\ node \in deps[s] /\ deps[s] \subseteq k.order \cup {node}
  BY <1>4
<1>6. next \in KahnState
  BY <1>2, <1>3 DEF Counts, KahnState
<1>7. \A s \in freed : s \notin k.order \cup {node}
  BY <1>2, <1>5 DEF Counts
<1>8. \A s \in next.order \cup next.ready : deps[s] \subseteq next.order
  BY <1>2, <1>5 DEF Counts
<1>9. next.order \cap next.ready = {}
  BY <1>7 DEF Counts
<1>10. \A s \in GraphSteps : next.indegree[s] = Cardinality(deps[s] \ next.order)
  BY <1>4
<1>11. \A s \in GraphSteps \ next.order : deps[s] \subseteq next.order => s \in next.ready
  <2> TAKE s \in GraphSteps \ next.order
  <2> HAVE deps[s] \subseteq next.order
  <2>1. CASE node \in deps[s]
    BY <1>4, <2>1
  <2>2. CASE node \notin deps[s]
    BY <2>2 DEF Counts
  <2> QED BY <2>1, <2>2
<1>12. Counts(deps, next)
  BY <1>6, <1>8, <1>9, <1>10, <1>11 DEF Counts
<1>13. next.order = k.order \cup {node}
  OBVIOUS
<1> QED BY <1>1, <1>2, <1>12, <1>13

LEMMA KahnRecursion ==
  ASSUME NEW deps \in [GraphSteps -> SUBSET GraphSteps]
  PROVE  /\ Kahn(deps)[0] = KahnStart(deps)
         /\ \A n \in 1..Size : Kahn(deps)[n] = KahnTurn(deps, Kahn(deps)[n - 1])
<1> DEFINE S == {k \in KahnState : Counts(deps, k)}
           base == KahnStart(deps)
           rule == [k \in S |-> KahnTurn(deps, k)]
           Body(f) == [n \in 0..Size |-> IF n = 0 THEN base ELSE KahnTurn(deps, f[n - 1])]
<1>1. Size \in Nat
  BY GraphAssumption, FS_CardinalityType DEF Size
<1>2. base \in S
  BY KahnBegins DEF Counts
<1>3. \A k \in S : KahnTurn(deps, k) \in S
  BY KahnGoesOn DEF KahnTurn, Counts
<1>4. rule \in [S -> S]
  BY <1>3
<1>5. PICK f \in [0..Size -> S] : f[0] = base /\ \A n \in 1..Size : f[n] = rule[f[n - 1]]
  <2> HIDE DEF S, base, rule
  <2>1. Recursive(S, base, rule, Size)
    BY <1>1, <1>2, <1>4, RecursionExists
  <2> QED BY <2>1 DEF Recursive
<1>6. f = Body(f)
  <2>1. \A n \in 1..Size : n - 1 \in 0..Size
    BY <1>1
  <2>2. \A n \in 1..Size : f[n] = KahnTurn(deps, f[n - 1])
    BY <1>5, <2>1
  <2>3. \A n \in 0..Size : f[n] = IF n = 0 THEN base ELSE KahnTurn(deps, f[n - 1])
    BY <1>1, <1>5, <2>2
  <2> HIDE DEF base, rule, S
  <2> QED BY <2>3
<1>7. Kahn(deps) = CHOOSE h : h = Body(h)
  BY DEF Kahn, KahnStart, KahnTurn, Size
<1>8. Kahn(deps) = Body(Kahn(deps))
  <2> HIDE DEF Body
  <2> QED BY <1>6, <1>7
<1>9. 0 \in 0..Size /\ \A n \in 1..Size : n \in 0..Size /\ n # 0
  BY <1>1
<1> QED BY <1>8, <1>9

\* Whatever is done, as long as it is not everything that was listed, a step is ready.
Ready(deps, done) == {s \in GraphSteps \ done : deps[s] \subseteq done}
ListedLast(deps, order) ==
  \A D \in SUBSET GraphSteps : ~(order \subseteq D) => Ready(deps, D) # {}

LEMMA KahnLists ==
  ASSUME NEW deps \in [GraphSteps -> SUBSET GraphSteps], NEW n \in 0..Size
  PROVE  /\ Counts(deps, Kahn(deps)[n]) /\ ListedLast(deps, Kahn(deps)[n].order)
         /\ Kahn(deps)[n].ready = {} \/ Cardinality(Kahn(deps)[n].order) = n
<1> DEFINE Good(m) == /\ Counts(deps, Kahn(deps)[m]) /\ ListedLast(deps, Kahn(deps)[m].order)
                      /\ Kahn(deps)[m].ready = {} \/ Cardinality(Kahn(deps)[m].order) = m
           Bad == {m \in 0..Size : ~Good(m)}
<1>1. Size \in Nat
  BY GraphAssumption, FS_CardinalityType DEF Size
<1>2. Good(0)
  <2>1. KahnStart(deps).order = {}
    BY DEF KahnStart
  <2> QED BY <2>1, KahnBegins, KahnRecursion, FS_EmptySet DEF ListedLast
<1>3. ASSUME NEW m \in 1..Size, Good(m - 1)  PROVE Good(m)
  <2> DEFINE k == Kahn(deps)[m - 1]
  <2>1. /\ Kahn(deps)[m] = KahnTurn(deps, k) /\ Counts(deps, k) /\ ListedLast(deps, k.order)
        /\ k.ready = {} \/ Cardinality(k.order) = m - 1
    BY <1>3, KahnRecursion
  <2> HIDE DEF k
  <2>2. CASE k.ready = {}
    BY <2>1, <2>2 DEF KahnTurn
  <2>3. CASE k.ready # {}
    <3>1. PICK node \in GraphSteps : /\ TakeReady(deps, k).order = k.order \cup {node}
                                     /\ node \notin k.order /\ deps[node] \subseteq k.order
                                     /\ Counts(deps, TakeReady(deps, k))
      BY <2>1, <2>3, KahnGoesOn
    <3>2. ASSUME NEW D \in SUBSET GraphSteps, ~(k.order \cup {node} \subseteq D)
          PROVE  Ready(deps, D) # {}
      <4>1. CASE k.order \subseteq D
        <5>1. node \in Ready(deps, D)
          BY <3>1, <3>2, <4>1 DEF Ready
        <5> QED BY <5>1
      <4>2. CASE ~(k.order \subseteq D)
        BY <2>1, <4>2 DEF ListedLast
      <4> QED BY <4>1, <4>2
    <3>3. ListedLast(deps, TakeReady(deps, k).order)
      BY <3>1, <3>2 DEF ListedLast
    <3>4. IsFiniteSet(k.order)
      BY <2>1, GraphAssumption, FS_Subset DEF Counts, KahnState
    <3>5. Cardinality(TakeReady(deps, k).order) = m
      <4>1. Cardinality(k.order \cup {node}) = Cardinality(k.order) + 1
        BY <3>1, <3>4, FS_AddElement
      <4>2. Cardinality(k.order) = m - 1 /\ m \in Int
        BY <1>1, <1>3, <2>1, <2>3
      <4> QED BY <3>1, <4>1, <4>2
    <3> QED BY <2>1, <2>3, <3>1, <3>3, <3>5 DEF KahnTurn
  <2> QED BY <2>2, <2>3
<1>4. Bad = {}
  <2> SUFFICES ASSUME Bad # {}  PROVE FALSE
    OBVIOUS
  <2>1. Bad \in SUBSET Nat /\ \A m \in 0..Size : m \in Bad <=> ~Good(m)
    BY <1>1
  <2>2. Bad \subseteq 0..Size
    OBVIOUS
  <2> HIDE DEF Good, Bad
  <2>3. PICK m \in Bad : \A j \in Bad : m <= j
    BY <2>1, LeastOf
  <2>4. m \in 0..Size /\ ~Good(m)
    BY <2>1, <2>2, <2>3
  <2>5. m # 0
    BY <1>2, <2>4
  <2>6. m \in 1..Size /\ m - 1 \in 0..Size /\ ~(m <= m - 1)
    BY <1>1, <2>4, <2>5
  <2>7. Good(m - 1)
    BY <2>1, <2>3, <2>6
  <2> QED BY <1>3, <2>4, <2>6, <2>7
<1> QED BY <1>4

\* The search for cycles is exact.  It lists every step if, and only if, some step is ready
\* whatever is done, which is to say that no steps wait for each other.
THEOREM CyclesAreFound ==
  ASSUME NEW deps \in [GraphSteps -> SUBSET GraphSteps]
  PROVE  Ordered(deps) = GraphSteps
           <=> \A done \in SUBSET GraphSteps : done # GraphSteps => Ready(deps, done) # {}
<1> DEFINE k == Kahn(deps)[Size]
<1>1. Size \in Nat /\ Size \in 0..Size /\ Ordered(deps) = k.order
  BY GraphAssumption, FS_CardinalityType DEF Size, Ordered
<1>2. Counts(deps, k) /\ ListedLast(deps, k.order) /\ (k.ready = {} \/ Cardinality(k.order) = Size)
  BY <1>1, KahnLists
<1> HIDE DEF k
<1>3. k.order \subseteq GraphSteps
  BY <1>2 DEF Counts, KahnState
<1>4. ASSUME k.order = GraphSteps, NEW done \in SUBSET GraphSteps, done # GraphSteps
      PROVE  Ready(deps, done) # {}
  BY <1>2, <1>4 DEF ListedLast
<1>5. ASSUME \A done \in SUBSET GraphSteps : done # GraphSteps => Ready(deps, done) # {},
             k.order # GraphSteps
      PROVE  FALSE
  <2>1. Ready(deps, k.order) # {}
    BY <1>3, <1>5
  <2>2. k.ready # {}
    BY <1>2, <2>1 DEF Counts, Ready
  <2>3. Cardinality(k.order) = Cardinality(GraphSteps)
    BY <1>2, <2>2 DEF Size
  <2> QED BY <1>3, <1>5, <2>3, GraphAssumption, FS_Subset
<1> QED BY <1>1, <1>4, <1>5

\* A graph that validate_graph accepts always has a step whose dependencies are done,
\* until all of its steps are: topological_waves never has to break a cycle.
THEOREM RunnableHasReady ==
  ASSUME NEW spec \in GraphSpecs, IsRunnable(spec)
  PROVE  /\ spec.deps \in [GraphSteps -> SUBSET GraphSteps]
         /\ \A done \in SUBSET GraphSteps :
               done # GraphSteps => /\ Ready(spec.deps, done) # {}
                                    /\ NextWave(spec.deps, done) = Ready(spec.deps, done)
<1>1. spec.deps \in [GraphSteps -> SUBSET GraphSteps]
  BY DEF GraphSpecs, IsRunnable
<1>2. Ordered(spec.deps) = GraphSteps
  BY DEF IsRunnable
<1>3. \A done \in SUBSET GraphSteps : done # GraphSteps => Ready(spec.deps, done) # {}
  BY <1>1, <1>2, CyclesAreFound
<1> QED BY <1>1, <1>3 DEF NextWave, Ready

-----------------------------------------------------------------------------
(* The waves of a graph that runs *)

GraphState ==
  [pc : {"submit", "refused", "unstarted", "begin", "wave", "gather", "outcomes", "row",
         "closed", "crashed", "dead"},
   creator : {"none", "start", "record", "done"},
   deps : [GraphSteps -> SUBSET GraphSteps], failFast : BOOLEAN, durable : BOOLEAN,
   wave : Nat, now : SUBSET GraphSteps, done : SUBSET GraphSteps, failed : SUBSET GraphSteps,
   plain : {"none", "running", "ended"}]
StepState ==
  [pc : {"idle", "register", "run", "ended", "died"}, wave : Nat,
   verdict : {"none", "registration_failed"} \cup GraphVerdicts,
   others : {"none", "orphan", "run"}]
\* The types, and that a graph whose start is still to come is one for Temporal, not begun,
\* and comes from one call.
GraphTyping ==
  /\ graph \in GraphState /\ step \in [GraphSteps -> StepState]
  /\ graph.creator = "start" => graph.pc = "unstarted" /\ graph.durable
  /\ graph.pc = "submit" => graph.creator = "none"

\* Two fields of a step that change together.
LEMMA StepWithPair ==
  ASSUME NEW q \in StepState
  PROVE  /\ \A n \in Nat : [q EXCEPT !.pc = "register", !.wave = n] \in StepState
         /\ \A v \in GraphVerdicts \cup {"registration_failed"} :
               [q EXCEPT !.pc = "ended", !.verdict = v] \in StepState
<1>1. ASSUME NEW n \in Nat  PROVE [q EXCEPT !.pc = "register", !.wave = n] \in StepState
  BY DEF StepState
<1>2. ASSUME NEW v \in GraphVerdicts \cup {"registration_failed"}
      PROVE  [q EXCEPT !.pc = "ended", !.verdict = v] \in StepState
  BY DEF StepState
<1> QED BY <1>1, <1>2

LEMMA GraphTypingInit == GraphInit => GraphTyping
BY DEF GraphInit, GraphTyping, GraphState, StepState, NoStep

\* What the workflow's variables are after a wave has begun, and after an outcome.
LEMMA StartFields ==
  ASSUME GraphTyping, StartWave
  PROVE  /\ graph' \in GraphState
         /\ graph'.pc = "gather" /\ graph'.now = NextWave(graph.deps, graph.done)
         /\ graph'.wave = graph.wave + 1 /\ graph'.plain = graph.plain
         /\ graph'.creator = graph.creator
         /\ graph'.deps = graph.deps /\ graph'.failFast = graph.failFast
         /\ graph'.durable = graph.durable /\ graph'.done = graph.done
         /\ graph'.failed = graph.failed
<1> DEFINE wave == NextWave(graph.deps, graph.done)
<1>1. wave \in SUBSET GraphSteps
  BY DEF NextWave
<1>2. graph' = [graph EXCEPT !.pc = "gather", !.now = wave, !.wave = graph.wave + 1]
  BY DEF StartWave
<1> HIDE DEF wave
<1>3. PICK number \in Nat : number = graph.wave + 1
  BY DEF GraphTyping, GraphState
<1>4. graph' = [graph EXCEPT !.pc = "gather", !.now = wave, !.wave = number]
  BY <1>2, <1>3
<1>5. graph' \in GraphState
  BY <1>1, <1>4 DEF GraphTyping, GraphState
<1>6. /\ graph'.pc = "gather" /\ graph'.now = wave /\ graph'.wave = number
      /\ graph'.plain = graph.plain /\ graph'.creator = graph.creator
      /\ graph'.deps = graph.deps
      /\ graph'.failFast = graph.failFast /\ graph'.durable = graph.durable
      /\ graph'.done = graph.done /\ graph'.failed = graph.failed
  BY <1>4 DEF GraphTyping, GraphState
<1> QED BY <1>3, <1>5, <1>6 DEF wave

LEMMA OutcomeFields ==
  ASSUME GraphTyping, NEW s \in GraphSteps, RecordOutcome(s)
  PROVE  /\ graph' \in GraphState
         /\ graph.pc = "outcomes" /\ s \in graph.now
         /\ graph'.now = graph.now \ {s} /\ graph'.done = graph.done \cup {s}
         /\ graph'.pc = IF graph.now = {s} THEN "wave" ELSE "outcomes"
         /\ graph'.failed = IF IsFailure(step[s].verdict) THEN graph.failed \cup {s}
                            ELSE graph.failed
         /\ graph'.deps = graph.deps /\ graph'.failFast = graph.failFast
         /\ graph'.durable = graph.durable /\ graph'.wave = graph.wave
         /\ graph'.plain = graph.plain
<1> DEFINE pc == IF graph.now = {s} THEN "wave" ELSE graph.pc
           failed == IF IsFailure(step[s].verdict) THEN graph.failed \cup {s} ELSE graph.failed
<1>1. graph.pc = "outcomes" /\ s \in graph.now
  BY DEF RecordOutcome
<1>2. pc \in {"wave", "outcomes"} /\ failed \in SUBSET GraphSteps
  BY <1>1 DEF GraphTyping, GraphState
<1>3. graph' = [graph EXCEPT !.now = @ \ {s}, !.done = @ \cup {s}, !.pc = pc, !.failed = failed]
  BY DEF RecordOutcome
<1> HIDE DEF pc, failed
<1>4. graph' \in GraphState
  BY <1>2, <1>3 DEF GraphTyping, GraphState
<1>5. /\ graph'.now = graph.now \ {s} /\ graph'.done = graph.done \cup {s}
      /\ graph'.pc = pc /\ graph'.failed = failed
      /\ graph'.deps = graph.deps /\ graph'.failFast = graph.failFast
      /\ graph'.durable = graph.durable /\ graph'.wave = graph.wave
      /\ graph'.plain = graph.plain
  BY <1>3 DEF GraphTyping, GraphState
<1> QED BY <1>1, <1>4, <1>5 DEF pc, failed

LEMMA GraphTypingStep == GraphTyping /\ [GraphNext]_graphVars => GraphTyping'
<1> SUFFICES ASSUME GraphTyping, [GraphNext]_graphVars  PROVE GraphTyping'
  OBVIOUS
<1> USE DEF GraphTyping, GraphState, StepState
<1>1. CASE RefuseGraph         BY <1>1 DEF RefuseGraph
<1>2. CASE CreateGraph
  BY <1>2, RunnableHasReady, ZenonT(60) DEF CreateGraph
<1>3. CASE StartGraph          BY <1>3 DEF StartGraph
<1>4. CASE RecordUnscheduled   BY <1>4 DEF RecordUnscheduled
<1>5. CASE BeginGraph          BY <1>5 DEF BeginGraph
<1>6. CASE StartWave
  <2>1. graph' \in GraphState /\ graph'.wave = graph.wave + 1 /\ graph.pc = "wave"
        /\ graph'.pc = "gather" /\ graph'.creator = graph.creator
    BY <1>6, StartFields DEF StartWave
  <2>2. step' = [s \in GraphSteps |->
                   IF s \in NextWave(graph.deps, graph.done)
                   THEN [step[s] EXCEPT !.pc = "register", !.wave = graph'.wave]
                   ELSE step[s]]
    BY <1>6, <2>1 DEF StartWave
  <2>3. \A s \in GraphSteps :
          /\ step[s] \in StepState
          /\ [step[s] EXCEPT !.pc = "register", !.wave = graph'.wave] \in StepState
    BY <2>1, StepWithPair, ZenonT(60)
  <2> HIDE DEF StepState
  <2>4. step' \in [GraphSteps -> StepState]
    BY <2>2, <2>3
  <2> QED BY <2>1, <2>4
<1>7. CASE GatherWave          BY <1>7 DEF GatherWave
<1>8. CASE FinishGraph         BY <1>8 DEF FinishGraph
<1>9. CASE UpdateGraphRow      BY <1>9 DEF UpdateGraphRow
<1>10. CASE \E s \in GraphSteps : RecordOutcome(s)
  <2>1. PICK s \in GraphSteps : RecordOutcome(s)
    BY <1>10
  <2>2. graph' \in GraphState
    BY <2>1, OutcomeFields
  <2> QED BY <2>1, <2>2, ZenonT(60) DEF RecordOutcome
<1>11. CASE GraphProcessDies   BY <1>11, SMTT(30) DEF GraphProcessDies
<1>12. CASE ReconcileRefused   BY <1>12 DEF ReconcileRefused
<1>13. CASE ReconcileGraph     BY <1>13 DEF ReconcileGraph
<1>14. CASE EndPlain           BY <1>14 DEF EndPlain
<1>15. CASE \E s \in GraphSteps : StepProgress(s)
  <2>1. PICK s \in GraphSteps : StepProgress(s)
    BY <1>15
  <2>2. CASE RegisterStep(s)
    BY <2>2 DEF RegisterStep
  <2>3. CASE FailRegistration(s)
    <3>1. [step[s] EXCEPT !.pc = "ended", !.verdict = "registration_failed"] \in StepState
      BY StepWithPair
    <3> HIDE DEF StepState
    <3> QED BY <2>3, <3>1 DEF FailRegistration
  <2>4. CASE EndStep(s)
    <3>1. PICK v \in GraphVerdicts : step' = [step EXCEPT ![s].pc = "ended", ![s].verdict = v]
      BY <2>4 DEF EndStep
    <3>2. [step[s] EXCEPT !.pc = "ended", !.verdict = v] \in StepState
      BY StepWithPair
    <3>3. step' = [step EXCEPT ![s] = [step[s] EXCEPT !.pc = "ended", !.verdict = v]]
      BY <3>1
    <3> HIDE DEF StepState
    <3> QED BY <2>4, <3>2, <3>3 DEF EndStep
  <2> QED BY <2>1, <2>2, <2>3, <2>4 DEF StepProgress
<1>16. CASE \E s \in GraphSteps : LoseRegistration(s)
  BY <1>16 DEF LoseRegistration
<1>17. CASE \E s \in GraphSteps : StepRaises(s)
  <2>1. PICK s \in GraphSteps : StepRaises(s)
    BY <1>17
  <2>2. /\ graph' \in GraphState /\ graph'.creator = graph.creator
        /\ graph'.durable = graph.durable
        /\ graph.pc # "gather" => graph'.pc = graph.pc
        /\ graph.pc = "gather" => graph'.pc = "crashed"
    BY <2>1 DEF StepRaises
  <2>3. \A t \in GraphSteps : step[t] \in StepState /\ [step[t] EXCEPT !.pc = "died"] \in StepState
    OBVIOUS
  <2> HIDE DEF StepState
  <2>4. step' \in [GraphSteps -> StepState]
    BY <2>1, <2>3 DEF StepRaises
  <2> QED BY <2>2, <2>4
<1>18. CASE \E s \in GraphSteps : ReconcileStep(s)
  BY <1>18 DEF ReconcileStep
<1>19. CASE UNCHANGED graphVars
  BY <1>19 DEF graphVars
<1> QED
  BY <1>1, <1>2, <1>3, <1>4, <1>5, <1>6, <1>7, <1>8, <1>9, <1>10, <1>11, <1>12, <1>13, <1>14,
     <1>15, <1>16, <1>17, <1>18, <1>19
  DEF GraphNext, GraphProgress

LEMMA GraphTypingInvariant == GraphSpec => []GraphTyping
BY GraphTypingInit, GraphTypingStep, PTL DEF GraphSpec

\* The steps that have begun are those of the waves so far: the waves whose outcomes are
\* recorded, and the one of now.  A wave begins with what its steps depend on recorded,
\* and, if the spec asks to fail fast, with no failure.
Begun(s) == step[s].pc # "idle"
Failing(s) == step[s].pc = "ended" /\ IsFailure(step[s].verdict)

NeverStuck ==
  \A done \in SUBSET GraphSteps : done # GraphSteps => Ready(graph.deps, done) # {}
WaveOfNow ==
  /\ graph.now \cap graph.done = {}
  /\ graph.pc = "submit" => graph.done = {}
  /\ graph.pc \notin {"gather", "outcomes", "crashed", "dead"} => graph.now = {}
  /\ graph.pc = "outcomes" => \A s \in graph.now : step[s].pc = "ended"
  /\ \A s \in GraphSteps : /\ s \in graph.now => step[s].wave = graph.wave
                           /\ step[s].wave <= graph.wave
WavesSoFar ==
  \A s \in GraphSteps :
     /\ Begun(s) <=> s \in graph.done \cup graph.now
     /\ Begun(s) => graph.deps[s] \subseteq graph.done
     /\ s \in graph.done => /\ step[s].pc = "ended"
                            /\ graph.durable => <<s, step[s].verdict>> \in marks
     /\ s \in graph.failed <=> s \in graph.done /\ IsFailure(step[s].verdict)
FailsFast ==
  graph.failFast =>
     \A s, f \in GraphSteps : Begun(s) /\ Failing(f) => step[s].wave <= step[f].wave
WavesInv == NeverStuck /\ WaveOfNow /\ WavesSoFar /\ FailsFast

LEMMA WavesInvInit == GraphInit => WavesInv
<1> SUFFICES ASSUME GraphInit  PROVE WavesInv
  OBVIOUS
<1>1. /\ graph.deps = [s \in GraphSteps |-> {}] /\ graph.now = {} /\ graph.done = {}
      /\ graph.failed = {} /\ graph.pc = "submit" /\ graph.wave = 0
  BY DEF GraphInit
<1>2. \A s \in GraphSteps : step[s].pc = "idle" /\ step[s].wave = 0
  BY DEF GraphInit, NoStep
<1>3. NeverStuck
  BY <1>1 DEF NeverStuck, Ready
<1>4. WaveOfNow /\ WavesSoFar /\ FailsFast
  BY <1>1, <1>2 DEF WaveOfNow, WavesSoFar, FailsFast, Begun
<1> QED BY <1>3, <1>4 DEF WavesInv

\* Nothing but the fields of the waves that matter here stays.
SameWaves ==
  /\ graph'.deps = graph.deps /\ graph'.failFast = graph.failFast
  /\ graph'.durable = graph.durable /\ graph'.wave = graph.wave
  /\ graph'.now = graph.now /\ graph'.done = graph.done /\ graph'.failed = graph.failed

\* A step of the graph that has begun and not ended may go on.
StepsGoOn ==
  \A s \in GraphSteps :
     /\ step'[s].wave = step[s].wave
     /\ \/ step'[s].pc = step[s].pc /\ step'[s].verdict = step[s].verdict
        \/ step[s].pc \in {"register", "run"} /\ step'[s].pc # "idle"

LEMMA WavesKept ==
  ASSUME GraphTyping, GraphTyping', WavesInv, SameWaves, StepsGoOn, marks \subseteq marks',
         \/ graph'.pc = graph.pc
         \/ graph'.pc \in {"crashed", "dead"}
         \/ graph.now = {} /\ graph'.pc \notin {"submit", "outcomes"}
  PROVE  WavesInv'
<1>1. \A s \in GraphSteps :
        /\ Begun(s)' <=> Begun(s)
        /\ step[s].pc = "ended" => step'[s].pc = "ended" /\ step'[s].verdict = step[s].verdict
        /\ Failing(s)' => Failing(s) \/ (Begun(s) /\ step[s].pc # "ended")
  BY DEF StepsGoOn, Begun, Failing
<1>2. NeverStuck'
  BY DEF WavesInv, NeverStuck, SameWaves
<1>3. WaveOfNow'
  <2>1. \A s \in GraphSteps : /\ s \in graph'.now => step'[s].wave = graph'.wave
                             /\ step'[s].wave <= graph'.wave
    BY DEF WavesInv, WaveOfNow, SameWaves, StepsGoOn
  <2>2. graph'.pc = "outcomes" => \A s \in graph'.now : step'[s].pc = "ended"
    BY <1>1 DEF WavesInv, WaveOfNow, SameWaves, GraphTyping, GraphState
  <2>3. /\ graph'.now \cap graph'.done = {}
        /\ graph'.pc = "submit" => graph'.done = {}
        /\ graph'.pc \notin {"gather", "outcomes", "crashed", "dead"} => graph'.now = {}
    BY DEF WavesInv, WaveOfNow, SameWaves
  <2> QED BY <2>1, <2>2, <2>3 DEF WaveOfNow
<1>4. WavesSoFar'
  BY <1>1 DEF WavesInv, WavesSoFar, SameWaves
<1>5. FailsFast'
  <2> SUFFICES ASSUME graph'.failFast, NEW s \in GraphSteps, NEW f \in GraphSteps,
                      Begun(s)', Failing(f)'
               PROVE  step'[s].wave <= step'[f].wave
    BY DEF FailsFast
  <2>1. Begun(s) /\ graph.failFast /\ step'[s].wave = step[s].wave /\ step'[f].wave = step[f].wave
    BY <1>1 DEF SameWaves, StepsGoOn
  <2>2. CASE Failing(f)
    BY <2>1, <2>2 DEF WavesInv, FailsFast
  <2>3. CASE Begun(f) /\ step[f].pc # "ended"
    <3>1. f \in graph.now
      BY <2>3 DEF WavesInv, WavesSoFar
    <3> QED BY <2>1, <3>1 DEF WavesInv, WaveOfNow
  <2> QED BY <1>1, <2>2, <2>3
<1> QED BY <1>2, <1>3, <1>4, <1>5 DEF WavesInv

LEMMA WavesInvCreate ==
  ASSUME GraphTyping, GraphTyping', WavesInv, CreateGraph
  PROVE  WavesInv'
<1>1. PICK spec \in GraphSpecs, failFast \in BOOLEAN, durable \in BOOLEAN :
        /\ IsRunnable(spec)
        /\ graph' = [graph EXCEPT !.pc = IF durable THEN "unstarted" ELSE "begin",
                                  !.creator = IF durable THEN "start" ELSE "done",
                                  !.deps = spec.deps, !.failFast = failFast, !.durable = durable]
  BY DEF CreateGraph
<1>2. /\ graph'.deps = spec.deps /\ graph'.pc \in {"unstarted", "begin"}
      /\ graph'.wave = graph.wave /\ graph'.now = graph.now /\ graph'.done = graph.done
      /\ graph'.failed = graph.failed
  BY <1>1 DEF GraphTyping, GraphState
<1>3. UNCHANGED step /\ graph.pc = "submit"
  BY DEF CreateGraph
<1>4. graph.done = {} /\ graph.now = {} /\ \A s \in GraphSteps : ~Begun(s)
  BY <1>3 DEF WavesInv, WaveOfNow, WavesSoFar
<1>5. NeverStuck'
  BY <1>1, <1>2, RunnableHasReady DEF NeverStuck
<1>6. WaveOfNow'
  BY <1>2, <1>3, <1>4 DEF WavesInv, WaveOfNow
<1>7. WavesSoFar' /\ FailsFast'
  BY <1>2, <1>3, <1>4 DEF WavesInv, WavesSoFar, FailsFast, Begun
<1> QED BY <1>5, <1>6, <1>7 DEF WavesInv

\* A wave is made of steps that are ready; if it must fail fast, none has failed.
LEMMA WavesInvStart ==
  ASSUME GraphTyping, GraphTyping', WavesInv, StartWave
  PROVE  WavesInv'
<1> DEFINE wave == NextWave(graph.deps, graph.done)
<1>1. graph.pc = "wave" /\ graph.done \in SUBSET GraphSteps /\ graph.done # GraphSteps
      /\ graph.now = {} /\ graph.wave \in Nat
  BY DEF StartWave, GraphTyping, GraphState, WavesInv, WaveOfNow
<1>2. \A s \in wave : s \in GraphSteps /\ s \notin graph.done /\ graph.deps[s] \subseteq graph.done
  <2>1. Ready(graph.deps, graph.done) # {}
    BY <1>1 DEF WavesInv, NeverStuck
  <2> QED BY <2>1 DEF NextWave, Ready
<1>3. /\ graph'.pc = "gather" /\ graph'.now = wave /\ graph'.wave = graph.wave + 1
      /\ graph'.deps = graph.deps /\ graph'.failFast = graph.failFast
      /\ graph'.durable = graph.durable /\ graph'.done = graph.done
      /\ graph'.failed = graph.failed
  BY StartFields
<1>4. UNCHANGED marks
      /\ step' = [s \in GraphSteps |->
                    IF s \in wave
                    THEN [step[s] EXCEPT !.pc = "register", !.wave = graph.wave + 1]
                    ELSE step[s]]
  BY DEF StartWave
<1> HIDE DEF wave
<1>5. \A s \in GraphSteps :
        /\ s \in wave => step'[s].pc = "register" /\ step'[s].wave = graph.wave + 1
        /\ s \notin wave => step'[s] = step[s]
  BY <1>4, ZenonT(60) DEF GraphTyping, StepState
<1>6. NeverStuck'
  BY <1>3 DEF WavesInv, NeverStuck
<1>7. WaveOfNow'
  <2>1. \A s \in GraphSteps : step'[s].wave <= graph'.wave
    BY <1>1, <1>3, <1>5 DEF WavesInv, WaveOfNow, GraphTyping, StepState
  <2>2. \A s \in GraphSteps : s \in graph'.now => step'[s].wave = graph'.wave
    BY <1>3, <1>5
  <2>3. graph'.now \cap graph'.done = {}
    BY <1>2, <1>3
  <2> QED BY <1>3, <2>1, <2>2, <2>3 DEF WaveOfNow
<1>8. WavesSoFar'
  <2> SUFFICES ASSUME NEW s \in GraphSteps
               PROVE  /\ Begun(s)' <=> s \in graph'.done \cup graph'.now
                      /\ Begun(s)' => graph'.deps[s] \subseteq graph'.done
                      /\ s \in graph'.done =>
                            /\ step'[s].pc = "ended"
                            /\ graph'.durable => <<s, step'[s].verdict>> \in marks'
                      /\ s \in graph'.failed <=> s \in graph'.done /\ IsFailure(step'[s].verdict)
    BY DEF WavesSoFar
  <2>1. CASE s \in wave
    <3>1. s \notin graph.done /\ s \notin graph.failed /\ Begun(s)'
      BY <1>2, <1>5, <2>1 DEF WavesInv, WavesSoFar, Begun
    <3> QED BY <1>2, <1>3, <2>1, <3>1
  <2>2. CASE s \notin wave
    BY <1>1, <1>3, <1>4, <1>5, <2>2 DEF WavesInv, WavesSoFar, Begun
  <2> QED BY <2>1, <2>2
<1>9. FailsFast'
  <2> SUFFICES ASSUME graph.failFast, NEW f \in GraphSteps, Failing(f)'  PROVE FALSE
    BY <1>3 DEF FailsFast
  <2>1. graph.failed = {}
    BY DEF StartWave, Halts
  <2>2. Failing(f)
    BY <1>5 DEF Failing
  <2>3. f \in graph.done
    BY <1>1, <2>2 DEF Failing, WavesInv, WavesSoFar, Begun
  <2> QED BY <2>1, <2>2, <2>3 DEF Failing, WavesInv, WavesSoFar
<1> QED BY <1>6, <1>7, <1>8, <1>9 DEF WavesInv

LEMMA WavesInvGather ==
  ASSUME GraphTyping, WavesInv, GatherWave
  PROVE  WavesInv'
<1>1. SameWaves /\ graph'.pc = "outcomes" /\ graph.pc = "gather" /\ UNCHANGED <<step, marks>>
  BY DEF GatherWave, GraphTyping, GraphState, SameWaves
<1>2. NeverStuck' /\ WavesSoFar' /\ FailsFast'
  BY <1>1 DEF WavesInv, NeverStuck, WavesSoFar, FailsFast, SameWaves, Begun, Failing
<1>3. WaveOfNow'
  BY <1>1 DEF WavesInv, WaveOfNow, SameWaves, GatherWave
<1> QED BY <1>2, <1>3 DEF WavesInv

\* An outcome is recorded: the step leaves the wave for what is done, and a graph run by
\* Temporal has written the outcome by then.
LEMMA WavesInvOutcome ==
  ASSUME GraphTyping, GraphTyping', WavesInv, NEW s \in GraphSteps, RecordOutcome(s)
  PROVE  WavesInv'
<1>1. /\ graph.pc = "outcomes" /\ s \in graph.now
      /\ graph'.now = graph.now \ {s} /\ graph'.done = graph.done \cup {s}
      /\ graph'.pc = IF graph.now = {s} THEN "wave" ELSE "outcomes"
      /\ graph'.failed = IF IsFailure(step[s].verdict) THEN graph.failed \cup {s} ELSE graph.failed
      /\ graph'.deps = graph.deps /\ graph'.failFast = graph.failFast
      /\ graph'.durable = graph.durable /\ graph'.wave = graph.wave
  BY OutcomeFields
<1>2. UNCHANGED step /\ marks \subseteq marks'
      /\ (graph.durable => <<s, step[s].verdict>> \in marks')
  BY DEF RecordOutcome, Mark, Unmarked, MayGoUnrecorded
<1>3. step[s].pc = "ended" /\ s \notin graph.done /\ graph.deps[s] \subseteq graph.done
  BY <1>1 DEF WavesInv, WaveOfNow, WavesSoFar
<1>4. NeverStuck' /\ FailsFast'
  BY <1>1, <1>2 DEF WavesInv, NeverStuck, FailsFast, Begun, Failing
<1>5. WaveOfNow'
  BY <1>1, <1>2 DEF WavesInv, WaveOfNow
<1>6. WavesSoFar'
  <2> SUFFICES ASSUME NEW t \in GraphSteps
               PROVE  /\ Begun(t) <=> t \in graph'.done \cup graph'.now
                      /\ Begun(t) => graph.deps[t] \subseteq graph'.done
                      /\ t \in graph'.done =>
                            /\ step[t].pc = "ended"
                            /\ graph.durable => <<t, step[t].verdict>> \in marks'
                      /\ t \in graph'.failed <=> t \in graph'.done /\ IsFailure(step[t].verdict)
    BY <1>1, <1>2 DEF WavesSoFar, Begun
  <2>1. CASE t = s
    BY <1>1, <1>2, <1>3, <2>1 DEF WavesInv, WavesSoFar
  <2>2. CASE t # s
    BY <1>1, <1>2, <2>2 DEF WavesInv, WavesSoFar
  <2> QED BY <2>1, <2>2
<1> QED BY <1>4, <1>5, <1>6 DEF WavesInv

LEMMA WavesInvStep == GraphTyping /\ WavesInv /\ [GraphNext]_graphVars => WavesInv'
<1> SUFFICES ASSUME GraphTyping, WavesInv, [GraphNext]_graphVars, GraphTyping'  PROVE WavesInv'
  BY GraphTypingStep
<1>1. UNCHANGED step => StepsGoOn
  BY DEF StepsGoOn
<1>2. UNCHANGED marks => marks \subseteq marks'
  OBVIOUS
<1>3. \A s, verdict : Mark(s, verdict) \/ Unmarked => marks \subseteq marks'
  BY DEF Mark, Unmarked
<1>4. graph.pc \in {"wave", "row", "begin", "unstarted"} => graph.now = {}
  BY DEF WavesInv, WaveOfNow
<1>5. CASE RefuseGraph
  <2>1. SameWaves /\ graph'.pc = "refused" /\ graph.pc = "submit" /\ UNCHANGED <<step, marks>>
    BY <1>5 DEF RefuseGraph, SameWaves, GraphTyping, GraphState
  <2>2. graph.now = {}
    BY <2>1 DEF WavesInv, WaveOfNow
  <2> QED BY <1>1, <2>1, <2>2, WavesKept
<1>6. CASE CreateGraph
  BY <1>6, WavesInvCreate
<1>7. CASE StartGraph
  <2>1. SameWaves /\ graph'.pc \in {graph.pc, "begin"} /\ UNCHANGED <<step, marks>>
        /\ graph.pc = "unstarted"
    BY <1>7, ZenonT(60) DEF StartGraph, SameWaves, GraphTyping, GraphState
  <2> QED BY <1>1, <1>4, <2>1, WavesKept
<1>8. CASE RecordUnscheduled
  BY <1>1, <1>8, WavesKept DEF RecordUnscheduled, SameWaves, GraphTyping, GraphState
<1>9. CASE BeginGraph
  <2>1. SameWaves /\ graph'.pc = "wave" /\ graph.pc = "begin" /\ UNCHANGED step
    BY <1>9 DEF BeginGraph, SameWaves, GraphTyping, GraphState
  <2>2. marks \subseteq marks'
    BY <1>3, <1>9 DEF BeginGraph
  <2> QED BY <1>1, <1>4, <2>1, <2>2, WavesKept
<1>10. CASE StartWave
  BY <1>10, WavesInvStart
<1>11. CASE GatherWave
  BY <1>11, WavesInvGather
<1>12. CASE FinishGraph
  <2>1. SameWaves /\ graph'.pc \in {"row", "closed"} /\ graph.pc = "wave" /\ UNCHANGED step
    BY <1>12 DEF FinishGraph, SameWaves, GraphTyping, GraphState
  <2>2. marks \subseteq marks'
    BY <1>3, <1>12 DEF FinishGraph
  <2> QED BY <1>1, <1>4, <2>1, <2>2, WavesKept
<1>13. CASE UpdateGraphRow
  <2>1. SameWaves /\ graph'.pc = "closed" /\ graph.pc = "row" /\ UNCHANGED <<step, marks>>
    BY <1>13 DEF UpdateGraphRow, SameWaves, GraphTyping, GraphState
  <2> QED BY <1>1, <1>4, <2>1, WavesKept
<1>14. CASE \E s \in GraphSteps : RecordOutcome(s)
  BY <1>14, WavesInvOutcome
<1>15. CASE GraphProcessDies
  <2>1. SameWaves /\ graph'.pc = "dead" /\ UNCHANGED marks
    BY <1>15 DEF GraphProcessDies, SameWaves, GraphTyping, GraphState
  <2>2. StepsGoOn
    BY <1>15 DEF GraphProcessDies, StepsGoOn, GraphTyping, StepState
  <2> QED BY <2>1, <2>2, WavesKept
<1>16. CASE ReconcileRefused
  BY <1>1, <1>16, WavesKept DEF ReconcileRefused, SameWaves
<1>17. CASE ReconcileGraph
  BY <1>1, <1>17, WavesKept DEF ReconcileGraph, SameWaves, GraphTyping, GraphState
<1>18. CASE EndPlain
  BY <1>1, <1>18, WavesKept DEF EndPlain, SameWaves, GraphTyping, GraphState
<1>19. CASE \E s \in GraphSteps : StepProgress(s)
  <2>1. PICK s \in GraphSteps : StepProgress(s)
    BY <1>19
  <2>2. UNCHANGED <<graph, marks>>
    BY <2>1 DEF StepProgress, RegisterStep, FailRegistration, EndStep
  <2>3. /\ step[s].pc \in {"register", "run"} /\ step'[s].pc \in {"run", "ended"}
        /\ step'[s].wave = step[s].wave
        /\ \A t \in GraphSteps : t # s => step'[t] = step[t]
    BY <2>1 DEF StepProgress, RegisterStep, FailRegistration, EndStep, GraphTyping, StepState
  <2>4. StepsGoOn
    BY <2>3 DEF StepsGoOn
  <2> QED BY <2>2, <2>4, WavesKept DEF SameWaves
<1>20. CASE \E s \in GraphSteps : LoseRegistration(s) \/ ReconcileStep(s)
  <2>1. UNCHANGED <<graph, marks>>
    BY <1>20 DEF LoseRegistration, ReconcileStep
  <2>2. StepsGoOn
    BY <1>20 DEF StepsGoOn, LoseRegistration, ReconcileStep, GraphTyping, StepState
  <2> QED BY <2>1, <2>2, WavesKept DEF SameWaves
<1>21. CASE \E s \in GraphSteps : StepRaises(s)
  <2>1. SameWaves /\ graph'.pc \in {graph.pc, "crashed"} /\ UNCHANGED marks
    BY <1>21 DEF StepRaises, SameWaves, GraphTyping, GraphState
  <2>2. StepsGoOn
    BY <1>21 DEF StepRaises, StepsGoOn, GraphTyping, StepState
  <2> QED BY <2>1, <2>2, WavesKept
<1>22. CASE UNCHANGED graphVars
  BY <1>1, <1>22, WavesKept DEF graphVars, SameWaves
<1> QED
  BY <1>5, <1>6, <1>7, <1>8, <1>9, <1>10, <1>11, <1>12, <1>13, <1>14, <1>15, <1>16, <1>17,
     <1>18, <1>19, <1>20, <1>21, <1>22
  DEF GraphNext, GraphProgress

LEMMA WavesInvariant == GraphSpec => []WavesInv
BY GraphTypingInvariant, WavesInvInit, WavesInvStep, PTL DEF GraphSpec

-----------------------------------------------------------------------------
(* The verdict of a graph *)

\* What the workflow concludes of its steps.  It writes the bookend once, after the last
\* wave, and then the row, which has no verdict before; a run of the graph as a plain task
\* does not begin while the workflow works.
Final == IF graph.failed # {} THEN "failed" ELSE "completed"
Concluded == graph.done = GraphSteps \/ graph.failed # {}
VerdictInv ==
  /\ <<Bookend, "completed">> \in marks => graph.pc \in {"row", "closed", "dead"}
  /\ graph.pc = "row" => Concluded /\ graphStatus \in {Final, "schedule_failed"}
  /\ graph.plain = "none" \/ (graph.creator = "done" /\ ~GraphWorks)
  /\ graph.plain = "none" =>
        /\ graph.pc \notin {"closed", "dead"} => graphRow \notin {"completed", "failed"}
        /\ graph.pc = "closed" /\ graphRow \in {"completed", "failed"} =>
              graphRow = Final /\ graphStatus \in {Final, "schedule_failed"} /\ Concluded

LEMMA VerdictInvInit == GraphInit => VerdictInv
BY DEF GraphInit, VerdictInv

\* The steps after which there is no verdict yet, and those that leave it alone.
LEMMA VerdictUnreached ==
  ASSUME VerdictInv, graph'.pc \notin {"row", "closed", "dead"},
         graph.pc \notin {"row", "closed", "dead"},
         graph'.plain = graph.plain,
         graph.plain = "none" \/ (graph'.creator = "done" /\ ~GraphWorks'),
         <<Bookend, "completed">> \in marks' => <<Bookend, "completed">> \in marks,
         graphRow' \in {graphRow, "pending", "schedule_failed"}
  PROVE  VerdictInv'
BY DEF VerdictInv

LEMMA VerdictKept ==
  ASSUME VerdictInv, graph'.done = graph.done, graph'.failed = graph.failed,
         graph'.plain = graph.plain, UNCHANGED marks,
         graph'.pc = graph.pc \/ graph'.pc = "dead",
         graph'.creator = graph.creator \/ graph'.creator = "done",
         graphRow' \in {graphRow, "schedule_failed"},
         graphStatus' \in {graphStatus, "schedule_failed"}
  PROVE  VerdictInv'
<1>1. Final' = Final /\ Concluded' = Concluded
  BY DEF Final, Concluded
<1>2. graph.plain = "none" \/ (graph'.creator = "done" /\ ~GraphWorks')
  BY DEF VerdictInv, GraphWorks
<1> QED BY <1>1, <1>2 DEF VerdictInv

LEMMA VerdictInvFinish ==
  ASSUME GraphTyping, VerdictInv, FinishGraph
  PROVE  VerdictInv'
<1>1. /\ graph.pc = "wave" /\ graph'.pc = IF <<Bookend, "completed">> \in marks'
                                          THEN "row" ELSE "closed"
      /\ graph'.done = graph.done /\ graph'.failed = graph.failed
      /\ graph'.plain = graph.plain /\ UNCHANGED graphRow
  BY DEF FinishGraph, GraphTyping, GraphState
<1>2. graph.plain = "none" /\ <<Bookend, "completed">> \notin marks
      /\ graphRow \notin {"completed", "failed"}
  BY <1>1 DEF VerdictInv, GraphWorks
<1>3. Concluded /\ Concluded' = Concluded /\ Final' = Final
  BY <1>1 DEF FinishGraph, Concluded, Halts, Final
<1>4. <<Bookend, "completed">> \in marks' => graphStatus' = Final
  BY <1>2 DEF FinishGraph, Mark, Unmarked, Final
<1> QED BY <1>1, <1>2, <1>3, <1>4 DEF VerdictInv

LEMMA VerdictInvRow ==
  ASSUME GraphTyping, VerdictInv, UpdateGraphRow
  PROVE  VerdictInv'
<1>1. /\ graph.pc = "row" /\ graph'.pc = "closed"
      /\ graph'.done = graph.done /\ graph'.failed = graph.failed
      /\ graph'.plain = graph.plain /\ UNCHANGED <<marks, graphStatus>>
      /\ graphRow' \in {graphRow, Final}
  BY DEF UpdateGraphRow, GraphTyping, GraphState, Final
<1>2. graph.plain = "none" /\ graphRow \notin {"completed", "failed"}
  BY <1>1 DEF VerdictInv, GraphWorks
<1>3. Concluded' = Concluded /\ Final' = Final
  BY <1>1 DEF Concluded, Final
<1> QED BY <1>1, <1>2, <1>3 DEF VerdictInv

LEMMA VerdictInvStep == GraphTyping /\ VerdictInv /\ [GraphNext]_graphVars => VerdictInv'
<1> SUFFICES ASSUME GraphTyping, VerdictInv, [GraphNext]_graphVars  PROVE VerdictInv'
  OBVIOUS
<1> USE DEF GraphTyping, GraphState
<1>1. GraphWorks => graph.plain = "none"
  BY DEF VerdictInv
<1>2. CASE RefuseGraph
  BY <1>2, VerdictUnreached DEF RefuseGraph, GraphWorks, VerdictInv
<1>3. CASE CreateGraph
  <2>1. /\ graph.pc = "submit" /\ graph'.pc \in {"unstarted", "begin"}
        /\ graph'.plain = graph.plain /\ UNCHANGED marks /\ graphRow' = "pending"
    BY <1>3 DEF CreateGraph
  <2>2. graph.plain = "none"
    BY <2>1 DEF VerdictInv
  <2> QED BY <2>1, <2>2, VerdictUnreached
<1>4. CASE StartGraph
  <2>1. /\ graph.pc = "unstarted" /\ graph'.pc \in {"unstarted", "begin"}
        /\ graph'.plain = graph.plain /\ UNCHANGED <<marks, graphRow>> /\ graph.plain = "none"
    BY <1>4 DEF StartGraph, VerdictInv
  <2> QED BY <2>1, VerdictUnreached
<1>5. CASE RecordUnscheduled
  BY <1>5, VerdictKept DEF RecordUnscheduled
<1>6. CASE BeginGraph
  <2>1. /\ graph.pc = "begin" /\ graph'.pc = "wave" /\ graph'.plain = graph.plain
        /\ UNCHANGED graphRow /\ graph.plain = "none"
    BY <1>1, <1>6 DEF BeginGraph, GraphWorks
  <2>2. <<Bookend, "completed">> \in marks' => <<Bookend, "completed">> \in marks
    BY <1>6 DEF BeginGraph, Mark, Unmarked
  <2> QED BY <2>1, <2>2, VerdictUnreached
<1>7. CASE StartWave
  <2>1. /\ graph.pc = "wave" /\ graph'.pc = "gather" /\ graph'.plain = graph.plain
        /\ UNCHANGED <<marks, graphRow>> /\ graph.plain = "none"
    BY <1>1, <1>7, StartFields DEF StartWave, GraphWorks
  <2> QED BY <2>1, VerdictUnreached
<1>8. CASE GatherWave
  BY <1>1, <1>8, VerdictUnreached DEF GatherWave, GraphWorks
<1>9. CASE FinishGraph
  BY <1>9, VerdictInvFinish
<1>10. CASE UpdateGraphRow
  BY <1>10, VerdictInvRow
<1>11. CASE \E s \in GraphSteps : RecordOutcome(s)
  <2>1. PICK s \in GraphSteps : RecordOutcome(s)
    BY <1>11
  <2>2. /\ graph.pc = "outcomes" /\ graph'.pc \in {"wave", "outcomes"}
        /\ graph'.plain = graph.plain
    BY <2>1, OutcomeFields
  <2>3. UNCHANGED graphRow /\ graph.plain = "none"
    BY <1>1, <2>1, <2>2 DEF RecordOutcome, GraphWorks
  <2>4. s # Bookend
    BY GraphAssumption DEF Bookend
  <2>5. <<Bookend, "completed">> \in marks' => <<Bookend, "completed">> \in marks
    BY <2>1, <2>4 DEF RecordOutcome, Mark, Unmarked
  <2> QED BY <2>2, <2>3, <2>5, VerdictUnreached
<1>12. CASE GraphProcessDies
  BY <1>12, VerdictKept DEF GraphProcessDies
<1>13. CASE ReconcileRefused
  BY <1>13, VerdictKept DEF ReconcileRefused
<1>14. CASE ReconcileGraph
  BY <1>14 DEF ReconcileGraph, VerdictInv, GraphWorks, Final, Concluded
<1>15. CASE EndPlain
  BY <1>15 DEF EndPlain, VerdictInv, GraphWorks, Final, Concluded
<1>16. CASE \E s \in GraphSteps : StepProgress(s) \/ LoseRegistration(s) \/ ReconcileStep(s)
  BY <1>16, VerdictKept
  DEF StepProgress, RegisterStep, FailRegistration, EndStep, LoseRegistration, ReconcileStep
<1>17. CASE \E s \in GraphSteps : StepRaises(s)
  <2>1. PICK s \in GraphSteps : StepRaises(s)
    BY <1>17
  <2>2. UNCHANGED <<marks, graphStatus, graphRow>>
    BY <2>1 DEF StepRaises
  <2>3. CASE graph.pc = "gather"
    <3>1. graph'.pc = "crashed" /\ graph'.plain = graph.plain /\ graph.plain = "none"
      BY <1>1, <2>1, <2>3 DEF StepRaises, GraphWorks
    <3> QED BY <2>2, <2>3, <3>1, VerdictUnreached
  <2>4. CASE graph.pc # "gather"
    BY <2>1, <2>2, <2>4, VerdictKept DEF StepRaises
  <2> QED BY <2>3, <2>4
<1>18. CASE UNCHANGED graphVars
  BY <1>18, VerdictKept DEF graphVars
<1> QED
  BY <1>2, <1>3, <1>4, <1>5, <1>6, <1>7, <1>8, <1>9, <1>10, <1>11, <1>12, <1>13, <1>14, <1>15,
     <1>16, <1>17, <1>18
  DEF GraphNext, GraphProgress

LEMMA VerdictInvariant == GraphSpec => []VerdictInv
BY GraphTypingInvariant, VerdictInvInit, VerdictInvStep, PTL DEF GraphSpec

\* A step begins when everything it depends on has ended and, in a graph that Temporal runs,
\* is recorded; and nothing of a later wave begins after a failure if the spec fails fast.
LEMMA WavesOrder == GraphTyping /\ WavesInv => GraphOrder
<1> SUFFICES ASSUME GraphTyping, WavesInv  PROVE GraphOrder
  OBVIOUS
<1>1. ASSUME NEW s \in GraphSteps, Begun(s), NEW d \in graph.deps[s], graph.deps[s] \subseteq GraphSteps
      PROVE  /\ step[d].pc = "ended"
             /\ graph.durable => <<d, step[d].verdict>> \in marks
  BY <1>1 DEF WavesInv, WavesSoFar
<1>2. ASSUME graph.failFast, NEW s \in GraphSteps, Begun(s), NEW f \in GraphSteps, Failing(f)
      PROVE  step[s].wave <= step[f].wave
  BY <1>2 DEF WavesInv, FailsFast
<1>3. \A s \in GraphSteps : graph.deps[s] \subseteq GraphSteps
  BY DEF GraphTyping, GraphState
<1> QED BY <1>1, <1>2, <1>3 DEF Begun, Failing, GraphOrder

\* The row that the workflow leaves is true of the steps.
LEMMA VerdictsHonest == GraphTyping /\ WavesInv /\ VerdictInv => GraphVerdictHonest
<1> SUFFICES ASSUME GraphTyping, WavesInv, VerdictInv, graph.plain = "none", graph.pc = "closed",
                    graphRow \in {"completed", "failed"}
             PROVE  GraphVerdictHonest
  BY DEF GraphVerdictHonest
<1>1. graphRow = Final /\ graphStatus \in {Final, "schedule_failed"} /\ Concluded
  BY DEF VerdictInv
<1>2. CASE graphRow = "completed"
  <2>1. graph.done = GraphSteps /\ graph.failed = {}
    BY <1>1, <1>2 DEF Final, Concluded
  <2>2. \A s \in GraphSteps :
          /\ step[s].pc = "ended" /\ ~IsFailure(step[s].verdict)
          /\ graph.durable => <<s, step[s].verdict>> \in marks
    BY <2>1 DEF WavesInv, WavesSoFar
  <2> QED BY <1>1, <1>2, <2>2 DEF GraphVerdictHonest, IsFailure
<1>3. CASE graphRow = "failed"
  <2>1. graph.failed # {} /\ graph.failed \subseteq GraphSteps
    BY <1>1, <1>3 DEF Final, GraphTyping, GraphState
  <2>2. \E s \in GraphSteps : IsFailure(step[s].verdict)
    BY <2>1 DEF WavesInv, WavesSoFar
  <2> QED BY <1>1, <1>3, <2>2 DEF GraphVerdictHonest, IsFailure
<1> QED BY <1>2, <1>3

\* For every graph that is accepted, run by Temporal or in process, restarted or not: a step
\* begins when what it depends on has ended and been recorded, fail-fast graphs begin nothing
\* after a failure, and the row of a graph is true of its steps.
THEOREM GraphsAreSound == GraphSpec => []GraphIsSound
<1>1. GraphTyping /\ WavesInv /\ VerdictInv => GraphIsSound
  BY WavesOrder, VerdictsHonest DEF GraphIsSound
<1> QED BY <1>1, GraphTypingInvariant, WavesInvariant, VerdictInvariant, PTL
=============================================================================
