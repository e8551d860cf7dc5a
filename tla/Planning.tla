------------------------------- MODULE Planning -------------------------------
(***************************************************************************)
(* Which models a request is tried with, and in which order: the registry  *)
(* (gateway/registry.py), filled from the configured chain and the catalog *)
(* and by each ModelRouter, and the filters and ranks of RouterEngine.plan *)
(* (gateway/routing.py).  Circuits, keys and quota, which change while a   *)
(* plan is made, are in Gateway: here they are whatever they are.  A       *)
(* behaviour follows one request: a plan leaves the registry as it is.     *)
(***************************************************************************)
EXTENDS Integers, Sequences, FiniteSets, SequencesExt

CONSTANTS ModelIds,    \* what a chain or a request may name
          Catalog,     \* the curated models in their order, a sequence
          FreeTier,    \* those of the free and the local tier
          LocalIds,    \* models an Ollama serves
          TablePrice,  \* of each id: its price, NoPrice if nothing tells it
          LatencyOf,   \* of each id: its average latency as the circuits know it
          CanTool,     \* those that support what a request may need
          Ceilings,    \* what a request may set as the most it pays
          ChainLength  \* length of the longest chain

NoPrice == -1

\* A chain of more than a hundred links would run into the priorities of the catalog.
ASSUME PlanningAssumption ==
  /\ IsFiniteSet(ModelIds) /\ "none" \notin ModelIds
  /\ FreeTier \subseteq ModelIds /\ LocalIds \subseteq ModelIds /\ CanTool \subseteq ModelIds
  /\ Catalog \in Seq(ModelIds)
  /\ \A i, j \in DOMAIN Catalog : Catalog[i] = Catalog[j] => i = j
  /\ \A id \in ModelIds : TablePrice[id] \in Nat \cup {NoPrice} /\ LatencyOf[id] \in Nat \cup {NoPrice}
  /\ Ceilings \subseteq Nat /\ ChainLength \in Nat \ {0} /\ ChainLength <= 100

VARIABLES
  chain,    \* settings.model and settings.model_fallbacks
  registry, \* of each registered id: [priority |-> ., born |-> .]
  asked,    \* the request, and what the soft filters excluded
  planned   \* the ranked candidates, or <<>>

planningVars == <<chain, registry, asked, planned>>

NobodyAsks ==
  [model |-> "none", tools |-> FALSE, free |-> FALSE, most |-> NoPrice, policy |-> "none", out |-> {}]

Places(s, id) == {i \in DOMAIN s : s[i] = id}
FirstPlace(S) == CHOOSE i \in S : \A j \in S : i <= j
LastPlace(S) == CHOOSE i \in S : \A j \in S : j <= i

\* ModelRegistry.default: the chain, a repeated id at its last priority, then the catalog.
DefaultRegistry(links) ==
  LET Chained == {links[i] : i \in DOMAIN links}
      Curated == {Catalog[i] : i \in DOMAIN Catalog}
  IN [id \in Chained \cup Curated |->
        IF id \in Chained
        THEN [priority |-> LastPlace(Places(links, id)) - 1, born |-> FirstPlace(Places(links, id))]
        ELSE [priority |-> 99 + FirstPlace(Places(Catalog, id)),
              born |-> Len(links) + FirstPlace(Places(Catalog, id))]]

\* _build_model: an id outside the catalog is not free, whatever its name says.
IsFree(id) == id \in FreeTier /\ Places(Catalog, id) # {}
PriceOf(id) == IF IsFree(id) THEN 0 ELSE TablePrice[id]

PlanningInit ==
  /\ chain \in UNION {[1 .. n -> ModelIds] : n \in 1 .. ChainLength}
  /\ registry = DefaultRegistry(chain)
  /\ asked = NobodyAsks /\ planned = <<>>

\* ensure: a ModelRouter makes its model routable; the fallbacks are there already.
EnsureModel(id) ==
  /\ id \notin DOMAIN registry
  /\ registry' = [m \in DOMAIN registry \cup {id} |->
       IF m = id THEN [priority |-> 0, born |-> Cardinality(DOMAIN registry) + Len(chain) + 1]
       ELSE registry[m]]
  /\ UNCHANGED <<chain, asked, planned>>

-----------------------------------------------------------------------------
\* The hard requirements; a price nobody knows exceeds no ceiling.
SatisfiesHard(id, r) ==
  /\ r.tools => id \in CanTool
  /\ r.free \/ r.policy = "free_only" => IsFree(id)
  /\ r.most # NoPrice /\ PriceOf(id) # NoPrice => PriceOf(id) <= r.most

\* registry.filter.
Matching(r) == {id \in DOMAIN registry : SatisfiesHard(id, r)}

\* The key of a policy; a price that is not known, and a latency, come last: float("inf").
Known(n) == IF n = NoPrice THEN <<1, 0>> ELSE <<0, n>>
PolicyKey(policy, id) ==
  CASE policy = "cost" -> Known(PriceOf(id))
    [] policy = "latency" -> Known(LatencyOf[id])
    [] policy = "local_first" -> <<0, IF id \in LocalIds THEN 0 ELSE IF IsFree(id) THEN 1 ELSE 2>>
    [] OTHER -> <<0, 0>>

\* _rank: sorts are stable, and the registry is sorted by priority.
RanksBefore(policy, a, b) ==
  LET Key(id) == PolicyKey(policy, id) \o <<registry[id].priority, registry[id].born>>
      First(x, y, n) == x[n] < y[n] /\ \A k \in 1 .. n - 1 : x[k] = y[k]
  IN \E n \in 1 .. 4 : First(Key(a), Key(b), n)
Rank(S, policy) ==
  [n \in 1 .. Cardinality(S) |->
     CHOOSE m \in S : Cardinality({o \in S : RanksBefore(policy, o, m)}) = n - 1]

\* Mutant: the requested model is put in front and left where it was.
RepeatRequested(ranked, id) == <<id>> \o ranked

\* The model that is asked for goes first, if nothing excluded it: remove, insert(0, .).
PutFirst(ranked, id) == <<id>> \o RemoveAt(ranked, FirstPlace(Places(ranked, id)))

PlanRequest(r) ==
  /\ r.model = "none" \/ (r.model \in DOMAIN registry /\ SatisfiesHard(r.model, r))
  /\ r.out \subseteq Matching(r)
  /\ LET ranked == Rank(Matching(r) \ r.out, r.policy)
     IN planned' = IF r.model # "none" /\ r.model \notin r.out THEN PutFirst(ranked, r.model) ELSE ranked
  /\ asked' = r /\ UNCHANGED <<chain, registry>>

\* InvalidRequestError: an unknown model, or one that cannot serve the request.
RefuseRequest(r) ==
  /\ r.model # "none" /\ ~(r.model \in DOMAIN registry /\ SatisfiesHard(r.model, r))
  /\ planned' = <<>> /\ asked' = [r EXCEPT !.out = ModelIds] /\ UNCHANGED <<chain, registry>>

PlanningRequests ==
  [model : ModelIds \cup {"none"}, tools : BOOLEAN, free : BOOLEAN, most : Ceilings \cup {NoPrice},
   policy : {"priority", "cost", "latency", "free_only", "local_first"}, out : SUBSET ModelIds]

PlanningNext ==
  /\ asked = NobodyAsks
  /\ \/ \E id \in ModelIds : EnsureModel(id)
     \/ \E r \in PlanningRequests : PlanRequest(r) \/ RefuseRequest(r)

PlanningSpec == PlanningInit /\ [][PlanningNext]_planningVars

-----------------------------------------------------------------------------
Rest == IF asked.model \in ModelIds /\ planned # <<>> /\ planned[1] = asked.model
        THEN Tail(planned) ELSE planned

\* A plan names each eligible model once, serves the model asked for first, spends
\* nothing under free_only and never more than the ceiling that a price is known to
\* break, and under "cost" tries no model before one known to be cheaper.
PlanKeepsPromises ==
  asked # NobodyAsks /\ asked.out # ModelIds =>
    /\ {planned[i] : i \in DOMAIN planned} = Matching(asked) \ asked.out
    /\ Len(planned) = Cardinality(Matching(asked) \ asked.out)
    /\ asked.model \in Matching(asked) \ asked.out => planned[1] = asked.model
    /\ asked.free \/ asked.policy = "free_only" => \A i \in DOMAIN planned : PriceOf(planned[i]) = 0
    /\ asked.policy = "cost" =>
         \A i, j \in DOMAIN Rest :
           i < j /\ PriceOf(Rest[j]) # NoPrice => PriceOf(Rest[i]) \in 0 .. PriceOf(Rest[j])

\* bucker/models.py:22-24 "the ROUTER never silently reorders the chain": under the priority
\* policy the chain comes in its order, and before every model it does not name.
ChainIsKept ==
  asked.policy = "priority" =>
    \A i, j \in DOMAIN Rest :
      i < j /\ Places(chain, Rest[j]) # {} =>
        /\ Places(chain, Rest[i]) # {} \/ registry[Rest[i]].priority = 0
        /\ Places(chain, Rest[i]) # {} =>
             LastPlace(Places(chain, Rest[i])) < LastPlace(Places(chain, Rest[j]))

\* gateway/routing.py: plan keeps what was asked for and the order that was configured.
PlansAreRight == PlanKeepsPromises /\ ChainIsKept
===============================================================================
