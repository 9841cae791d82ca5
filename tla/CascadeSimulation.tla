-------------------------- MODULE CascadeSimulation ---------------------------
(***************************************************************************)
(* The cascading impact index of an asset (src/cii_calculator.py): a number *)
(* of random propagations over the dependency graph, each with an impact,   *)
(* and the median of the impacts.  A draw is a choice among the outcomes    *)
(* its probability leaves open.                                             *)
(***************************************************************************)
EXTENDS DependencyGraph, Functions, FiniteSetsExt

CONSTANTS
    MaxHops,            \* cii.bfs_max_hops
    Iterations,         \* cii.mc_iterations
    CiiMax,             \* cii.cii_max_value, in parts of Unit
    BreachChance,       \* deception.tripwire_gateway_breach_prob
    BreachCriticality   \* deception.tripwire_zone_breach_criticality

ASSUME CascadeAssumption ==
    /\ MaxHops \in Nat \ {0} /\ Iterations \in Nat \ {0} /\ CiiMax \in Nat
    /\ BreachChance \in Chances /\ BreachCriticality \in 0 .. Unit

VARIABLES
    phase,          \* "idle", "search", "backup" or "done"
    origin,         \* the asset asked about
    edges,          \* DG, with what was spliced in for this call
    mass,           \* graph_criticality_mass
    hops,           \* compromised: node -> hop
    queue,
    providers,      \* provider_outcomes
    unscanned,      \* nodes the second pass has still to look at
    fired,          \* history: the edges whose draw came true
    redundant,      \* history: the nodes that fell in the second pass
    impacts         \* cii_scores, as sums of criticality; empty: no result

searchVars == <<edges, hops, queue, providers, unscanned, fired, redundant>>
cascadeVars == <<phase, origin, mass, searchVars, impacts>>

CascadeInit ==
    /\ phase = "idle" /\ origin = "none" /\ edges = {} /\ mass = 0
    /\ hops = <<>> /\ queue = <<>>
    /\ providers = <<>> /\ unscanned = <<>> /\ fired = {} /\ redundant = {} /\ impacts = <<>>

-----------------------------------------------------------------------------
(* compute_cascading_impact_full() *)

\* A gateway zone that no edge leads to yet is given relays to what it guards.
Spliced(asset) ==
    IF asset \notin NodesOf(BuildGraph) /\ IsGatewayName(asset)
    THEN BuildGraph \cup {Relay(asset, a, BreachChance) : a \in GatewayTargets(asset)}
    ELSE BuildGraph

\* _criticality_of(), of the nodes other than the origin: a gateway weighs next to nothing
\* whatever the map says.
CriticalityOf(n) ==
    IF n \in GatewayNodes THEN GatewayCriticality
    ELSE IF n \in DOMAIN SeededCriticality THEN SeededCriticality[n] ELSE DefaultCriticality

SumOfCriticality(nodes) == FoldSet(LAMBDA n, sum : CriticalityOf(n) + sum, 0, nodes)

StartIteration(asset) ==
    /\ phase' = "search"
    /\ hops' = [n \in {asset} |-> 0]
    /\ queue' = <<asset>>
    /\ providers' = <<>>
    /\ fired' = {} /\ redundant' = {} /\ unscanned' = <<>>

\* A gateway that guards nothing has a fixed impact, an unknown name none at all.
Ask(asset) ==
    /\ phase \in {"idle", "done"}
    /\ origin' = asset
    /\ edges' = Spliced(asset)
    /\ mass' = SumOfCriticality(NodesOf(edges') \ {asset})
    /\ IF asset \in NodesOf(edges')
       THEN StartIteration(asset) /\ impacts' = <<>>
       ELSE /\ phase' = "done"
            /\ hops' = <<>> /\ queue' = <<>> /\ providers' = <<>>
            /\ fired' = {} /\ redundant' = {} /\ unscanned' = <<>>
            /\ impacts' = IF IsGatewayName(asset) THEN <<BreachCriticality>> ELSE <<>>

-----------------------------------------------------------------------------
(* _simulate_one_iteration() *)

Allowed(chance, outcome) ==
    (chance = "never" => ~outcome) /\ (chance = "always" => outcome)

IsShared(e) == e.type = "shares_provider" /\ e.provider # NoProvider

\* The edges a popped node tries: backed_up_by waits for the second pass.
Tried(n) == {e \in edges : e.src = n /\ e.tgt \notin DOMAIN hops /\ e.type # "backed_up_by"}

\* Mutant: the draw is not kept for the next edge.
Draws_Independent(tried, open) == \A e \in tried : Allowed(e.chance, e \in open)

\* Which of them fire: one draw per edge, but one per provider and iteration, for the edges
\* that share it, made with the probability of the first.
Draws(tried, open) ==
    /\ \A e \in tried : ~IsShared(e) => Allowed(e.chance, e \in open)
    /\ \A e \in {e \in tried : IsShared(e)} :
           /\ e.provider \in DOMAIN providers => (e \in open <=> providers[e.provider])
           /\ e.provider \notin DOMAIN providers =>
                  LET sharing == {d \in tried : IsShared(d) /\ d.provider = e.provider}
                  IN /\ sharing \subseteq open \/ sharing \cap open = {}
                     /\ \E d \in sharing : Allowed(d.chance, d \in open)

Visit ==
    /\ phase = "search" /\ queue # <<>>
    /\ LET n == Head(queue)
           tried == IF hops[n] >= MaxHops THEN {} ELSE Tried(n)
       IN \E open \in SUBSET tried :
              LET reached == {e.tgt : e \in open}
                  drawn == {e.provider : e \in {e \in tried : IsShared(e)}}
              IN /\ Draws(tried, open)
                 /\ hops' = [m \in DOMAIN hops \cup reached |->
                                  IF m \in reached THEN hops[n] + 1 ELSE hops[m]]
                 /\ queue' = Tail(queue) \o SetToSeq(reached)
                 /\ providers' = [p \in DOMAIN providers \cup drawn |->
                                       IF p \in DOMAIN providers THEN providers[p]
                                       ELSE \E e \in open : IsShared(e) /\ e.provider = p]
                 /\ fired' = fired \cup open
    /\ UNCHANGED <<phase, origin, edges, mass, unscanned, redundant, impacts>>

\* The search is over: the second pass looks at every node.
SearchOver ==
    /\ phase = "search" /\ queue = <<>>
    /\ phase' = "backup"
    /\ unscanned' = NodeOrder \o SetToSeq(NodesOf(edges) \ NodesOf(BuildGraph))
    /\ UNCHANGED <<origin, edges, mass, hops, queue, providers, fired, redundant, impacts>>

Backups(n) ==
    {e \in edges : e.tgt = n /\ e.type = "backed_up_by" /\ e.src \in DOMAIN hops}

\* Mutant: one failed path is enough.
Falls_Any(backups, open) == open # {}

\* Does a node fall, given its backup paths from fallen nodes and those of them that failed.
Falls(backups, open) == backups # {} /\ backups \subseteq open

\* One node of the second pass, in the graph's order: a node that falls counts for the nodes
\* after it.
ScanBackups ==
    /\ phase = "backup"
    /\ unscanned # <<>>
    /\ unscanned' = Tail(unscanned)
    /\ LET n == Head(unscanned)
       IN  IF n \in DOMAIN hops
              THEN UNCHANGED <<hops, fired, redundant>>
              ELSE \E open \in SUBSET Backups(n) :
                  /\ \A e \in Backups(n) : Allowed(e.chance, e \in open)
                  /\ fired' = fired \cup open
                  /\ IF Falls(Backups(n), open)
                     THEN /\ hops' = [m \in DOMAIN hops \cup {n} |->
                                      IF m = n THEN Min({hops[e.src] : e \in Backups(n)}) + 1
                                      ELSE hops[m]]
                          /\ redundant' = redundant \cup {n}
                     ELSE UNCHANGED <<hops, redundant>>
    /\ UNCHANGED <<phase, origin, edges, mass, queue, providers, impacts>>

Impact == SumOfCriticality(DOMAIN hops \ {origin})

Score ==
    /\ phase = "backup" /\ unscanned = <<>>
    /\ impacts' = Append(impacts, Impact)
    /\ IF Len(impacts') < Iterations THEN StartIteration(origin)
       ELSE phase' = "done" /\ UNCHANGED <<hops, queue, providers, unscanned, fired, redundant>>
    /\ UNCHANGED <<origin, edges, mass>>

CascadeStep == Visit \/ SearchOver \/ ScanBackups \/ Score

-----------------------------------------------------------------------------
(* The result, for an anomaly score in parts of Unit *)

\* An impact as a share of the mass, scaled by the anomaly score and clamped; without a
\* mass, the sum itself.  In parts of Unit * Denominator.
Denominator == IF origin \in NodesOf(edges) /\ mass > 0 THEN mass ELSE Unit
Scores(anomaly) == [i \in DOMAIN impacts |-> Min({anomaly * impacts[i], CiiMax * Denominator})]

\* The k-th smallest score.
Smallest(scores, k) ==
    CHOOSE v \in Range(scores) :
        /\ Cardinality({i \in DOMAIN scores : scores[i] < v}) < k
        /\ k <= Cardinality({i \in DOMAIN scores : scores[i] <= v})

\* numpy's interpolated percentile, in hundredths.
Percentile(scores, q) ==
    LET at == (Len(scores) - 1) * q
        low == at \div 100
        part == at % 100
    IN IF scores = <<>> THEN 0
       ELSE Smallest(scores, low + 1) * (100 - part)
              + (IF part = 0 THEN 0 ELSE Smallest(scores, low + 2) * part)

=============================================================================
