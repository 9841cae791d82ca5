--------------------------- MODULE DependencyGraph ----------------------------
(***************************************************************************)
(* The graph of assets and dependencies, and the access gateway that every  *)
(* path to a protected asset is led through (src/graph_manager.py), with    *)
(* the table of assets derived from it (backend/seed.py).                   *)
(*                                                                          *)
(* Of a probability the model keeps whether an event has to, cannot or may  *)
(* happen.                                                                  *)
(***************************************************************************)
EXTENDS Naturals, Sequences, SequencesExt, FiniteSets

CONSTANTS
    Unit,                   \* a criticality of 1.0
    Assets,                 \* names of SMART_CITY_ASSETS
    Criticality,            \* of each asset
    Zone,                   \* purdue_level of each asset
    GatewayName,            \* zone -> "Gateway_L<zone>"
    Dependencies,           \* DEPENDENCY_GRAPH: [src, tgt, type, chance, provider]
    GatewayThreshold,       \* gateway.criticality_threshold
    GatewayCriticality,     \* gateway.gateway_node_criticality
    DefaultCriticality      \* cii.default_criticality

Chances == {"never", "maybe", "always"}
NoProvider == "none"
EdgeTypes == {"depends_on", "controls", "communicates_with", "pays_through", "backed_up_by",
              "shares_provider"}

Gateways == {GatewayName[z] : z \in DOMAIN GatewayName}

ASSUME GraphAssumption ==
    /\ Unit \in Nat \ {0}
    /\ Criticality \in [Assets -> 0 .. Unit]
    /\ Zone \in [Assets -> DOMAIN GatewayName]
    /\ {GatewayThreshold, GatewayCriticality, DefaultCriticality} \subseteq 0 .. Unit
    /\ IsFiniteSet(Assets) /\ Gateways \cap Assets = {}
    /\ Dependencies \in Seq([src : STRING, tgt : STRING, type : EdgeTypes, chance : Chances,
                             provider : STRING])
    /\ \A i \in DOMAIN Dependencies :
           {Dependencies[i].src, Dependencies[i].tgt} \cap Gateways = {}

\* gateway_nodes(), is_gateway_name(), gateway_target_assets()
Protected == {a \in Assets : Criticality[a] >= GatewayThreshold}
GatewayOf(a) == GatewayName[Zone[a]]
GatewayNodes == {GatewayOf(a) : a \in Protected}
IsGatewayName(n) == n \in Gateways
GatewayTargets(g) == {a \in Protected : GatewayOf(a) = g}

-----------------------------------------------------------------------------
(* build_graph() *)

\* Mutant: only where the source is not itself protected.
Routed_Trusting(e) ==
    IF e.tgt \in Protected /\ e.src \notin Protected THEN [e EXCEPT !.tgt = GatewayOf(e.tgt)]
    ELSE e

\* Every entry ends at the gateway of a protected target.
Routed(e) == IF e.tgt \in Protected THEN [e EXCEPT !.tgt = GatewayOf(e.tgt)] ELSE e

RoutedAt(i) == Routed(Dependencies[i])

\* Two entries for one pair of nodes: the later one replaces the attributes.
RoutedEdges ==
    {RoutedAt(i) : i \in {i \in DOMAIN Dependencies :
        \A j \in DOMAIN Dependencies :
            RoutedAt(j).src = RoutedAt(i).src /\ RoutedAt(j).tgt = RoutedAt(i).tgt => j <= i}}

\* _union_prob(): the relay fires unless none of the entries it stands for would.
UnionChance(chances) ==
    IF "always" \in chances THEN "always" ELSE IF chances \subseteq {"never"} THEN "never"
    ELSE "maybe"

Relay(g, a, chance) ==
    [src |-> g, tgt |-> a, type |-> "gateway_relay", chance |-> chance, provider |-> NoProvider]

EntriesTo(a) == {e \in ToSet(Dependencies) : e.tgt = a}

Relays ==
    {Relay(GatewayOf(a), a, UnionChance({e.chance : e \in EntriesTo(a)})) :
        a \in {a \in Protected : EntriesTo(a) # {}}}

BuildGraph == RoutedEdges \cup Relays

NodesOf(edges) == {e.src : e \in edges} \cup {e.tgt : e \in edges}

\* The nodes in the order they came into the graph: with the entries, then with the relays.
With(nodes, n) == IF n \in ToSet(nodes) THEN nodes ELSE Append(nodes, n)

NodeOrder ==
    LET entered == FoldLeft(LAMBDA nodes, e : With(With(nodes, e.src), Routed(e).tgt),
                            <<>>, Dependencies)
    IN FoldLeft(LAMBDA nodes, e : With(nodes, e.tgt), entered, Dependencies)

-----------------------------------------------------------------------------
(* compute_seed_rows() *)

SeedCriticality(n) ==
    IF n \in Assets THEN Criticality[n]
    ELSE IF n \in GatewayNodes \/ IsGatewayName(n) THEN GatewayCriticality ELSE DefaultCriticality

\* The criticality of every node of the graph: what build_criticality_map() serves.
SeededCriticality == [n \in NodesOf(BuildGraph) |-> SeedCriticality(n)]

\* resolvable_target_assets(): the seeded rows that have an address.
ResolvableTargets == NodesOf(BuildGraph) \cap Assets

=============================================================================
