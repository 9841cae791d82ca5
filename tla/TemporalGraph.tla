---------------------------- MODULE TemporalGraph -----------------------------
(***************************************************************************)
(* The graph detector (backend/detection/tgnn.py): a live graph of who      *)
(* talks to whom within a window of time, a history of the peers of each    *)
(* live node, and an isolation forest over how the two differ, refitted     *)
(* from time to time.                                                       *)
(*                                                                          *)
(* Of the features the model keeps what they are computed from: a node's    *)
(* current peers, its known ones and the unseen ones.  Byte counts feed     *)
(* only the entropy feature and are left out; what the forest answers, and  *)
(* whether a fit succeeds, is chosen freely.                                *)
(***************************************************************************)
EXTENDS HybridFusion, Integers, SequencesExt, FiniteSetsExt

CONSTANTS
    Window,             \* tgnn_window_sec
    MaxNodes,           \* tgnn_max_nodes
    MaxPeers,           \* tgnn_max_history_peers_per_node
    BaselineBatches,    \* tgnn_baseline_batches
    RefitEvery,         \* tgnn_refit_every_batches
    MinBaselineRows,    \* tgnn_min_baseline_nodes
    MinEdges,           \* tgnn_min_edges_to_score
    MaxRows,            \* tgnn_max_training_rows
    FireThreshold       \* tgnn_fire_threshold

\* The fields' bounds as far as the model depends on them.
WindowInRange == Window \in Nat \ {0}
NodesInRange == MaxNodes \in Nat \ {0, 1} /\ MaxPeers \in Nat \ {0} /\ MinEdges \in Nat \ {0}
FittingInRange ==
    {BaselineBatches, RefitEvery, MinBaselineRows, MaxRows} \subseteq Nat \ {0}
ASSUME GraphAssumption ==
    WindowInRange /\ NodesInRange /\ FittingInRange /\ FireThreshold \in 0 .. Unit

VARIABLES
    graph,          \* [nodes: in LRU order, edges: pair -> last_seen, outPeers: node -> peers]
    destinations,   \* _history_global_destinations, in LRU order
    model           \* [rows, seen, fitted, fittedAt, forest: "none", "fitted" or "unfitted"]

graphVars == <<graph, destinations, model>>

EmptyGraph == [nodes |-> <<>>, edges |-> <<>>, outPeers |-> <<>>]

GraphInit ==
    /\ graph = EmptyGraph /\ destinations = <<>>
    /\ model = [rows |-> 0, seen |-> 0, fitted |-> FALSE, fittedAt |-> 0, forest |-> "none"]

\* x moves to the end of an OrderedDict, or joins it there; past n entries the first
\* gives way.
Used(s, x, n) ==
    LET at == {i \in DOMAIN s : s[i] = x}
        moved == Append(IF at = {} THEN s ELSE RemoveAt(s, CHOOSE i \in at : TRUE), x)
    IN SubSeq(moved, IF Len(moved) > n THEN Len(moved) - n + 1 ELSE 1, Len(moved))

Without(f, keys) == [k \in DOMAIN f \ keys |-> f[k]]

-----------------------------------------------------------------------------
(* The live graph *)

\* A new node may evict the least recently used one, with its edges and its history.
AddNode(g, ip) ==
    LET nodes == Used(g.nodes, ip, MaxNodes)
        evicted == ToSet(g.nodes) \ ToSet(nodes)
    IN [nodes |-> nodes,
        edges |-> Without(g.edges, {e \in DOMAIN g.edges : {e[1], e[2]} \cap evicted # {}}),
        outPeers |-> Without(g.outPeers, evicted)]

AddFlow(g, f) ==
    LET placed == AddNode(AddNode(g, f.src), f.dst)
        edge == <<f.src, f.dst>>
    IN [placed EXCEPT !.edges =
           [e \in DOMAIN placed.edges \cup {edge} |->
               IF e = edge THEN f.ts ELSE placed.edges[e]]]

\* The graph after the flows of the batch, one by one.
Placed(g, batch) ==
    LET after[i \in 0 .. Len(batch)] ==
            IF i = 0 THEN g ELSE AddFlow(after[i - 1], batch[i])
    IN after[Len(batch)]

\* The window ends at the latest time any edge carries.
PruneOldEdges(g) ==
    LET now == Max({g.edges[e] : e \in DOMAIN g.edges})
    IN IF g.edges = <<>> THEN g
       ELSE [g EXCEPT !.edges =
                Without(g.edges, {e \in DOMAIN g.edges : g.edges[e] < now - Window})]

\* Mutant: the batch is in the history before it is compared with it.
LiveGraph_Merged(g, batch) ==
    LET live == PruneOldEdges(Placed(g, batch))
    IN [live EXCEPT !.outPeers =
           [n \in DOMAIN live.outPeers |->
               live.outPeers[n] \o SelectSeq([i \in DOMAIN batch |-> batch[i].dst],
                                             LAMBDA d : <<n, d>> \in DOMAIN live.edges)]]

LiveGraph(g, batch) == PruneOldEdges(Placed(g, batch))

-----------------------------------------------------------------------------
(* Features, fitting, scoring *)

Peers(g, n) == {e[2] : e \in {e \in DOMAIN g.edges : e[1] = n}}
KnownPeers(g, n) == IF n \in DOMAIN g.outPeers THEN ToSet(g.outPeers[n]) ELSE {}

\* A node without a history of its own is compared with every destination known.
UnseenPeers(g, n) ==
    Peers(g, n) \ (IF KnownPeers(g, n) # {} THEN KnownPeers(g, n) ELSE ToSet(destinations))

Scorable(g) == {n \in ToSet(g.nodes) : Cardinality(Peers(g, n)) >= MinEdges}

\* _accumulate_training_rows(), and the fit that may be due; `fits` is its outcome.
\* A refit that fails leaves a new forest that was never fitted behind.
FitBaseline(g, fits) ==
    LET rows == Min({MaxRows, model.rows + Cardinality(Scorable(g))})
        seen == model.seen + 1
        due == /\ IF model.fitted THEN seen - model.fittedAt >= RefitEvery
                  ELSE seen >= BaselineBatches
               /\ rows >= MinBaselineRows
        counted == [model EXCEPT !.rows = rows, !.seen = seen]
    IN IF ~due THEN counted
       ELSE IF fits THEN [counted EXCEPT !.forest = "fitted", !.fitted = TRUE, !.fittedAt = seen]
       ELSE [counted EXCEPT !.forest = "unfitted"]

ScoredNodes(g, m, batch) ==
    IF m.fitted THEN {f.src : f \in ToSet(batch)} \cap Scorable(g) ELSE {}

\* decision_function() of a forest that was never fitted raises.
ScoringRaises(g, m, batch) == m.forest = "unfitted" /\ ScoredNodes(g, m, batch) # {}

\* On which side of the boundary a node lies, and whether at it or as far from it as the
\* training rows reach: the ends of the two linear maps, which meet in FireThreshold.
Answered == [outlier : BOOLEAN, far : BOOLEAN]
Calibrate(d) == IF ~d.far THEN FireThreshold ELSE IF d.outlier THEN Unit ELSE 0

GraphVerdict(scores, f) ==
    IF f.src \notin DOMAIN scores THEN Heuristic(FALSE, 0)
    ELSE LET d == scores[f.src]
         IN Heuristic(d.outlier /\ Calibrate(d) >= FireThreshold, Calibrate(d))

-----------------------------------------------------------------------------
(* examine() *)

\* Mutant: a source evicted by a later flow of its batch gets a history all the same.
MergeFlow_Evicted(h, f) ==
    LET known == IF f.src \in DOMAIN h.outPeers THEN h.outPeers[f.src] ELSE <<>>
    IN [h EXCEPT
           !.outPeers = [n \in DOMAIN h.outPeers \cup {f.src} |->
                            IF n = f.src THEN Used(known, f.dst, MaxPeers) ELSE h.outPeers[n]],
           !.destinations = Used(h.destinations, f.dst, MaxNodes)]

\* _merge_batch_into_history(): the flows of sources that are still in the graph.
MergeFlow(h, f) ==
    LET known == IF f.src \in DOMAIN h.outPeers THEN h.outPeers[f.src] ELSE <<>>
    IN IF f.src \notin ToSet(h.nodes) THEN h
       ELSE [h EXCEPT
                !.outPeers = [n \in DOMAIN h.outPeers \cup {f.src} |->
                                 IF n = f.src THEN Used(known, f.dst, MaxPeers)
                                 ELSE h.outPeers[n]],
                !.destinations = Used(h.destinations, f.dst, MaxNodes)]

Merged(g, batch) ==
    LET after[i \in 0 .. Len(batch)] ==
            IF i = 0
            THEN [nodes |-> g.nodes, outPeers |-> g.outPeers, destinations |-> destinations]
            ELSE MergeFlow(after[i - 1], batch[i])
    IN after[Len(batch)]

\* The graph and the fit change even when scoring raises; the history only after it.
GraphExamine(batch, fits) ==
    LET g == LiveGraph(graph, batch)
        m == FitBaseline(g, fits)
        h == Merged(g, batch)
        raises == ScoringRaises(g, m, batch)
    IN /\ model' = m
       /\ graph' = IF raises THEN g ELSE [g EXCEPT !.outPeers = h.outPeers]
       /\ destinations' = IF raises THEN destinations ELSE h.destinations

=============================================================================
