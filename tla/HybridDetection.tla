--------------------------- MODULE HybridDetection ----------------------------
(***************************************************************************)
(* The hybrid layer inside one call of the pipeline (backend/ingest.py,     *)
(* _compute_hybrid_decisions() and what follows from its result): every     *)
(* detector examines the batch, the verdicts on each flow are fused, the    *)
(* scores are written in the batch's transaction, and the policy answers    *)
(* for the flows that matter.                                               *)
(*                                                                          *)
(* The detectors' histories change before the transaction and stay as they  *)
(* are when it fails.  They also outlive the replay session, while the      *)
(* clock of the flows does not only run forward: a loop pass or a restart   *)
(* begins the capture again, and an injected flow keeps the time it was     *)
(* captured at.                                                             *)
(***************************************************************************)
EXTENDS PreventionPolicy, SignatureEngine, BeaconingDetector, TemporalGraph

CONSTANTS
    Capture,        \* the flows of the replayed day, by time
    Pool,           \* the flows an injection can bring
    Enabled,        \* the optional detectors that run: switched on, or their model loaded
    Criticality,    \* of the asset behind each source address
    Impact,         \* median cascading impact computed from it
    Answers,        \* the answers of the forest that are tried
    MaxBatch, MaxSessions, MaxInjections, MaxFailures, MaxExamined   \* bounds

\* What the scorers say of a flow is a function of the flow, their fit being done.
FlowOK(f) ==
    /\ {f.volumetric, f.supervised} \subseteq [anomaly : BOOLEAN, score : 0 .. Unit]
    /\ f.honeytoken \in BOOLEAN
    /\ Criticality[f.src] \in 0 .. Unit /\ Impact[f.src] \in 0 .. Unit

ASSUME DetectionAssumption ==
    /\ Capture \in Seq(ToSet(Capture))
    /\ \A f \in ToSet(Capture) \cup ToSet(Pool) : FlowOK(f)
    /\ Answers \subseteq Answered

VARIABLES
    pointer, session, injected,     \* the engine's pointer, session and accepted injections
    failures,                       \* failed fits and transactions, repeated batches
    scores,                         \* table event_scores
    decisions,                      \* the last call's decisions
    log                             \* history: every flow examined

sourceVars == <<pointer, session, injected>>
vars == <<history, graphVars, sourceVars, failures, scores, decisions, log>>

Init ==
    /\ BeaconingInit /\ GraphInit
    /\ pointer = 0 /\ session = 1 /\ injected = 0 /\ failures = 0
    /\ scores = {} /\ decisions = <<>> /\ log = <<>>

-----------------------------------------------------------------------------
(* One call *)

Running == Detectors \ ({"supervised", "signature", "beaconing", "tgnn"} \ Enabled)

\* The verdicts on the i-th flow of a batch.
VerdictsOn(batch, i, nodeScores) ==
    LET f == batch[i]
    IN [d \in Running |->
           CASE d = "volumetric" -> VerdictFromScoredFlow(f.volumetric)
             [] d = "supervised" -> VerdictFromSupervised(f.supervised)
             [] d = "tripwire" -> VerdictFromTripwire(f.honeytoken)
             [] d = "signature" -> SignatureVerdict(f)
             [] d = "beaconing" -> BeaconingVerdicts(history, batch)[i]
             [] d = "tgnn" -> GraphVerdict(nodeScores, f)]

\* The flows the policy is asked about, and its answer.
Handled(f, fused, isInjected) ==
    f.volumetric.anomaly \/ f.honeytoken \/ fused.alert \/ isInjected

Decision(batch, i, nodeScores, isInjected) ==
    LET f == batch[i]
        fused == Fuse(VerdictsOn(batch, i, nodeScores))
        g == LiveGraph(graph, batch)
    IN [flow |-> f, fused |-> fused,
        tier |-> IF Handled(f, fused, isInjected)
                 THEN Decide(fused, Criticality[f.src], {Impact[f.src]}) ELSE "observe",
        peers |-> Peers(g, f.src),
        coldStart |-> KnownPeers(g, f.src) = {},
        novel |-> UnseenPeers(g, f.src)]

Row(key, d, score, anomaly) == [event |-> key, detector |-> d, score |-> score, anomaly |-> anomaly]

\* Mutant: an event that was there already gets a second set.
ScoreRows_Again(key, decision) ==
    LET vs == decision.fused.verdicts
    IN {Row(key, d, vs[d].score, vs[d].fired) :
            d \in {d \in DOMAIN vs : d # "tripwire" \/ vs[d].fired}}
       \cup {Row(key, "hybrid", decision.fused.threat, decision.fused.band # "benign")}

\* _persist_scores(): the rows of one event: the tripwire's only where it fired, all the
\* others always; none for an event that was there already.
ScoreRows(key, decision) ==
    LET vs == decision.fused.verdicts
    IN IF \E r \in scores : r.event = key THEN {}
       ELSE {Row(key, d, vs[d].score, vs[d].fired) :
                 d \in {d \in DOMAIN vs : d # "tripwire" \/ vs[d].fired}}
            \cup {Row(key, "hybrid", decision.fused.threat, decision.fused.band # "benign")}

\* Signature, beaconing and graph detector examine the batch, in this order; the graph
\* detector may raise, and then there is no decision and no transaction.
Examine(batch, keys, isInjected, faults) ==
    \E fits \in BOOLEAN, commits \in BOOLEAN :
        LET g == LiveGraph(graph, batch)
            m == FitBaseline(g, fits)
            raises == "tgnn" \in Enabled /\ ScoringRaises(g, m, batch)
            failed == faults + (IF m.forest = "unfitted" /\ ~fits THEN 1 ELSE 0)
                        + (IF raises \/ ~commits THEN 1 ELSE 0)
        IN \E nodeScores \in [ScoredNodes(g, m, batch) -> Answers] :
            LET decided == [i \in 1 .. Len(batch) |->
                                Decision(batch, i, nodeScores, isInjected)]
            IN /\ failures + failed <= MaxFailures /\ Len(log) + Len(batch) <= MaxExamined
               /\ failures' = failures + failed
               /\ IF "beaconing" \in Enabled THEN BeaconingExamine(batch)
                  ELSE UNCHANGED history
               /\ IF "tgnn" \in Enabled THEN GraphExamine(batch, fits)
                  ELSE UNCHANGED graphVars
               /\ log' = log \o batch
               /\ decisions' = IF raises THEN <<>> ELSE decided
               /\ scores' = IF raises \/ ~commits THEN scores
                            ELSE scores \cup UNION {ScoreRows(keys[i], decided[i]) :
                                                        i \in 1 .. Len(batch)}

-----------------------------------------------------------------------------
(* Where batches come from *)

\* A batch of the replay.  A second thread that shares the pointer can emit it again
\* (ReplayEngine): the pointer need not move.
Replay ==
    \E n \in 1 .. MaxBatch, again \in BOOLEAN :
        /\ pointer + n <= Len(Capture)
        /\ pointer' = IF again THEN pointer ELSE pointer + n
        /\ Examine(SubSeq(Capture, pointer + 1, pointer + n),
                   [i \in 1 .. n |-> <<session, pointer + i>>], FALSE, IF again THEN 1 ELSE 0)
        /\ UNCHANGED <<session, injected>>

\* A loop pass or a restart: the capture begins again under a new session.
Restart ==
    /\ session < MaxSessions
    /\ session' = session + 1
    /\ pointer' = 0
    /\ UNCHANGED <<history, graphVars, injected, failures, scores, decisions, log>>

\* An injected flow has a row id of its own.
Inject ==
    \E f \in ToSet(Pool) :
        /\ injected < MaxInjections
        /\ injected' = injected + 1
        /\ Examine(<<f>>, <<<<0, injected'>>>>, TRUE, 0)
        /\ UNCHANGED <<pointer, session>>

Next == Replay \/ Restart \/ Inject

Spec == Init /\ [][Next]_vars

-----------------------------------------------------------------------------
(* Properties *)

\* An observation is forgotten when MaxTrackedPairs other pairs were seen since without its
\* pair in between: the flows of a pair since it was last admitted are the others.
Forgotten(flows, i) ==
    \E k \in i .. Len(flows) : \E l \in k .. Len(flows) :
        LET between == {PairKey(flows[x]) : x \in k + 1 .. l}
        IN PairKey(flows[i]) \notin between /\ Cardinality(between) >= MaxTrackedPairs

Kept(flows, p) == {i \in 1 .. Len(flows) : PairKey(flows[i]) = p /\ ~Forgotten(flows, i)}

\* The times are those of the last HistoryPerPair flows kept, in order: the last but n of
\* one is the last but n of the other.
LastTimes(times, flows, kept) ==
    LET later(i) == Cardinality({j \in kept : j > i})
        all == Cardinality(kept)
    IN /\ Len(times) = IF all > HistoryPerPair THEN HistoryPerPair ELSE all
       /\ \A i \in kept : later(i) < HistoryPerPair => times[Len(times) - later(i)] = flows[i].ts

\* The beaconing detector remembers exactly the pairs used most recently, each with the
\* last times of that pair since it was last admitted.
HistoriesAreRecent ==
    "beaconing" \in Enabled =>
        /\ \A i, j \in DOMAIN history : history[i].pair = history[j].pair => i = j
        /\ \A p \in {PairKey(f) : f \in ToSet(log)} :
               LastTimes(TimesOf(history, p), log, Kept(log, p))

\* The graph detector's memory is that of its live nodes: neither an edge nor a history
\* survives the eviction of its node, or memory would grow with every address seen.
HistoryOfLiveNodesOnly ==
    /\ DOMAIN graph.outPeers \subseteq ToSet(graph.nodes)
    /\ \A e \in DOMAIN graph.edges : {e[1], e[2]} \subseteq ToSet(graph.nodes)
    /\ \A n \in DOMAIN graph.outPeers : Len(graph.outPeers[n]) <= MaxPeers

\* A batch is compared with what came before it, never with itself: a live peer that its
\* source contacts for the first time in this call passes for unseen.
FirstContactIsNovel ==
    LET before == SubSeq(log, 1, Len(log) - Len(decisions))
    IN \A i \in DOMAIN decisions :
           LET d == decisions[i]
           IN (/\ ~d.coldStart /\ d.flow.dst \in d.peers
               /\ ~\E f \in ToSet(before) : PairKey(f) = PairKey(d.flow))
              => d.flow.dst \in d.novel

\* Each stored event has one row per detector, and its headline is what fusing exactly
\* those rows gives, whatever was examined again or rolled back since.
ScoresExplainHeadline ==
    \A key \in {r.event : r \in scores} :
        LET rows == {r \in scores : r.event = key}
            of(d) == CHOOSE r \in rows : r.detector = d
            vs == [d \in {r.detector : r \in rows} \ {"hybrid"} |->
                      [fired |-> of(d).anomaly, score |-> of(d).score,
                       confirmed |-> d = "tripwire"]]
        IN /\ \A r, s \in rows : r.detector = s.detector => r = s
           /\ of("hybrid").score = Fuse(vs).threat
           /\ Running \ {"tripwire"} \subseteq DOMAIN vs

\* The answer to a flow is never weaker because one more detector fired, or because the
\* asset is more critical or its cascade larger.
StrongerCaseStrongerAnswer ==
    \A i \in DOMAIN decisions :
        LET fused == decisions[i].fused
            src == decisions[i].flow.src
            answer == TierRank[Decide(fused, Criticality[src], {Impact[src]})]
        IN /\ \A d \in FiredDetectors(fused.verdicts) :
                  LET quieter == Fuse([fused.verdicts EXCEPT ![d] = Heuristic(FALSE, 0)])
                  IN /\ BandRank[quieter.band] <= BandRank[fused.band]
                     /\ TierRank[Decide(quieter, Criticality[src], {Impact[src]})] <= answer
           /\ \A c \in 0 .. Criticality[src], x \in {{k} : k \in 0 .. Impact[src]} \cup {{}} :
                  TierRank[Decide(fused, c, x)] <= answer

=============================================================================
