----------------------------- MODULE HybridFusion -----------------------------
(***************************************************************************)
(* How the verdicts of the detectors on one flow become one decision        *)
(* (backend/detection/fusion.py), and the adapters that turn what the older *)
(* channels report into verdicts (backend/detection/contracts.py).          *)
(*                                                                          *)
(* Scores and weights are in units of 1/Unit, so that a product is exact: a *)
(* threat score is a number of parts out of Whole.                          *)
(***************************************************************************)
EXTENDS Naturals, FiniteSets

CONSTANTS
    Unit,               \* a score of 1.0
    Weight,             \* hybrid_weight_*, by detector
    BandSuspicious,     \* hybrid_band_suspicious
    BandLikely,         \* hybrid_band_likely
    BandConfirmed       \* hybrid_band_confirmed

Heuristics == {"volumetric", "supervised", "signature", "beaconing", "tgnn"}
Detectors == Heuristics \cup {"tripwire"}

\* The fields' bounds, and _check_hybrid_bands_ordered().
WeightsInRange == Weight \in [Detectors -> 0 .. Unit]
BandsInRange == {BandSuspicious, BandLikely, BandConfirmed} \subseteq 0 .. Unit
BandsOrdered == BandSuspicious < BandLikely /\ BandLikely < BandConfirmed

ASSUME FusionAssumption == Unit \in Nat \ {0} /\ WeightsInRange /\ BandsInRange /\ BandsOrdered

\* The bounds DetectorVerdict checks when it is built.
Verdicts == [fired : BOOLEAN, score : 0 .. Unit, confirmed : BOOLEAN]

\* What fuse() is given: one verdict of every detector that ran.
VerdictSets == UNION {[D -> Verdicts] : D \in SUBSET Detectors}

Heuristic(fired, score) == [fired |-> fired, score |-> score, confirmed |-> FALSE]

-----------------------------------------------------------------------------
(* The adapters *)

VerdictFromScoredFlow(scored) == Heuristic(scored.anomaly, scored.score)
VerdictFromSupervised(scored) == Heuristic(scored.anomaly, scored.score)

\* The only verdict that can be confirmed.
VerdictFromTripwire(fired) ==
    IF fired THEN [fired |-> TRUE, score |-> Unit, confirmed |-> TRUE] ELSE Heuristic(FALSE, 0)

-----------------------------------------------------------------------------
(* fuse() *)

FiredDetectors(vs) == {d \in DOMAIN vs : vs[d].fired}
HasConfirmedSignal(vs) == \E d \in FiredDetectors(vs) : vs[d].confirmed

Sure == Unit * Unit

\* 1 - calibrated_score * reliability.  One that did not fire, or did not run, is no
\* evidence.
Doubt(vs, d) ==
    IF d \in FiredDetectors(vs) THEN Sure - vs[d].score * Weight[d] ELSE Sure

\* The product over the heuristics: product_survival.
Survival(vs) ==
    Doubt(vs, "volumetric") * (Doubt(vs, "supervised") * (Doubt(vs, "signature")
        * (Doubt(vs, "beaconing") * Doubt(vs, "tgnn"))))

Part == Unit * (Sure * (Sure * (Sure * Sure)))
Whole == Unit * Part
Level(score) == score * Part

\* A confirmed signal decides by itself; the heuristics combine by noisy-OR.
ThreatScore(vs) == IF HasConfirmedSignal(vs) THEN Whole ELSE Whole - Survival(vs)

BandRank == [benign |-> 0, suspicious |-> 1, likely |-> 2, confirmed |-> 3]

Band(threat) ==
    IF threat >= Level(BandConfirmed) THEN "confirmed"
    ELSE IF threat >= Level(BandLikely) THEN "likely"
    ELSE IF threat >= Level(BandSuspicious) THEN "suspicious" ELSE "benign"

\* Nothing fired is benign whatever the bands are; a confirmed signal is confirmed.
Fuse(vs) ==
    LET threat == ThreatScore(vs)
        band == IF FiredDetectors(vs) = {} THEN "benign"
                ELSE IF HasConfirmedSignal(vs) THEN "confirmed" ELSE Band(threat)
    IN [threat |-> threat, band |-> band, alert |-> band \in {"likely", "confirmed"},
        verdicts |-> vs]

=============================================================================
