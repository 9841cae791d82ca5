--------------------------- MODULE PreventionPolicy ---------------------------
(***************************************************************************)
(* What to do about the asset behind a fused decision                       *)
(* (backend/ips/policy.py): a tier, from the threat score, the number of    *)
(* detectors that fired, how critical the asset is and how large the        *)
(* cascade from it would be.                                                *)
(***************************************************************************)
EXTENDS HybridFusion

CONSTANTS
    MinCorroborating,   \* ips_min_corroborating_detectors
    RateLimitMin,       \* ips_rate_limit_min_threat_score
    BlockMin,           \* ips_block_min_threat_score
    BlockCriticality,   \* ips_block_min_asset_criticality
    QuarantineCriticality,
    QuarantineCii       \* ips_quarantine_min_cii_median

\* The fields' bounds, and _check_ips_thresholds_ordered().
PolicyInRange ==
    /\ MinCorroborating \in 1 .. 5
    /\ {RateLimitMin, BlockMin, BlockCriticality, QuarantineCriticality, QuarantineCii}
         \subseteq 0 .. Unit
PolicyOrdered == RateLimitMin <= BlockMin /\ BlockCriticality <= QuarantineCriticality

ASSUME PolicyAssumption == PolicyInRange /\ PolicyOrdered

Tiers == {"observe", "alert", "rate_limit", "block", "quarantine"}
TierRank == [observe |-> 0, alert |-> 1, rate_limit |-> 2, block |-> 3, quarantine |-> 4]
Active == {"rate_limit", "block", "quarantine"}

Corroborated(vs) ==
    HasConfirmedSignal(vs) \/ Cardinality(FiredDetectors(vs)) >= MinCorroborating

\* Mutant: a wide cascade downgrades the block instead of raising it.
Decide_Inverted(fused, criticality, cii) ==
    IF fused.band \in {"benign", "suspicious"} THEN "observe"
    ELSE IF ~Corroborated(fused.verdicts) THEN "alert"
    ELSE IF fused.threat >= Level(BlockMin) /\ criticality >= BlockCriticality
              /\ \A c \in cii : c < QuarantineCii THEN "block"
    ELSE IF fused.threat >= Level(RateLimitMin) THEN "rate_limit" ELSE "alert"

\* decide(): the strongest tier that qualifies.  cii holds the median, or nothing when no
\* cascade was computed.
Decide(fused, criticality, cii) ==
    IF fused.band \in {"benign", "suspicious"} THEN "observe"
    ELSE IF ~Corroborated(fused.verdicts) THEN "alert"
    ELSE IF /\ fused.threat >= Level(BlockMin)
            /\ criticality >= QuarantineCriticality
            /\ \E c \in cii : c >= QuarantineCii THEN "quarantine"
    ELSE IF fused.threat >= Level(BlockMin) /\ criticality >= BlockCriticality THEN "block"
    ELSE IF fused.threat >= Level(RateLimitMin) THEN "rate_limit" ELSE "alert"

=============================================================================
