------------------------- MODULE HybridDetectionProofs -------------------------
(***************************************************************************)
(* Machine-checked proofs about fusion, policy and the hybrid layer, for    *)
(* every unit, weight, band and threshold the settings admit:               *)
(*   - products of doubts, fusion, policy: more evidence, stronger answer;   *)
(*   - the graph detector's memory is that of its live nodes, and a contact  *)
(*     it has not seen before the batch is a new one;                        *)
(*   - the stored scores of an event are those of one set of verdicts, and   *)
(*     fusing them gives its headline;                                       *)
(*   - the beaconing detector holds the pairs used last, each with its last  *)
(*     times.                                                                *)
(***************************************************************************)
EXTENDS HybridDetection, TLAPS, FiniteSetTheorems, WellFoundedInduction, SequenceTheorems

-----------------------------------------------------------------------------
(* Products of doubts *)

LEMMA Mult ==
    ASSUME NEW x \in Nat, NEW y \in Nat
    PROVE  x * y \in Nat
OBVIOUS

LEMMA MultMonotone ==
    ASSUME NEW a \in Nat, NEW b \in Nat, NEW c \in Nat, NEW d \in Nat, a <= b, c <= d
    PROVE  a * c <= b * d
<1>1. (b - a) * c \in Nat /\ b * (d - c) \in Nat
  <2>1. b - a \in Nat /\ d - c \in Nat
    OBVIOUS
  <2>2. \A x, y \in Nat : x * y \in Nat
    BY Mult
  <2> QED BY <2>1, <2>2
<1>2. b * d - a * c = (b - a) * c + b * (d - c)
  OBVIOUS
<1>3. a * c \in Nat /\ b * d \in Nat
  BY Mult
<1> QED BY <1>1, <1>2, <1>3

\* One verdict set holds at least the evidence of another: nothing that fired is missing,
\* weaker, or no longer confirmed.
MoreEvidence(vs, ws) ==
    \A d \in FiredDetectors(vs) :
        /\ d \in FiredDetectors(ws)
        /\ vs[d].score <= ws[d].score
        /\ vs[d].confirmed => ws[d].confirmed

LEMMA VerdictType ==
    ASSUME NEW vs \in VerdictSets
    PROVE  /\ DOMAIN vs \subseteq Detectors
           /\ \A d \in DOMAIN vs : vs[d] \in Verdicts
BY DEF VerdictSets

LEMMA SureType == Unit \in Nat /\ Sure \in Nat /\ Part \in Nat /\ Whole \in Nat
<1>1. Unit \in Nat
  BY FusionAssumption
<1>2. Sure \in Nat
  BY <1>1, Mult DEF Sure
<1>3. Sure * Sure \in Nat
  BY <1>2, Mult
<1>4. Sure * (Sure * Sure) \in Nat
  BY <1>2, <1>3, Mult
<1>5. Sure * (Sure * (Sure * Sure)) \in Nat
  BY <1>2, <1>4, Mult
<1>6. Part \in Nat
  BY <1>1, <1>5, Mult DEF Part
<1>7. Whole \in Nat
  BY <1>1, <1>6, Mult DEF Whole
<1> QED BY <1>1, <1>2, <1>6, <1>7

\* Every doubt is a natural number up to certainty.
LEMMA DoubtType ==
    ASSUME NEW vs \in VerdictSets, NEW d \in Detectors
    PROVE  Doubt(vs, d) \in Nat /\ Doubt(vs, d) <= Sure
<1>1. CASE d \in FiredDetectors(vs)
  <2>1. vs[d].score \in 0 .. Unit /\ Weight[d] \in 0 .. Unit
    BY <1>1, VerdictType, FusionAssumption DEF FiredDetectors, Verdicts, WeightsInRange
  <2>2. vs[d].score * Weight[d] <= Unit * Unit /\ vs[d].score * Weight[d] \in Nat
    BY <2>1, SureType, Mult, MultMonotone
  <2>3. Doubt(vs, d) = Unit * Unit - vs[d].score * Weight[d]
    BY <1>1 DEF Doubt, Sure
  <2> QED BY <2>2, <2>3, SureType DEF Sure
<1>2. CASE d \notin FiredDetectors(vs)
  BY <1>2, SureType DEF Doubt
<1> QED BY <1>1, <1>2

\* More evidence, less doubt.
LEMMA DoubtMonotone ==
    ASSUME NEW vs \in VerdictSets, NEW ws \in VerdictSets, MoreEvidence(vs, ws),
           NEW d \in Detectors
    PROVE  Doubt(ws, d) <= Doubt(vs, d)
<1>1. CASE d \in FiredDetectors(vs)
  <2>1. d \in FiredDetectors(ws) /\ vs[d].score <= ws[d].score
    BY <1>1 DEF MoreEvidence
  <2>2. vs[d].score \in Nat /\ ws[d].score \in Nat /\ Weight[d] \in Nat
    BY <1>1, <2>1, VerdictType, FusionAssumption
       DEF FiredDetectors, Verdicts, WeightsInRange
  <2>3. /\ vs[d].score * Weight[d] <= ws[d].score * Weight[d]
        /\ vs[d].score * Weight[d] \in Nat /\ ws[d].score * Weight[d] \in Nat
    BY <2>1, <2>2, Mult, MultMonotone
  <2>4. /\ Doubt(vs, d) = Sure - vs[d].score * Weight[d]
        /\ Doubt(ws, d) = Sure - ws[d].score * Weight[d]
    BY <1>1, <2>1 DEF Doubt
  <2> QED BY <2>3, <2>4, SureType
<1>2. CASE d \notin FiredDetectors(vs)
  <2>1. Doubt(vs, d) = Sure
    BY <1>2 DEF Doubt
  <2> QED BY <2>1, DoubtType
<1> QED BY <1>1, <1>2

LEMMA Product5 ==
    ASSUME NEW a \in Nat, NEW b \in Nat, NEW c \in Nat, NEW d \in Nat, NEW e \in Nat,
           NEW p \in Nat, NEW q \in Nat, NEW r \in Nat, NEW s \in Nat, NEW t \in Nat,
           a <= p, b <= q, c <= r, d <= s, e <= t
    PROVE  /\ a * (b * (c * (d * e))) \in Nat
           /\ p * (q * (r * (s * t))) \in Nat
           /\ a * (b * (c * (d * e))) <= p * (q * (r * (s * t)))
<1>1. d * e \in Nat /\ s * t \in Nat /\ d * e <= s * t
  BY Mult, MultMonotone
<1>2. c * (d * e) \in Nat /\ r * (s * t) \in Nat /\ c * (d * e) <= r * (s * t)
  BY <1>1, Mult, MultMonotone
<1>3. /\ b * (c * (d * e)) \in Nat /\ q * (r * (s * t)) \in Nat
      /\ b * (c * (d * e)) <= q * (r * (s * t))
  BY <1>2, Mult, MultMonotone
<1> QED BY <1>3, Mult, MultMonotone

LEMMA SurvivalMonotone ==
    ASSUME NEW vs \in VerdictSets, NEW ws \in VerdictSets, MoreEvidence(vs, ws)
    PROVE  Survival(vs) \in Nat /\ Survival(ws) \in Nat /\ Survival(ws) <= Survival(vs)
<1>1. \A d \in Detectors : /\ Doubt(vs, d) \in Nat /\ Doubt(ws, d) \in Nat
                           /\ Doubt(ws, d) <= Doubt(vs, d)
  BY DoubtType, DoubtMonotone
<1>2. {"volumetric", "supervised", "signature", "beaconing", "tgnn"} \subseteq Detectors
  BY DEF Detectors, Heuristics
<1> HIDE DEF Detectors
<1> QED BY <1>1, <1>2, Product5 DEF Survival

LEMMA SurvivalBounded ==
    ASSUME NEW vs \in VerdictSets
    PROVE  Survival(vs) \in Nat /\ Survival(vs) <= Whole
<1>1. \A d \in Detectors : Doubt(vs, d) \in Nat /\ Doubt(vs, d) <= Sure
  BY DoubtType
<1>2. {"volumetric", "supervised", "signature", "beaconing", "tgnn"} \subseteq Detectors
  BY DEF Detectors, Heuristics
<1>3. /\ Survival(vs) \in Nat
      /\ Survival(vs) <= Sure * (Sure * (Sure * (Sure * Sure)))
  BY <1>1, <1>2, SureType, Product5 DEF Survival
<1>4. Sure * (Sure * (Sure * (Sure * Sure))) = Whole
  <2> DEFINE X == Sure * (Sure * (Sure * Sure))
  <2>1. X \in Nat
    BY SureType, Mult
  <2> HIDE DEF X
  <2>2. (Unit * Unit) * X = Unit * (Unit * X)
    BY <2>1, SureType
  <2> QED BY <2>2 DEF X, Whole, Part, Sure
<1> QED BY <1>3, <1>4

-----------------------------------------------------------------------------
(* Fusion *)

LEMMA LevelType == ASSUME NEW l \in 0 .. Unit PROVE Level(l) \in Nat
BY SureType, Mult DEF Level

LEMMA ThreatBounded ==
    ASSUME NEW vs \in VerdictSets
    PROVE  ThreatScore(vs) \in Nat /\ ThreatScore(vs) <= Whole
BY SurvivalBounded, SureType DEF ThreatScore

LEMMA ThreatMonotone ==
    ASSUME NEW vs \in VerdictSets, NEW ws \in VerdictSets, MoreEvidence(vs, ws)
    PROVE  ThreatScore(vs) <= ThreatScore(ws)
<1>1. CASE HasConfirmedSignal(ws)
  BY <1>1, ThreatBounded DEF ThreatScore
<1>2. CASE ~HasConfirmedSignal(ws)
  <2>1. ~HasConfirmedSignal(vs)
    BY <1>2 DEF MoreEvidence, HasConfirmedSignal
  <2> QED BY <1>2, <2>1, SurvivalMonotone, SurvivalBounded, SureType DEF ThreatScore
<1> QED BY <1>1, <1>2

LEMMA BandMonotone ==
    ASSUME NEW t \in Nat, NEW u \in Nat, t <= u
    PROVE  /\ Band(t) \in DOMAIN BandRank /\ Band(u) \in DOMAIN BandRank
           /\ BandRank[Band(t)] <= BandRank[Band(u)]
<1> DEFINE S == Level(BandSuspicious)
           L == Level(BandLikely)
           C == Level(BandConfirmed)
<1>1. S \in Nat /\ L \in Nat /\ C \in Nat
  BY LevelType, FusionAssumption DEF BandsInRange
<1>2. \A x \in Nat : Band(x) = IF x >= C THEN "confirmed" ELSE IF x >= L THEN "likely"
                               ELSE IF x >= S THEN "suspicious" ELSE "benign"
  BY DEF Band
<1>3. S <= L /\ L <= C
  <2>1. BandSuspicious \in Nat /\ BandLikely \in Nat /\ BandConfirmed \in Nat
        /\ BandSuspicious <= BandLikely /\ BandLikely <= BandConfirmed
    BY FusionAssumption DEF BandsInRange, BandsOrdered
  <2>2. Part \in Nat /\ Part <= Part
    BY SureType
  <2> QED BY <2>1, <2>2, MultMonotone DEF Level
<1> HIDE DEF S, L, C
<1> QED BY <1>1, <1>2, <1>3 DEF BandRank

\* A confirmed signal decides by itself: nothing that the other detectors say, and no
\* setting of the bands, makes less than "confirmed" and an alert of it.
THEOREM ConfirmedDecides ==
    ASSUME NEW vs \in VerdictSets, HasConfirmedSignal(vs)
    PROVE  Fuse(vs).threat = Whole /\ Fuse(vs).band = "confirmed" /\ Fuse(vs).alert
<1>1. FiredDetectors(vs) # {}
  BY DEF HasConfirmedSignal
<1> QED BY <1>1 DEF Fuse, ThreatScore

\* A detector that fires in addition, or louder, never lowers the threat score or the
\* band: the noisy-OR of the fired verdicts is monotone in the evidence.
THEOREM FusionMonotone ==
    ASSUME NEW vs \in VerdictSets, NEW ws \in VerdictSets, MoreEvidence(vs, ws)
    PROVE  /\ Fuse(vs).threat <= Fuse(ws).threat
           /\ BandRank[Fuse(vs).band] <= BandRank[Fuse(ws).band]
<1>1. /\ Fuse(vs).threat = ThreatScore(vs) /\ Fuse(ws).threat = ThreatScore(ws)
      /\ Fuse(vs).band = IF FiredDetectors(vs) = {} THEN "benign"
                         ELSE IF HasConfirmedSignal(vs) THEN "confirmed"
                         ELSE Band(ThreatScore(vs))
      /\ Fuse(ws).band = IF FiredDetectors(ws) = {} THEN "benign"
                         ELSE IF HasConfirmedSignal(ws) THEN "confirmed"
                         ELSE Band(ThreatScore(ws))
  BY DEF Fuse
<1>2. ThreatScore(vs) \in Nat /\ ThreatScore(ws) \in Nat /\ ThreatScore(vs) <= ThreatScore(ws)
  BY ThreatBounded, ThreatMonotone
<1>3. /\ Band(ThreatScore(vs)) \in DOMAIN BandRank /\ Band(ThreatScore(ws)) \in DOMAIN BandRank
      /\ BandRank[Band(ThreatScore(vs))] <= BandRank[Band(ThreatScore(ws))]
  BY <1>2, BandMonotone
<1>4. FiredDetectors(vs) \subseteq FiredDetectors(ws)
  BY DEF MoreEvidence
<1>5. HasConfirmedSignal(vs) => HasConfirmedSignal(ws)
  BY DEF MoreEvidence, HasConfirmedSignal
<1>6. \A b \in DOMAIN BandRank : 0 <= BandRank[b] /\ BandRank[b] <= 3 /\ BandRank[b] \in Nat
  BY DEF BandRank
<1>7. BandRank["benign"] = 0 /\ BandRank["confirmed"] = 3
  BY DEF BandRank
<1>8. DOMAIN BandRank = {"benign", "suspicious", "likely", "confirmed"}
  BY DEF BandRank
<1>9. BandRank[Fuse(vs).band] <= BandRank[Fuse(ws).band]
  <2>1. CASE FiredDetectors(vs) = {}
    BY <2>1, <1>1, <1>3, <1>6, <1>7, <1>8
  <2>2. CASE FiredDetectors(vs) # {} /\ HasConfirmedSignal(ws)
    BY <2>2, <1>1, <1>3, <1>4, <1>6, <1>7, <1>8
  <2>3. CASE FiredDetectors(vs) # {} /\ ~HasConfirmedSignal(ws)
    BY <2>3, <1>1, <1>3, <1>4, <1>5
  <2> QED BY <2>1, <2>2, <2>3
<1> QED BY <1>1, <1>2, <1>9

-----------------------------------------------------------------------------
(* Policy *)

LEMMA FiredFinite ==
    ASSUME NEW vs \in VerdictSets
    PROVE  IsFiniteSet(FiredDetectors(vs)) /\ Cardinality(FiredDetectors(vs)) \in Nat
<1>1. IsFiniteSet(Detectors)
  <2>1. Detectors = {"volumetric", "supervised", "signature", "beaconing", "tgnn", "tripwire"}
    BY DEF Detectors, Heuristics
  <2>2. IsFiniteSet({"volumetric"})
    BY FS_Singleton
  <2>3. IsFiniteSet({"volumetric"} \cup {"supervised"})
    BY <2>2, FS_AddElement
  <2>4. IsFiniteSet(({"volumetric"} \cup {"supervised"}) \cup {"signature"})
    BY <2>3, FS_AddElement
  <2>5. IsFiniteSet((({"volumetric"} \cup {"supervised"}) \cup {"signature"}) \cup {"beaconing"})
    BY <2>4, FS_AddElement
  <2> DEFINE D == ((({"volumetric"} \cup {"supervised"}) \cup {"signature"})
                     \cup {"beaconing"}) \cup {"tgnn"}
  <2>6. IsFiniteSet(D)
    BY <2>5, FS_AddElement
  <2>7. IsFiniteSet(D \cup {"tripwire"})
    BY <2>6, FS_AddElement
  <2>8. Detectors = D \cup {"tripwire"}
    BY <2>1
  <2> QED BY <2>7, <2>8
<1>2. FiredDetectors(vs) \in SUBSET Detectors
  BY VerdictType DEF FiredDetectors
<1> QED BY <1>1, <1>2, FS_Subset, FS_CardinalityType

\* A case at least as strong: more evidence, a more critical asset, a cascade that still
\* reaches the quarantine threshold if the other one does.
LEMMA CorroboratedMonotone ==
    ASSUME NEW vs \in VerdictSets, NEW ws \in VerdictSets, MoreEvidence(vs, ws),
           Corroborated(vs)
    PROVE  Corroborated(ws)
<1>1. CASE HasConfirmedSignal(vs)
  BY <1>1 DEF MoreEvidence, HasConfirmedSignal, Corroborated
<1>2. CASE Cardinality(FiredDetectors(vs)) >= MinCorroborating
  <2>1. FiredDetectors(vs) \in SUBSET FiredDetectors(ws)
    BY DEF MoreEvidence
  <2>2. Cardinality(FiredDetectors(vs)) <= Cardinality(FiredDetectors(ws))
    BY <2>1, FiredFinite, FS_Subset
  <2>3. MinCorroborating \in Nat
    BY PolicyAssumption DEF PolicyInRange
  <2> QED BY <1>2, <2>2, <2>3, FiredFinite DEF Corroborated
<1> QED BY <1>1, <1>2 DEF Corroborated

\* The answer is never weaker because one more detector fired or fired louder, because the
\* asset is more critical, or because the cascade from it is larger.
THEOREM AnswerMonotone ==
    ASSUME NEW vs \in VerdictSets, NEW ws \in VerdictSets, MoreEvidence(vs, ws),
           NEW c \in Nat, NEW k \in Nat, c <= k,
           NEW small, NEW large,
           (\E x \in small : x >= QuarantineCii) => \E y \in large : y >= QuarantineCii
    PROVE  TierRank[Decide(Fuse(vs), c, small)] <= TierRank[Decide(Fuse(ws), k, large)]
<1> DEFINE t == Fuse(vs).threat
           u == Fuse(ws).threat
           low == {"benign", "suspicious"}
           wide == \E x \in small : x >= QuarantineCii
           wider == \E y \in large : y >= QuarantineCii
           B == Level(BlockMin)
           R == Level(RateLimitMin)
<1>1. t \in Nat /\ u \in Nat /\ t <= u
  BY ThreatBounded, FusionMonotone DEF Fuse
<1>2. B \in Nat /\ R \in Nat /\ BlockCriticality \in Nat /\ QuarantineCriticality \in Nat
      /\ BlockCriticality <= QuarantineCriticality
  BY LevelType, PolicyAssumption, FusionAssumption DEF PolicyInRange, PolicyOrdered
<1>3. R <= B
  <2>1. RateLimitMin \in Nat /\ BlockMin \in Nat /\ RateLimitMin <= BlockMin
    BY PolicyAssumption DEF PolicyInRange, PolicyOrdered
  <2>2. Part \in Nat /\ Part <= Part
    BY SureType
  <2> QED BY <2>1, <2>2, MultMonotone DEF Level
<1>4. Fuse(ws).band \in low => Fuse(vs).band \in low
  <2>1. BandRank[Fuse(vs).band] <= BandRank[Fuse(ws).band]
    BY FusionMonotone
  <2>2. Fuse(vs).band \in DOMAIN BandRank
    <3>1. Fuse(vs).band = IF FiredDetectors(vs) = {} THEN "benign"
                          ELSE IF HasConfirmedSignal(vs) THEN "confirmed"
                          ELSE Band(ThreatScore(vs))
      BY DEF Fuse
    <3>2. Band(ThreatScore(vs)) \in {"benign", "suspicious", "likely", "confirmed"}
      BY DEF Band
    <3> QED BY <3>1, <3>2 DEF BandRank
  <2> QED BY <2>1, <2>2 DEF BandRank
<1>5. Fuse(vs).verdicts = vs /\ Fuse(ws).verdicts = ws
  BY DEF Fuse
<1>6. Corroborated(vs) => Corroborated(ws)
  BY CorroboratedMonotone
<1>7. Decide(Fuse(vs), c, small) =
        IF Fuse(vs).band \in low THEN "observe"
        ELSE IF ~Corroborated(vs) THEN "alert"
        ELSE IF t >= B /\ c >= QuarantineCriticality /\ wide THEN "quarantine"
        ELSE IF t >= B /\ c >= BlockCriticality THEN "block"
        ELSE IF t >= R THEN "rate_limit" ELSE "alert"
  BY <1>5 DEF Decide
<1>8. Decide(Fuse(ws), k, large) =
        IF Fuse(ws).band \in low THEN "observe"
        ELSE IF ~Corroborated(ws) THEN "alert"
        ELSE IF u >= B /\ k >= QuarantineCriticality /\ wider THEN "quarantine"
        ELSE IF u >= B /\ k >= BlockCriticality THEN "block"
        ELSE IF u >= R THEN "rate_limit" ELSE "alert"
  BY <1>5 DEF Decide
<1>9. wide => wider
  OBVIOUS
<1>10. TierRank["observe"] = 0 /\ TierRank["alert"] = 1 /\ TierRank["rate_limit"] = 2
       /\ TierRank["block"] = 3 /\ TierRank["quarantine"] = 4
  BY DEF TierRank
<1> HIDE DEF t, u, low, wide, wider, B, R
<1>11. CASE Fuse(vs).band \in low
  BY <1>11, <1>7, <1>8, <1>10
<1>12. CASE Fuse(vs).band \notin low /\ ~Corroborated(vs)
  BY <1>12, <1>4, <1>7, <1>8, <1>10
<1>13. CASE Fuse(vs).band \notin low /\ Corroborated(vs)
  <2>1. Fuse(ws).band \notin low /\ Corroborated(ws)
    BY <1>13, <1>4, <1>6
  <2> QED BY <1>13, <2>1, <1>1, <1>2, <1>3, <1>7, <1>8, <1>9, <1>10
<1> QED BY <1>11, <1>12, <1>13

\* Active prevention needs a confirmed signal or as many detectors as the settings ask
\* for: no threshold can be relaxed so far that a single heuristic detector suffices.
THEOREM PreventionIsCorroborated ==
    ASSUME NEW vs \in VerdictSets, NEW c, NEW cii, Decide(Fuse(vs), c, cii) \in Active
    PROVE  HasConfirmedSignal(vs) \/ Cardinality(FiredDetectors(vs)) >= MinCorroborating
BY DEF Decide, Active, Fuse, Corroborated

-----------------------------------------------------------------------------
(* What the detectors report are verdicts *)

\* A greatest score: among the intervals from each score up, which are finite sets, one
\* contains no other.
LEMMA MaxExists ==
    ASSUME NEW S, S \subseteq 0 .. Unit, S # {}
    PROVE  \E x \in S : \A y \in S : y <= x
<1> DEFINE above(x) == x .. Unit
           T == {above(x) : x \in S}
<1>1. Unit \in Nat
  BY SureType
<1>2. ASSUME NEW x \in S PROVE above(x) \in FiniteSubsetsOf(Nat)
  <2>1. x \in Nat /\ above(x) \subseteq Nat
    BY <1>1
  <2>2. IsFiniteSet(above(x))
    BY <1>1, <2>1, FS_Interval
  <2> QED BY <2>1, <2>2 DEF FiniteSubsetsOf
<1>3. T \subseteq FiniteSubsetsOf(Nat) /\ T # {}
  BY <1>2
<1>4. IsWellFoundedOn(StrictSubsetOrdering(Nat), FiniteSubsetsOf(Nat))
  BY FS_StrictSubsetOrderingWellFounded
<1>5. PICK M \in T : \A U \in T : ~(<<U, M>> \in StrictSubsetOrdering(Nat))
  <2> HIDE DEF T
  <2> QED BY <1>3, <1>4, WFMin
<1>6. PICK x \in S : M = above(x)
  BY <1>5
<1>7. ASSUME NEW y \in S PROVE y <= x
  <2>1. x \in 0 .. Unit /\ y \in 0 .. Unit
    OBVIOUS
  <2>2. SUFFICES ASSUME x < y PROVE FALSE
    BY <2>1
  <2>3. above(y) \subseteq above(x) /\ x \in above(x) /\ x \notin above(y)
    BY <1>1, <2>1, <2>2
  <2>4. above(y) \in SUBSET Nat /\ above(x) \in SUBSET Nat
    BY <1>2 DEF FiniteSubsetsOf
  <2>5. <<above(y), above(x)>> \in StrictSubsetOrdering(Nat)
    <3> HIDE DEF above
    <3> QED BY <2>3, <2>4 DEF StrictSubsetOrdering
  <2> QED BY <1>5, <1>6, <2>5
<1> QED BY <1>7

LEMMA HeuristicType ==
    ASSUME NEW fired \in BOOLEAN, NEW score \in 0 .. Unit
    PROVE  Heuristic(fired, score) \in Verdicts
BY DEF Heuristic, Verdicts

LEMMA SignatureType == ASSUME NEW f PROVE SignatureVerdict(f) \in Verdicts
<1> DEFINE S == {0} \cup {Confidence[r] : r \in Matches(f)}
<1>1. S \subseteq 0 .. Unit /\ S # {}
  <2>1. Matches(f) \subseteq Rules
    BY DEF Matches
  <2>2. Confidence \in [Rules -> 0 .. Unit]
    BY SignatureAssumption
  <2>3. 0 \in 0 .. Unit
    BY SureType
  <2> QED BY <2>1, <2>2, <2>3
<1>2. \E x \in S : \A y \in S : x >= y
  <2>1. PICK x \in S : \A y \in S : y <= x
    BY <1>1, MaxExists
  <2>2. \A y \in S : x >= y
    BY <2>1, <1>1
  <2> QED BY <2>2
<1>3. Max(S) \in S
  BY <1>2 DEF Max
<1>4. (Matches(f) # {}) \in BOOLEAN
  OBVIOUS
<1> HIDE DEF S
<1>5. Heuristic(Matches(f) # {}, Max(S)) \in Verdicts
  BY <1>1, <1>3, <1>4, HeuristicType
<1> QED BY <1>5 DEF SignatureVerdict, S

LEMMA BeaconType == ASSUME NEW times PROVE BeaconVerdict(times) \in Verdicts
<1> DEFINE levels == {k \in 0 .. Unit : CvAtMost(Usable(times), Unit - k)}
           best == CHOOSE k \in levels : \A l \in levels : l <= k
<1>1. 0 \in 0 .. Unit
  BY SureType
<1>2. levels \subseteq 0 .. Unit
  OBVIOUS
<1> HIDE DEF levels
<1>3. levels # {} => best \in 0 .. Unit
  BY <1>2, MaxExists
<1> HIDE DEF best
<1>4. Heuristic(FALSE, 0) \in Verdicts
  BY <1>1, HeuristicType
<1>5. Heuristic(levels # {}, IF levels = {} THEN 0 ELSE best) \in Verdicts
  BY <1>1, <1>3, HeuristicType
<1>6. BeaconVerdict(times) = IF Len(Usable(times)) < MinSamples - 1 THEN Heuristic(FALSE, 0)
                             ELSE Heuristic(levels # {}, IF levels = {} THEN 0 ELSE best)
  BY DEF BeaconVerdict, levels, best
<1> QED BY <1>4, <1>5, <1>6

LEMMA GraphType ==
    ASSUME NEW N, NEW nodeScores \in [N -> Answers], NEW f
    PROVE  GraphVerdict(nodeScores, f) \in Verdicts
<1>1. FireThreshold \in 0 .. Unit /\ 0 \in 0 .. Unit /\ Unit \in 0 .. Unit
  BY SureType, GraphAssumption
<1>2. CASE f.src \notin DOMAIN nodeScores
  BY <1>1, <1>2, HeuristicType DEF GraphVerdict
<1>3. CASE f.src \in DOMAIN nodeScores
  <2> DEFINE d == nodeScores[f.src]
  <2>1. d \in Answered
    BY <1>3, DetectionAssumption
  <2>2. Calibrate(d) \in 0 .. Unit /\ d.outlier \in BOOLEAN
    BY <1>1, <2>1 DEF Calibrate, Answered
  <2>3. (d.outlier /\ Calibrate(d) >= FireThreshold) \in BOOLEAN
    BY <2>2
  <2>4. GraphVerdict(nodeScores, f)
          = Heuristic(d.outlier /\ Calibrate(d) >= FireThreshold, Calibrate(d))
    BY <1>3 DEF GraphVerdict
  <2> HIDE DEF d
  <2> QED BY <2>2, <2>3, <2>4, HeuristicType
<1> QED BY <1>2, <1>3

LEMMA VerdictsOnType ==
    ASSUME NEW batch, NEW i \in 1 .. Len(batch), FlowOK(batch[i]),
           NEW N, NEW nodeScores \in [N -> Answers]
    PROVE  VerdictsOn(batch, i, nodeScores) \in VerdictSets
<1> DEFINE f == batch[i]
           V == VerdictsOn(batch, i, nodeScores)
<1>1. DOMAIN V = Running /\ Running \in SUBSET Detectors
  BY DEF VerdictsOn, Running
<1>2. ASSUME NEW d \in Running PROVE V[d] \in Verdicts
  <2>1. d \in {"volumetric", "supervised", "signature", "beaconing", "tgnn", "tripwire"}
    BY <1>1 DEF Detectors, Heuristics
  <2>2. CASE d = "volumetric"
    <3>1. V[d] = VerdictFromScoredFlow(f.volumetric)
      BY <2>2 DEF VerdictsOn
    <3> QED BY <3>1, HeuristicType DEF VerdictFromScoredFlow, FlowOK
  <2>3. CASE d = "supervised"
    <3>1. V[d] = VerdictFromSupervised(f.supervised)
      BY <2>3 DEF VerdictsOn
    <3> QED BY <3>1, HeuristicType DEF VerdictFromSupervised, FlowOK
  <2>4. CASE d = "tripwire"
    <3>1. V[d] = VerdictFromTripwire(f.honeytoken)
      BY <2>4 DEF VerdictsOn
    <3>2. 0 \in 0 .. Unit /\ Unit \in 0 .. Unit
      BY SureType
    <3> QED BY <3>1, <3>2 DEF VerdictFromTripwire, Heuristic, Verdicts
  <2>5. CASE d = "signature"
    <3>1. V[d] = SignatureVerdict(f)
      BY <2>5 DEF VerdictsOn
    <3> QED BY <3>1, SignatureType
  <2>6. CASE d = "beaconing"
    <3>1. V[d] = BeaconingVerdicts(history, batch)[i]
      BY <2>6 DEF VerdictsOn
    <3>2. \E times : V[d] = BeaconVerdict(times)
      BY <3>1 DEF BeaconingVerdicts
    <3> QED BY <3>2, BeaconType
  <2>7. CASE d = "tgnn"
    <3>1. V[d] = GraphVerdict(nodeScores, f)
      BY <2>7 DEF VerdictsOn
    <3> QED BY <3>1, GraphType
  <2> QED BY <2>1, <2>2, <2>3, <2>4, <2>5, <2>6, <2>7
<1>3. V \in [Running -> Verdicts]
  BY <1>1, <1>2 DEF VerdictsOn
<1> QED BY <1>1, <1>3 DEF VerdictSets

-----------------------------------------------------------------------------
(* Every answer the pipeline gives *)

\* The strengthening: a decision on record was fused from well-formed verdicts, about an
\* asset whose criticality and cascade are known.
Decided(d) ==
    /\ \E vs \in VerdictSets : d.fused = Fuse(vs)
    /\ Criticality[d.flow.src] \in 0 .. Unit /\ Impact[d.flow.src] \in 0 .. Unit

AllDecided == pointer \in Nat /\ \A i \in DOMAIN decisions : Decided(decisions[i])

LEMMA QuieterIsWeaker ==
    ASSUME NEW vs \in VerdictSets, NEW d \in FiredDetectors(vs)
    PROVE  LET quieter == [vs EXCEPT ![d] = Heuristic(FALSE, 0)]
           IN quieter \in VerdictSets /\ MoreEvidence(quieter, vs)
<1> DEFINE quieter == [vs EXCEPT ![d] = Heuristic(FALSE, 0)]
<1>1. Heuristic(FALSE, 0) \in Verdicts /\ ~Heuristic(FALSE, 0).fired
  <2>1. 0 \in 0 .. Unit
    BY SureType
  <2> QED BY <2>1 DEF Heuristic, Verdicts
<1>2. PICK D \in SUBSET Detectors : vs \in [D -> Verdicts]
  BY DEF VerdictSets
<1>3. quieter \in [D -> Verdicts] /\ quieter \in VerdictSets
  BY <1>1, <1>2 DEF VerdictSets
<1>4. \A e \in FiredDetectors(quieter) : e \in FiredDetectors(vs) /\ quieter[e] = vs[e]
  BY <1>1, <1>2, <1>3 DEF FiredDetectors
<1>5. \A e \in FiredDetectors(vs) : vs[e].score \in Nat
  BY <1>2 DEF Verdicts, FiredDetectors
<1>6. MoreEvidence(quieter, vs)
  <2> HIDE DEF quieter
  <2>1. ASSUME NEW e \in FiredDetectors(quieter)
        PROVE  e \in FiredDetectors(vs) /\ quieter[e] = vs[e] /\ quieter[e].score <= vs[e].score
    BY <1>4, <1>5
  <2> QED BY <2>1 DEF MoreEvidence
<1> QED BY <1>3, <1>6

LEMMA DecidedIsMonotone ==
    ASSUME NEW d, Decided(d)
    PROVE  LET fused == d.fused
               src == d.flow.src
               answer == TierRank[Decide(fused, Criticality[src], {Impact[src]})]
           IN /\ \A e \in FiredDetectors(fused.verdicts) :
                     LET quieter == Fuse([fused.verdicts EXCEPT ![e] = Heuristic(FALSE, 0)])
                     IN /\ BandRank[quieter.band] <= BandRank[fused.band]
                        /\ TierRank[Decide(quieter, Criticality[src], {Impact[src]})] <= answer
              /\ \A c \in 0 .. Criticality[src],
                     x \in {{k} : k \in 0 .. Impact[src]} \cup {{}} :
                     TierRank[Decide(fused, c, x)] <= answer
<1> DEFINE src == d.flow.src
           C == Criticality[src]
           I == Impact[src]
<1>1. PICK vs \in VerdictSets : d.fused = Fuse(vs)
  BY DEF Decided
<1>2. d.fused.verdicts = vs
  BY <1>1 DEF Fuse
<1>3. C \in Nat /\ I \in Nat
  BY SureType DEF Decided
<1> HIDE DEF C, I
<1>4. ASSUME NEW e \in FiredDetectors(vs)
      PROVE  LET quieter == Fuse([vs EXCEPT ![e] = Heuristic(FALSE, 0)])
             IN /\ BandRank[quieter.band] <= BandRank[Fuse(vs).band]
                /\ TierRank[Decide(quieter, C, {I})] <= TierRank[Decide(Fuse(vs), C, {I})]
  <2> DEFINE ws == [vs EXCEPT ![e] = Heuristic(FALSE, 0)]
  <2>1. ws \in VerdictSets /\ MoreEvidence(ws, vs)
    BY <1>4, QuieterIsWeaker
  <2> HIDE DEF ws
  <2>2. BandRank[Fuse(ws).band] <= BandRank[Fuse(vs).band]
    BY <2>1, FusionMonotone
  <2>3. C <= C
    BY <1>3
  <2>4. TierRank[Decide(Fuse(ws), C, {I})] <= TierRank[Decide(Fuse(vs), C, {I})]
    BY <1>3, <2>1, <2>3, AnswerMonotone
  <2> QED BY <2>2, <2>4 DEF ws
<1>5. ASSUME NEW c \in 0 .. C, NEW x \in {{k} : k \in 0 .. I} \cup {{}}
      PROVE  TierRank[Decide(Fuse(vs), c, x)] <= TierRank[Decide(Fuse(vs), C, {I})]
  <2>1. c \in Nat /\ c <= C
    BY <1>3
  <2>2. MoreEvidence(vs, vs)
    BY VerdictType DEF MoreEvidence, FiredDetectors, Verdicts
  <2>3. (\E k \in x : k >= QuarantineCii) => \E k \in {I} : k >= QuarantineCii
    <3>1. QuarantineCii \in Nat
      BY PolicyAssumption, SureType DEF PolicyInRange
    <3> QED BY <1>3, <3>1
  <2> QED BY <1>3, <2>1, <2>2, <2>3, AnswerMonotone
<1> QED BY <1>1, <1>2, <1>4, <1>5 DEF C, I

LEMMA ExamineDecides ==
    ASSUME NEW batch, NEW keys, NEW isInjected, NEW faults,
           Len(batch) \in Nat, \A i \in 1 .. Len(batch) : FlowOK(batch[i]),
           Examine(batch, keys, isInjected, faults)
    PROVE  \A i \in DOMAIN decisions' : Decided(decisions'[i])
<1>1. PICK fits \in BOOLEAN, commits \in BOOLEAN :
        LET m == FitBaseline(LiveGraph(graph, batch), fits)
        IN \E nodeScores \in [ScoredNodes(LiveGraph(graph, batch), m, batch) -> Answers] :
               \/ decisions' = <<>>
               \/ decisions' = [i \in 1 .. Len(batch) |->
                                    Decision(batch, i, nodeScores, isInjected)]
  BY DEF Examine
<1> DEFINE N == ScoredNodes(LiveGraph(graph, batch),
                            FitBaseline(LiveGraph(graph, batch), fits), batch)
<1>2. PICK nodeScores \in [N -> Answers] :
        \/ decisions' = <<>>
        \/ decisions' = [i \in 1 .. Len(batch) |-> Decision(batch, i, nodeScores, isInjected)]
  BY <1>1
<1> HIDE DEF N
<1>3. ASSUME NEW i \in 1 .. Len(batch)
      PROVE  Decided(Decision(batch, i, nodeScores, isInjected))
  <2> DEFINE vs == VerdictsOn(batch, i, nodeScores)
             d == Decision(batch, i, nodeScores, isInjected)
  <2>1. FlowOK(batch[i])
    OBVIOUS
  <2>2. vs \in VerdictSets
    BY <2>1, VerdictsOnType
  <2>3. d.fused = Fuse(vs) /\ d.flow = batch[i]
    BY DEF Decision
  <2>4. Criticality[batch[i].src] \in 0 .. Unit /\ Impact[batch[i].src] \in 0 .. Unit
    BY <2>1 DEF FlowOK
  <2> HIDE DEF d, vs
  <2>5. Decided(d)
    BY <2>2, <2>3, <2>4 DEF Decided
  <2> QED BY <2>5 DEF d
<1>4. CASE decisions' = <<>>
  BY <1>4
<1>5. CASE decisions' = [i \in 1 .. Len(batch) |-> Decision(batch, i, nodeScores, isInjected)]
  BY <1>3, <1>5
<1> QED BY <1>2, <1>4, <1>5

LEMMA StepDecides ==
    ASSUME AllDecided, [Next]_vars
    PROVE  AllDecided'
<1>1. CASE Replay
  <2>1. PICK n \in 1 .. MaxBatch, again \in BOOLEAN :
          /\ pointer + n <= Len(Capture)
          /\ pointer' = IF again THEN pointer ELSE pointer + n
          /\ Examine(SubSeq(Capture, pointer + 1, pointer + n),
                     [i \in 1 .. n |-> <<session, pointer + i>>], FALSE,
                     IF again THEN 1 ELSE 0)
    BY <1>1 DEF Replay
  <2> DEFINE batch == SubSeq(Capture, pointer + 1, pointer + n)
  <2>2. pointer \in Nat /\ n \in Nat
    BY DEF AllDecided
  <2>3. Capture \in Seq(ToSet(Capture)) /\ Len(Capture) \in Nat
    BY DetectionAssumption, LenProperties
  <2>4. Len(batch) = n
    BY <2>1, <2>2, <2>3
  <2>5. ASSUME NEW i \in 1 .. n PROVE FlowOK(batch[i])
    <3>1. batch[i] = Capture[pointer + i] /\ pointer + i \in 1 .. Len(Capture)
      BY <2>1, <2>2, <2>3
    <3>2. Capture[pointer + i] \in ToSet(Capture)
      BY <2>3, <3>1 DEF ToSet
    <3> QED BY <3>1, <3>2, DetectionAssumption
  <2> HIDE DEF batch
  <2>6. \A i \in DOMAIN decisions' : Decided(decisions'[i])
    BY <2>1, <2>2, <2>4, <2>5, ExamineDecides DEF batch
  <2>7. pointer' \in Nat
    BY <2>1, <2>2
  <2> QED BY <2>6, <2>7 DEF AllDecided, Decided
<1>2. CASE Restart
  BY <1>2 DEF Restart, AllDecided, Decided
<1>3. CASE Inject
  <2>1. PICK f \in ToSet(Pool) : Examine(<<f>>, <<<<0, injected'>>>>, TRUE, 0)
    BY <1>3 DEF Inject
  <2>2. FlowOK(f)
    BY DetectionAssumption
  <2>3. Len(<<f>>) \in Nat /\ \A i \in 1 .. Len(<<f>>) : FlowOK(<<f>>[i])
    BY <2>2
  <2>4. \A i \in DOMAIN decisions' : Decided(decisions'[i])
    BY <2>1, <2>3, ExamineDecides
  <2>5. pointer' = pointer
    BY <1>3 DEF Inject
  <2> QED BY <2>4, <2>5 DEF AllDecided, Decided
<1>4. CASE UNCHANGED vars
  BY <1>4 DEF vars, sourceVars, AllDecided, Decided
<1> QED BY <1>1, <1>2, <1>3, <1>4 DEF Next

\* Whatever the detectors, the capture, the weights, the thresholds and the criticalities
\* are, no answer the pipeline gives would have been stronger with one detector silent, a
\* less critical asset or a smaller cascade.
THEOREM AnswersGrowWithTheCase == Spec => []StrongerCaseStrongerAnswer
<1>1. Init => AllDecided
  BY DEF Init, AllDecided
<1>2. AllDecided /\ [Next]_vars => AllDecided'
  BY StepDecides
<1>3. AllDecided => StrongerCaseStrongerAnswer
  BY DecidedIsMonotone DEF AllDecided, StrongerCaseStrongerAnswer
<1> QED BY <1>1, <1>2, <1>3, PTL DEF Spec

-----------------------------------------------------------------------------
(* Lists in the order of use *)

\* Induction over the natural numbers, for a set of them.
LEMMA NatInduct ==
    ASSUME NEW S, 0 \in S, \A n \in Nat : n \in S => n + 1 \in S
    PROVE  \A n \in Nat : n \in S
<1> DEFINE T == Nat \ S
           R == OpToRel(<, Nat)
<1>1. IsWellFoundedOn(R, Nat)
  BY NatLessThanWellFounded
<1> SUFFICES ASSUME T # {} PROVE FALSE
  OBVIOUS
<1>2. PICK x \in T : \A y \in T : ~ (<<y, x>> \in R)
  BY <1>1, WFMin
<1>3. x \in Nat /\ x # 0 /\ x - 1 \in Nat /\ x - 1 \in T
  OBVIOUS
<1>4. <<x - 1, x>> \in R
  BY <1>3 DEF OpToRel
<1> QED BY <1>2, <1>3, <1>4

LEMMA RemovedAt ==
    ASSUME NEW S, NEW s \in Seq(S), NEW k \in 1 .. Len(s)
    PROVE  /\ RemoveAt(s, k) \in Seq(S) /\ Len(RemoveAt(s, k)) = Len(s) - 1
           /\ \A i \in 1 .. Len(s) - 1 :
                 RemoveAt(s, k)[i] = IF i < k THEN s[i] ELSE s[i + 1]
<1> DEFINE u == SubSeq(s, 1, k - 1)
           v == SubSeq(s, k + 1, Len(s))
<1>1. Len(s) \in Nat
  OBVIOUS
<1>2. u \in Seq(S) /\ Len(u) = k - 1 /\ \A i \in 1 .. k - 1 : u[i] = s[i]
  BY <1>1
<1>3. v \in Seq(S) /\ Len(v) = Len(s) - k /\ \A i \in 1 .. Len(s) - k : v[i] = s[k + i]
  BY <1>1
<1> HIDE DEF u, v
<1>4. /\ u \o v \in Seq(S) /\ Len(u \o v) = Len(s) - 1
      /\ \A i \in 1 .. Len(s) - 1 : (u \o v)[i] = IF i <= Len(u) THEN u[i] ELSE v[i - Len(u)]
  <2>1. /\ u \o v \in Seq(S) /\ Len(u \o v) = Len(u) + Len(v)
        /\ \A i \in 1 .. Len(u) + Len(v) :
              (u \o v)[i] = IF i <= Len(u) THEN u[i] ELSE v[i - Len(u)]
    BY <1>2, <1>3, ConcatProperties
  <2>2. Len(u) + Len(v) = Len(s) - 1
    BY <1>1, <1>2, <1>3
  <2> HIDE DEF u, v
  <2> QED BY <2>1, <2>2
<1>5. ASSUME NEW i \in 1 .. Len(s) - 1
      PROVE  (u \o v)[i] = IF i < k THEN s[i] ELSE s[i + 1]
  <2>1. CASE i < k
    BY <1>1, <1>2, <1>4, <2>1
  <2>2. CASE ~(i < k)
    <3>1. ~(i <= Len(u)) /\ i - Len(u) \in 1 .. Len(s) - k /\ k + (i - Len(u)) = i + 1
      BY <1>1, <1>2, <2>2
    <3> QED BY <1>3, <1>4, <2>2, <3>1
  <2> QED BY <2>1, <2>2
<1> QED BY <1>4, <1>5 DEF RemoveAt, u, v

\* What a list in the order of use holds after x was used.
LEMMA UsedFacts ==
    ASSUME NEW S, NEW s \in Seq(S), NEW x \in S, NEW n \in Nat \ {0}
    PROVE  /\ Used(s, x, n) \in Seq(S)
           /\ Len(Used(s, x, n)) \in 1 .. n
           /\ Used(s, x, n)[Len(Used(s, x, n))] = x
           /\ ToSet(Used(s, x, n)) \subseteq ToSet(s) \cup {x}
           /\ x \in ToSet(Used(s, x, n))
           /\ s # <<>> /\ n > 1 => s[Len(s)] \in ToSet(Used(s, x, n))
<1> DEFINE at == {i \in DOMAIN s : s[i] = x}
           others == IF at = {} THEN s ELSE RemoveAt(s, CHOOSE i \in at : TRUE)
           moved == Append(others, x)
           from == IF Len(moved) > n THEN Len(moved) - n + 1 ELSE 1
           used == SubSeq(moved, from, Len(moved))
<1>1. Len(s) \in Nat /\ DOMAIN s = 1 .. Len(s)
  OBVIOUS
<1>2. /\ others \in Seq(S) /\ \A i \in 1 .. Len(others) : others[i] \in ToSet(s)
      /\ s # <<>> /\ s[Len(s)] # x => others # <<>> /\ others[Len(others)] = s[Len(s)]
  <2>1. CASE at = {}
    BY <1>1, <2>1 DEF ToSet
  <2>2. CASE at # {}
    <3> DEFINE k == CHOOSE i \in at : TRUE
    <3>1. k \in 1 .. Len(s) /\ s[k] = x
      BY <1>1, <2>2
    <3>2. others = RemoveAt(s, k)
      BY <2>2
    <3> HIDE DEF k, others, at
    <3>3. /\ others \in Seq(S) /\ Len(others) = Len(s) - 1
          /\ \A i \in 1 .. Len(s) - 1 : others[i] = IF i < k THEN s[i] ELSE s[i + 1]
      BY <3>1, <3>2, RemovedAt
    <3>4. \A i \in 1 .. Len(others) : others[i] \in ToSet(s)
      BY <1>1, <3>3 DEF ToSet
    <3>5. ASSUME s[Len(s)] # x
          PROVE  others # <<>> /\ others[Len(others)] = s[Len(s)]
      <4>1. k < Len(s) /\ Len(s) - 1 \in 1 .. Len(s) - 1
        BY <1>1, <3>1, <3>5
      <4>2. ~(Len(s) - 1 < k) /\ (Len(s) - 1) + 1 = Len(s)
        BY <1>1, <3>1, <4>1
      <4> QED BY <3>3, <4>1, <4>2
    <3> QED BY <3>3, <3>4, <3>5
  <2> QED BY <2>1, <2>2
<1> HIDE DEF others
<1>3. /\ moved \in Seq(S) /\ Len(moved) = Len(others) + 1 /\ moved[Len(moved)] = x
      /\ \A i \in 1 .. Len(others) : moved[i] = others[i]
  BY <1>2
<1>4. Len(others) \in Nat
  BY <1>2
<1> HIDE DEF moved
<1>5. from \in 1 .. Len(moved) /\ Len(moved) - from + 1 \in 1 .. n
      /\ (n > 1 /\ Len(moved) > 1 => from < Len(moved))
  BY <1>3, <1>4
<1> HIDE DEF from
<1>6. /\ used \in Seq(S) /\ Len(used) = Len(moved) - from + 1
      /\ \A i \in 1 .. Len(moved) - from + 1 : used[i] = moved[from + i - 1]
  BY <1>3, <1>4, <1>5
<1>7. Used(s, x, n) = used
  BY DEF Used, used, from, moved, others
<1> HIDE DEF used
<1>8. Len(used) \in 1 .. n /\ used[Len(used)] = x /\ DOMAIN used = 1 .. Len(used)
  BY <1>3, <1>4, <1>5, <1>6
<1>9. x \in ToSet(used)
  BY <1>8 DEF ToSet
<1>10. ToSet(used) \subseteq ToSet(s) \cup {x}
  <2> SUFFICES ASSUME NEW i \in 1 .. Len(used) PROVE used[i] \in ToSet(s) \cup {x}
    BY <1>8 DEF ToSet
  <2>1. from + i - 1 \in 1 .. Len(moved) /\ used[i] = moved[from + i - 1]
    BY <1>3, <1>4, <1>5, <1>6
  <2>2. from + i - 1 = Len(moved) \/ from + i - 1 \in 1 .. Len(others)
    BY <1>3, <1>4, <2>1
  <2> QED BY <1>2, <1>3, <2>1, <2>2
<1>11. ASSUME s # <<>>, n > 1
       PROVE  s[Len(s)] \in ToSet(used)
  <2>1. CASE s[Len(s)] = x
    BY <1>9, <2>1
  <2>2. CASE s[Len(s)] # x
    <3>1. others # <<>> /\ others[Len(others)] = s[Len(s)]
      BY <1>2, <1>11, <2>2
    <3>2. Len(others) \in 1 .. Len(others)
      BY <1>2, <1>4, <3>1
    <3>3. moved[Len(others)] = s[Len(s)]
      BY <1>3, <3>1, <3>2
    <3>4. Len(used) - 1 \in 1 .. Len(used) /\ from + (Len(used) - 1) - 1 = Len(others)
          /\ Len(used) - 1 \in 1 .. Len(moved) - from + 1
      BY <1>3, <1>4, <1>5, <1>6, <1>11, <3>2
    <3>5. used[Len(used) - 1] = s[Len(s)]
      BY <1>6, <3>3, <3>4
    <3> QED BY <1>8, <3>4, <3>5 DEF ToSet
  <2> QED BY <2>1, <2>2
<1> QED BY <1>6, <1>7, <1>8, <1>9, <1>10, <1>11

-----------------------------------------------------------------------------
(* The graph and its history *)

Flows == ToSet(Capture) \cup ToSet(Pool)
Addresses == {f.src : f \in Flows} \cup {f.dst : f \in Flows}

EdgesFit(nodes, edges) == \A e \in DOMAIN edges : {e[1], e[2]} \subseteq ToSet(nodes)

\* The history of peers is one of the nodes there are, bounded, and of contacts in pairs.
HistoryFits(nodes, outPeers, pairs) ==
    /\ DOMAIN outPeers \subseteq ToSet(nodes)
    /\ \A n \in DOMAIN outPeers :
          /\ outPeers[n] \in Seq(Addresses) /\ Len(outPeers[n]) <= MaxPeers
          /\ \A d \in ToSet(outPeers[n]) : <<n, d>> \in pairs

GraphFits(g, pairs) ==
    /\ g = [nodes |-> g.nodes, edges |-> g.edges, outPeers |-> g.outPeers]
    /\ g.nodes \in Seq(Addresses)
    /\ EdgesFit(g.nodes, g.edges)
    /\ HistoryFits(g.nodes, g.outPeers, pairs)

LEMMA FlowAddresses ==
    ASSUME NEW f \in Flows
    PROVE  f.src \in Addresses /\ f.dst \in Addresses
BY DEF Addresses

LEMMA NodeAdded ==
    ASSUME NEW g, NEW pairs, GraphFits(g, pairs), NEW ip \in Addresses
    PROVE  /\ GraphFits(AddNode(g, ip), pairs)
           /\ ip \in ToSet(AddNode(g, ip).nodes)
           /\ AddNode(g, ip).nodes # <<>>
           /\ AddNode(g, ip).nodes[Len(AddNode(g, ip).nodes)] = ip
           /\ g.nodes # <<>> => g.nodes[Len(g.nodes)] \in ToSet(AddNode(g, ip).nodes)
<1> DEFINE h == AddNode(g, ip)
           nodes == Used(g.nodes, ip, MaxNodes)
           evicted == ToSet(g.nodes) \ ToSet(nodes)
           edges == Without(g.edges, {e \in DOMAIN g.edges : {e[1], e[2]} \cap evicted # {}})
           outPeers == Without(g.outPeers, evicted)
<1>1. h = [nodes |-> nodes, edges |-> edges, outPeers |-> outPeers]
  BY DEF AddNode
<1>2. MaxNodes \in Nat \ {0} /\ MaxNodes > 1
  BY GraphAssumption DEF NodesInRange
<1>3. g.nodes \in Seq(Addresses)
  BY DEF GraphFits
<1>4. /\ nodes \in Seq(Addresses) /\ Len(nodes) \in 1 .. MaxNodes /\ nodes[Len(nodes)] = ip
      /\ ip \in ToSet(nodes)
      /\ g.nodes # <<>> => g.nodes[Len(g.nodes)] \in ToSet(nodes)
  BY <1>2, <1>3, UsedFacts
<1>5. nodes # <<>>
  BY <1>4
<1>6. EdgesFit(nodes, edges)
  <2> SUFFICES ASSUME NEW e \in DOMAIN edges PROVE {e[1], e[2]} \subseteq ToSet(nodes)
    BY DEF EdgesFit
  <2>1. e \in DOMAIN g.edges /\ ~({e[1], e[2]} \cap evicted # {})
    BY DEF Without
  <2>2. {e[1], e[2]} \subseteq ToSet(g.nodes)
    BY <2>1 DEF GraphFits, EdgesFit
  <2> QED BY <2>1, <2>2
<1>7. HistoryFits(nodes, outPeers, pairs)
  <2>1. DOMAIN outPeers = DOMAIN g.outPeers \ evicted
        /\ \A n \in DOMAIN outPeers : outPeers[n] = g.outPeers[n]
    BY DEF Without
  <2>2. HistoryFits(g.nodes, g.outPeers, pairs)
    BY DEF GraphFits
  <2>3. DOMAIN outPeers \subseteq ToSet(nodes)
    BY <2>1, <2>2 DEF HistoryFits
  <2> HIDE DEF outPeers, nodes, evicted
  <2> QED BY <2>1, <2>2, <2>3 DEF HistoryFits
<1> HIDE DEF nodes, edges, outPeers, h
<1>8. h.nodes = nodes /\ h.edges = edges /\ h.outPeers = outPeers
  BY <1>1
<1>9. GraphFits(h, pairs)
  BY <1>1, <1>4, <1>6, <1>7, <1>8 DEF GraphFits
<1> QED BY <1>4, <1>5, <1>8, <1>9 DEF h

LEMMA FlowAdded ==
    ASSUME NEW g, NEW pairs, GraphFits(g, pairs), NEW f \in Flows
    PROVE  GraphFits(AddFlow(g, f), pairs)
<1> DEFINE one == AddNode(g, f.src)
           placed == AddNode(one, f.dst)
           edge == <<f.src, f.dst>>
           edges == [e \in DOMAIN placed.edges \cup {edge} |->
                         IF e = edge THEN f.ts ELSE placed.edges[e]]
<1>1. f.src \in Addresses /\ f.dst \in Addresses
  BY FlowAddresses
<1>2. /\ GraphFits(one, pairs) /\ one.nodes # <<>> /\ one.nodes[Len(one.nodes)] = f.src
  BY <1>1, NodeAdded
<1> HIDE DEF one
<1>3. /\ GraphFits(placed, pairs) /\ f.dst \in ToSet(placed.nodes)
      /\ f.src \in ToSet(placed.nodes)
  BY <1>1, <1>2, NodeAdded
<1>4. AddFlow(g, f) = [placed EXCEPT !.edges = edges]
  BY DEF AddFlow, placed, one
<1> HIDE DEF placed
<1>5. EdgesFit(placed.nodes, edges)
  <2> SUFFICES ASSUME NEW e \in DOMAIN edges PROVE {e[1], e[2]} \subseteq ToSet(placed.nodes)
    BY DEF EdgesFit
  <2>1. CASE e = edge
    BY <1>3, <2>1
  <2>2. CASE e # edge
    BY <1>3, <2>2 DEF GraphFits, EdgesFit
  <2> QED BY <2>1, <2>2
<1> HIDE DEF edges
<1>6. AddFlow(g, f) = [nodes |-> placed.nodes, edges |-> edges, outPeers |-> placed.outPeers]
  BY <1>3, <1>4 DEF GraphFits
<1> QED BY <1>3, <1>5, <1>6 DEF GraphFits

LEMMA OldEdgesPruned ==
    ASSUME NEW g, NEW pairs, GraphFits(g, pairs)
    PROVE  /\ GraphFits(PruneOldEdges(g), pairs)
           /\ PruneOldEdges(g).outPeers = g.outPeers /\ PruneOldEdges(g).nodes = g.nodes
<1>1. CASE g.edges = <<>>
  BY <1>1 DEF PruneOldEdges
<1>2. CASE g.edges # <<>>
  <2> DEFINE now == Max({g.edges[e] : e \in DOMAIN g.edges})
             old == {e \in DOMAIN g.edges : g.edges[e] < now - Window}
             edges == Without(g.edges, old)
  <2>1. PruneOldEdges(g) = [g EXCEPT !.edges = edges]
    BY <1>2 DEF PruneOldEdges
  <2>2. DOMAIN edges \subseteq DOMAIN g.edges
    BY DEF Without
  <2> HIDE DEF edges
  <2>3. PruneOldEdges(g) = [nodes |-> g.nodes, edges |-> edges, outPeers |-> g.outPeers]
    BY <2>1 DEF GraphFits
  <2> QED BY <2>2, <2>3 DEF GraphFits, EdgesFit
<1> QED BY <1>1, <1>2

\* The graphs on the way through a batch.
LEMMA PlacedSteps ==
    ASSUME NEW g, NEW batch, Len(batch) \in Nat
    PROVE  \E after :
             /\ after[0] = g
             /\ \A i \in 1 .. Len(batch) : after[i] = AddFlow(after[i - 1], batch[i])
             /\ Placed(g, batch) = after[Len(batch)]
<1> DEFINE Step(n, x) == AddFlow(x, batch[n])
           Steps(f, k) == f = [i \in 0 .. k |-> IF i = 0 THEN g ELSE AddFlow(f[i - 1], batch[i])]
           S == {k \in Nat : \E f : Steps(f, k)}
<1>1. 0 \in S
  <2>1. Steps([i \in 0 .. 0 |-> g], 0)
    OBVIOUS
  <2> QED BY <2>1
<1>2. ASSUME NEW k \in Nat, k \in S PROVE k + 1 \in S
  <2>1. PICK f : Steps(f, k)
    BY <1>2
  <2> DEFINE h == [i \in 0 .. k + 1 |-> IF i <= k THEN f[i] ELSE Step(k + 1, f[k])]
  <2>2. \A i \in 0 .. k : h[i] = f[i]
    OBVIOUS
  <2>3. h[k + 1] = Step(k + 1, f[k])
    OBVIOUS
  <2>4. f[0] = g /\ \A i \in 1 .. k : f[i] = Step(i, f[i - 1])
    <3>1. \A i \in 0 .. k : f[i] = IF i = 0 THEN g ELSE Step(i, f[i - 1])
      BY <2>1
    <3>2. 0 \in 0 .. k /\ \A i \in 1 .. k : i \in 0 .. k /\ i # 0
      OBVIOUS
    <3> HIDE DEF Step
    <3> QED BY <3>1, <3>2
  <2>5. \A i \in 0 .. k + 1 : h[i] = IF i = 0 THEN g ELSE Step(i, h[i - 1])
    <3> SUFFICES ASSUME NEW i \in 0 .. k + 1
                 PROVE  h[i] = IF i = 0 THEN g ELSE Step(i, h[i - 1])
      OBVIOUS
    <3> HIDE DEF h, Step
    <3>1. CASE i = 0
      BY <3>1, <2>2, <2>4
    <3>2. CASE i \in 1 .. k
      <4>1. i - 1 \in 0 .. k /\ i \in 0 .. k
        BY <3>2
      <4> QED BY <3>2, <4>1, <2>2, <2>4
    <3>3. CASE i = k + 1
      <4>1. i - 1 = k /\ k \in 0 .. k /\ i # 0
        BY <3>3
      <4> QED BY <3>3, <4>1, <2>2, <2>3
    <3> QED BY <3>1, <3>2, <3>3
  <2>6. h = [i \in 0 .. k + 1 |-> h[i]]
    OBVIOUS
  <2>7. h = [i \in 0 .. k + 1 |-> IF i = 0 THEN g ELSE Step(i, h[i - 1])]
    <3> HIDE DEF h, Step
    <3> QED BY <2>5, <2>6
  <2>8. Steps(h, k + 1)
    <3> HIDE DEF h
    <3> QED BY <2>7
  <2>9. k + 1 \in Nat
    OBVIOUS
  <2> HIDE DEF h, Steps
  <2> QED BY <2>8, <2>9
<1>3. \A k \in Nat : k \in S
  <2> HIDE DEF S
  <2> QED BY <1>1, <1>2, NatInduct
<1> DEFINE after == CHOOSE f : Steps(f, Len(batch))
<1>4. Steps(after, Len(batch))
  BY <1>3
<1>5. Placed(g, batch) = after[Len(batch)]
  BY DEF Placed
<1> HIDE DEF after
<1>6. \A i \in 0 .. Len(batch) : after[i] = IF i = 0 THEN g ELSE Step(i, after[i - 1])
  BY <1>4
<1>7. after[0] = g /\ \A i \in 1 .. Len(batch) : after[i] = Step(i, after[i - 1])
  <2>1. 0 \in 0 .. Len(batch) /\ \A i \in 1 .. Len(batch) : i \in 0 .. Len(batch) /\ i # 0
    OBVIOUS
  <2> HIDE DEF Step
  <2> QED BY <1>6, <2>1
<1> QED BY <1>5, <1>7

LEMMA BatchPlaced ==
    ASSUME NEW g, NEW pairs, GraphFits(g, pairs), NEW batch \in Seq(Flows)
    PROVE  GraphFits(LiveGraph(g, batch), pairs)
<1>1. Len(batch) \in Nat
  OBVIOUS
<1>2. PICK after :
         /\ after[0] = g
         /\ \A i \in 1 .. Len(batch) : after[i] = AddFlow(after[i - 1], batch[i])
         /\ Placed(g, batch) = after[Len(batch)]
  BY <1>1, PlacedSteps
<1> DEFINE S == {n \in Nat : n <= Len(batch) => GraphFits(after[n], pairs)}
<1>3. 0 \in S
  BY <1>2
<1>4. ASSUME NEW n \in Nat, n \in S PROVE n + 1 \in S
  <2> SUFFICES ASSUME n + 1 <= Len(batch) PROVE GraphFits(after[n + 1], pairs)
    OBVIOUS
  <2>1. GraphFits(after[n], pairs)
    BY <1>1, <1>4
  <2>2. n + 1 \in 1 .. Len(batch) /\ (n + 1) - 1 = n
    BY <1>1
  <2>3. batch[n + 1] \in Flows
    BY <2>2
  <2>4. after[n + 1] = AddFlow(after[n], batch[n + 1])
    BY <1>2, <2>2
  <2> QED BY <2>1, <2>3, <2>4, FlowAdded
<1>5. \A n \in Nat : n \in S
  <2> HIDE DEF S
  <2> QED BY <1>3, <1>4, NatInduct
<1>6. GraphFits(Placed(g, batch), pairs)
  BY <1>1, <1>2, <1>5
<1> QED BY <1>6, OldEdgesPruned DEF LiveGraph

LEMMA MoreContacts ==
    ASSUME NEW nodes, NEW outPeers, NEW pairs, NEW more, pairs \subseteq more,
           HistoryFits(nodes, outPeers, pairs)
    PROVE  HistoryFits(nodes, outPeers, more)
BY DEF HistoryFits

LEMMA FlowMerged ==
    ASSUME NEW h, NEW pairs, NEW f \in Flows, PairKey(f) \in pairs,
           h = [nodes |-> h.nodes, outPeers |-> h.outPeers, destinations |-> h.destinations],
           HistoryFits(h.nodes, h.outPeers, pairs)
    PROVE  LET m == MergeFlow(h, f)
           IN /\ m = [nodes |-> h.nodes, outPeers |-> m.outPeers, destinations |-> m.destinations]
              /\ HistoryFits(h.nodes, m.outPeers, pairs)
<1> DEFINE known == IF f.src \in DOMAIN h.outPeers THEN h.outPeers[f.src] ELSE <<>>
           used == Used(known, f.dst, MaxPeers)
           outPeers == [n \in DOMAIN h.outPeers \cup {f.src} |->
                            IF n = f.src THEN used ELSE h.outPeers[n]]
           dests == Used(h.destinations, f.dst, MaxNodes)
           m == MergeFlow(h, f)
<1>1. CASE f.src \notin ToSet(h.nodes)
  <2>1. m = h
    BY <1>1 DEF MergeFlow
  <2> HIDE DEF m
  <2> QED BY <2>1 DEF m
<1>2. CASE f.src \in ToSet(h.nodes)
  <2>1. m = [h EXCEPT !.outPeers = outPeers, !.destinations = dests]
    BY <1>2 DEF MergeFlow
  <2> HIDE DEF outPeers, dests, m
  <2>2. m = [nodes |-> h.nodes, outPeers |-> outPeers, destinations |-> dests]
    BY <2>1
  <2>3. f.src \in Addresses /\ f.dst \in Addresses
    BY FlowAddresses
  <2>4. known \in Seq(Addresses) /\ \A d \in ToSet(known) : <<f.src, d>> \in pairs
    <3>1. CASE f.src \in DOMAIN h.outPeers
      <4>1. known = h.outPeers[f.src]
        BY <3>1
      <4>2. h.outPeers[f.src] \in Seq(Addresses)
            /\ \A d \in ToSet(h.outPeers[f.src]) : <<f.src, d>> \in pairs
        BY <3>1 DEF HistoryFits
      <4> HIDE DEF known
      <4> QED BY <4>1, <4>2
    <3>2. CASE f.src \notin DOMAIN h.outPeers
      <4>1. known = <<>> /\ ToSet(<<>>) = {}
        BY <3>2 DEF ToSet
      <4> HIDE DEF known
      <4> QED BY <4>1
    <3> QED BY <3>1, <3>2
  <2>5. MaxPeers \in Nat \ {0}
    BY GraphAssumption DEF NodesInRange
  <2> HIDE DEF known
  <2>6. /\ used \in Seq(Addresses) /\ Len(used) \in 1 .. MaxPeers
        /\ ToSet(used) \subseteq ToSet(known) \cup {f.dst}
    BY <2>3, <2>4, <2>5, UsedFacts
  <2>7. \A d \in ToSet(used) : <<f.src, d>> \in pairs
    BY <2>4, <2>6 DEF PairKey
  <2> HIDE DEF used
  <2>8. DOMAIN outPeers = DOMAIN h.outPeers \cup {f.src}
        /\ outPeers[f.src] = used
        /\ \A n \in DOMAIN h.outPeers : n # f.src => outPeers[n] = h.outPeers[n]
    BY DEF outPeers
  <2>9. HistoryFits(h.nodes, outPeers, pairs)
    <3>1. DOMAIN outPeers \subseteq ToSet(h.nodes)
      BY <1>2, <2>8 DEF HistoryFits
    <3> SUFFICES ASSUME NEW n \in DOMAIN outPeers
                 PROVE  /\ outPeers[n] \in Seq(Addresses) /\ Len(outPeers[n]) <= MaxPeers
                        /\ \A d \in ToSet(outPeers[n]) : <<n, d>> \in pairs
      BY <3>1 DEF HistoryFits
    <3>2. CASE n = f.src
      BY <2>5, <2>6, <2>7, <2>8, <3>2
    <3>3. CASE n # f.src
      <4>1. n \in DOMAIN h.outPeers /\ outPeers[n] = h.outPeers[n]
        BY <2>8, <3>3
      <4> QED BY <4>1 DEF HistoryFits
    <3> QED BY <3>2, <3>3
  <2> QED BY <2>2, <2>9 DEF m
<1> QED BY <1>1, <1>2

\* The histories on the way through a batch.
LEMMA MergedSteps ==
    ASSUME NEW g, NEW batch, Len(batch) \in Nat
    PROVE  \E after :
             /\ after[0] = [nodes |-> g.nodes, outPeers |-> g.outPeers,
                            destinations |-> destinations]
             /\ \A i \in 1 .. Len(batch) : after[i] = MergeFlow(after[i - 1], batch[i])
             /\ Merged(g, batch) = after[Len(batch)]
<1> DEFINE base == [nodes |-> g.nodes, outPeers |-> g.outPeers, destinations |-> destinations]
           Step(n, x) == MergeFlow(x, batch[n])
           Steps(f, k) == f = [i \in 0 .. k |->
                                  IF i = 0
                                  THEN [nodes |-> g.nodes, outPeers |-> g.outPeers,
                                        destinations |-> destinations]
                                  ELSE MergeFlow(f[i - 1], batch[i])]
           S == {k \in Nat : \E f : Steps(f, k)}
<1>1. 0 \in S
  <2>1. Steps([i \in 0 .. 0 |-> base], 0)
    OBVIOUS
  <2> QED BY <2>1
<1>2. ASSUME NEW k \in Nat, k \in S PROVE k + 1 \in S
  <2>1. PICK f : Steps(f, k)
    BY <1>2
  <2> DEFINE h == [i \in 0 .. k + 1 |-> IF i <= k THEN f[i] ELSE Step(k + 1, f[k])]
  <2>2. \A i \in 0 .. k : h[i] = f[i]
    OBVIOUS
  <2>3. h[k + 1] = Step(k + 1, f[k])
    OBVIOUS
  <2>4. f[0] = base /\ \A i \in 1 .. k : f[i] = Step(i, f[i - 1])
    <3>1. \A i \in 0 .. k : f[i] = IF i = 0 THEN base ELSE Step(i, f[i - 1])
      BY <2>1
    <3>2. 0 \in 0 .. k /\ \A i \in 1 .. k : i \in 0 .. k /\ i # 0
      OBVIOUS
    <3> HIDE DEF Step, base
    <3> QED BY <3>1, <3>2
  <2>5. \A i \in 0 .. k + 1 : h[i] = IF i = 0 THEN base ELSE Step(i, h[i - 1])
    <3> SUFFICES ASSUME NEW i \in 0 .. k + 1
                 PROVE  h[i] = IF i = 0 THEN base ELSE Step(i, h[i - 1])
      OBVIOUS
    <3> HIDE DEF h, Step, base
    <3>1. CASE i = 0
      BY <3>1, <2>2, <2>4
    <3>2. CASE i \in 1 .. k
      <4>1. i - 1 \in 0 .. k /\ i \in 0 .. k
        BY <3>2
      <4> QED BY <3>2, <4>1, <2>2, <2>4
    <3>3. CASE i = k + 1
      <4>1. i - 1 = k /\ k \in 0 .. k /\ i # 0
        BY <3>3
      <4> QED BY <3>3, <4>1, <2>2, <2>3
    <3> QED BY <3>1, <3>2, <3>3
  <2>6. h = [i \in 0 .. k + 1 |-> h[i]]
    OBVIOUS
  <2>7. h = [i \in 0 .. k + 1 |-> IF i = 0 THEN base ELSE Step(i, h[i - 1])]
    <3> HIDE DEF h, Step, base
    <3> QED BY <2>5, <2>6
  <2>8. Steps(h, k + 1)
    <3> HIDE DEF h
    <3> QED BY <2>7
  <2>9. k + 1 \in Nat
    OBVIOUS
  <2> HIDE DEF h, Steps
  <2> QED BY <2>8, <2>9
<1>3. \A k \in Nat : k \in S
  <2> HIDE DEF S
  <2> QED BY <1>1, <1>2, NatInduct
<1> DEFINE after == CHOOSE f : Steps(f, Len(batch))
<1>4. Steps(after, Len(batch))
  BY <1>3
<1>5. Merged(g, batch) = after[Len(batch)]
  BY DEF Merged
<1> HIDE DEF after
<1>6. \A i \in 0 .. Len(batch) : after[i] = IF i = 0 THEN base ELSE Step(i, after[i - 1])
  BY <1>4
<1>7. after[0] = base /\ \A i \in 1 .. Len(batch) : after[i] = Step(i, after[i - 1])
  <2>1. 0 \in 0 .. Len(batch) /\ \A i \in 1 .. Len(batch) : i \in 0 .. Len(batch) /\ i # 0
    OBVIOUS
  <2> HIDE DEF Step, base
  <2> QED BY <1>6, <2>1
<1> QED BY <1>5, <1>7

LEMMA BatchMerged ==
    ASSUME NEW g, NEW pairs, HistoryFits(g.nodes, g.outPeers, pairs),
           NEW batch \in Seq(Flows), \A i \in 1 .. Len(batch) : PairKey(batch[i]) \in pairs
    PROVE  HistoryFits(g.nodes, Merged(g, batch).outPeers, pairs)
<1> DEFINE nodes == g.nodes
           Fits(h) == /\ h = [nodes |-> nodes, outPeers |-> h.outPeers,
                              destinations |-> h.destinations]
                      /\ HistoryFits(nodes, h.outPeers, pairs)
<1>1. Len(batch) \in Nat
  OBVIOUS
<1>2. PICK after :
         /\ after[0] = [nodes |-> nodes, outPeers |-> g.outPeers, destinations |-> destinations]
         /\ \A i \in 1 .. Len(batch) : after[i] = MergeFlow(after[i - 1], batch[i])
         /\ Merged(g, batch) = after[Len(batch)]
  BY <1>1, MergedSteps
<1> DEFINE S == {n \in Nat : n <= Len(batch) => Fits(after[n])}
<1>3. 0 \in S
  BY <1>2
<1>4. ASSUME NEW n \in Nat, n \in S PROVE n + 1 \in S
  <2> SUFFICES ASSUME n + 1 <= Len(batch) PROVE Fits(after[n + 1])
    OBVIOUS
  <2>1. Fits(after[n])
    BY <1>1, <1>4
  <2>2. n + 1 \in 1 .. Len(batch) /\ (n + 1) - 1 = n
    BY <1>1
  <2>3. batch[n + 1] \in Flows /\ PairKey(batch[n + 1]) \in pairs
    BY <2>2
  <2>4. after[n + 1] = MergeFlow(after[n], batch[n + 1])
    BY <1>2, <2>2
  <2>5. ASSUME NEW h, Fits(h) PROVE Fits(MergeFlow(h, batch[n + 1]))
    <3>1. h.nodes = nodes
      BY <2>5
    <3>2. h = [nodes |-> h.nodes, outPeers |-> h.outPeers, destinations |-> h.destinations]
          /\ HistoryFits(h.nodes, h.outPeers, pairs)
      BY <2>5, <3>1
    <3> HIDE DEF nodes
    <3> QED BY <2>3, <3>1, <3>2, FlowMerged
  <2> HIDE DEF Fits
  <2> QED BY <2>1, <2>4, <2>5
<1>5. \A n \in Nat : n \in S
  <2> HIDE DEF S
  <2> QED BY <1>3, <1>4, NatInduct
<1>6. Fits(Merged(g, batch))
  <2>1. Len(batch) \in S
    BY <1>1, <1>5
  <2> HIDE DEF Fits
  <2> QED BY <1>1, <1>2, <2>1
<1> QED BY <1>6

\* The pairs seen so far.
PairsOf(flows) == {PairKey(f) : f \in ToSet(flows)}

LEMMA GraphExamined ==
    ASSUME GraphFits(graph, PairsOf(log)), log \in Seq(Flows), NEW batch \in Seq(Flows),
           NEW fits, GraphExamine(batch, fits) \/ UNCHANGED graphVars, log' = log \o batch
    PROVE  GraphFits(graph, PairsOf(log))' /\ (log \in Seq(Flows))'
<1>1. /\ log' \in Seq(Flows) /\ Len(log') = Len(log) + Len(batch)
      /\ \A i \in 1 .. Len(log) : log'[i] = log[i]
      /\ \A i \in 1 .. Len(batch) : log'[Len(log) + i] = batch[i]
  <2>1. /\ log \o batch \in Seq(Flows) /\ Len(log \o batch) = Len(log) + Len(batch)
        /\ \A i \in 1 .. Len(log) + Len(batch) :
              (log \o batch)[i] = IF i <= Len(log) THEN log[i] ELSE batch[i - Len(log)]
    BY ConcatProperties
  <2>2. Len(log) \in Nat /\ Len(batch) \in Nat
    OBVIOUS
  <2> QED BY <2>1, <2>2
<1>2. Len(log) \in Nat /\ Len(batch) \in Nat /\ DOMAIN log = 1 .. Len(log)
      /\ DOMAIN log' = 1 .. Len(log) + Len(batch) /\ DOMAIN batch = 1 .. Len(batch)
  BY <1>1
<1>3. ToSet(log) \subseteq ToSet(log') /\ \A i \in 1 .. Len(batch) : batch[i] \in ToSet(log')
  <2>1. \A i \in 1 .. Len(log) : i \in DOMAIN log' /\ log'[i] = log[i]
    BY <1>1, <1>2
  <2>2. \A i \in 1 .. Len(batch) : Len(log) + i \in DOMAIN log' /\ log'[Len(log) + i] = batch[i]
    BY <1>1, <1>2
  <2> QED BY <1>2, <2>1, <2>2 DEF ToSet
<1>4. /\ PairsOf(log) \subseteq PairsOf(log')
      /\ \A i \in 1 .. Len(batch) : PairKey(batch[i]) \in PairsOf(log')
  BY <1>3 DEF PairsOf
<1>5. CASE UNCHANGED graphVars
  BY <1>1, <1>4, <1>5, MoreContacts DEF graphVars, GraphFits
<1>6. CASE GraphExamine(batch, fits)
  <2> DEFINE g == LiveGraph(graph, batch)
             peers == Merged(g, batch).outPeers
  <2>1. graph' = g \/ graph' = [g EXCEPT !.outPeers = peers]
    BY <1>6 DEF GraphExamine
  <2>2. GraphFits(g, PairsOf(log))
    BY BatchPlaced
  <2> HIDE DEF g
  <2>3. GraphFits(g, PairsOf(log'))
    BY <1>4, <2>2, MoreContacts DEF GraphFits
  <2>4. HistoryFits(g.nodes, peers, PairsOf(log'))
    BY <1>4, <2>3, BatchMerged DEF GraphFits
  <2> HIDE DEF peers
  <2>5. CASE graph' = g
    BY <1>1, <2>3, <2>5
  <2>6. CASE graph' = [g EXCEPT !.outPeers = peers]
    <3>1. graph' = [nodes |-> g.nodes, edges |-> g.edges, outPeers |-> peers]
      BY <2>3, <2>6 DEF GraphFits
    <3> DEFINE k == graph'
    <3>2. GraphFits(k, PairsOf(log'))
      <4>1. k.nodes = g.nodes /\ k.edges = g.edges /\ k.outPeers = peers
        BY <3>1
      <4> QED BY <2>3, <2>4, <3>1, <4>1 DEF GraphFits
    <3> QED BY <1>1, <3>2
  <2> QED BY <2>1, <2>5, <2>6
<1> QED BY <1>5, <1>6

-----------------------------------------------------------------------------
(* What the detectors remember, and what they take for new *)

\* The memory of the graph detector is that of its nodes and of contacts seen.
MemoryFits ==
    /\ pointer \in Nat
    /\ log \in Seq(Flows)
    /\ GraphFits(graph, PairsOf(log))

\* A call of the pipeline, as far as the memory is concerned.
LEMMA ExamineRemembers ==
    ASSUME MemoryFits, NEW batch \in Seq(Flows), NEW keys, NEW isInjected, NEW faults,
           Examine(batch, keys, isInjected, faults)
    PROVE  /\ GraphFits(graph, PairsOf(log))' /\ (log \in Seq(Flows))'
           /\ FirstContactIsNovel'
<1>1. log' = log \o batch
  BY DEF Examine
<1>2. \E fits \in BOOLEAN : GraphExamine(batch, fits) \/ UNCHANGED graphVars
  BY DEF Examine
<1>3. GraphFits(graph, PairsOf(log))' /\ (log \in Seq(Flows))'
  BY <1>1, <1>2, GraphExamined DEF MemoryFits
<1>4. FirstContactIsNovel'
  <2>1. PICK fits \in BOOLEAN, commits \in BOOLEAN :
          LET m == FitBaseline(LiveGraph(graph, batch), fits)
          IN \E nodeScores \in [ScoredNodes(LiveGraph(graph, batch), m, batch) -> Answers] :
                 \/ decisions' = <<>>
                 \/ decisions' = [i \in 1 .. Len(batch) |->
                                      Decision(batch, i, nodeScores, isInjected)]
    BY DEF Examine
  <2>2. PICK nodeScores :
          \/ decisions' = <<>>
          \/ decisions' = [i \in 1 .. Len(batch) |-> Decision(batch, i, nodeScores, isInjected)]
    BY <2>1
  <2>3. CASE decisions' = <<>>
    BY <2>3 DEF FirstContactIsNovel
  <2>4. CASE decisions' = [i \in 1 .. Len(batch) |->
                               Decision(batch, i, nodeScores, isInjected)]
    <3> DEFINE before == SubSeq(log', 1, Len(log') - Len(decisions'))
    <3>1. Len(batch) \in Nat /\ Len(log) \in Nat /\ log \in Seq(Flows)
      BY DEF MemoryFits
    <3>2. Len(decisions') = Len(batch) /\ DOMAIN decisions' = 1 .. Len(batch)
      BY <2>4, <3>1
    <3>3. ToSet(log) \subseteq ToSet(before)
      <4>1. /\ log' \in Seq(Flows) /\ Len(log') = Len(log) + Len(batch)
            /\ \A i \in 1 .. Len(log) + Len(batch) :
                  log'[i] = IF i <= Len(log) THEN log[i] ELSE batch[i - Len(log)]
        BY <1>1, <3>1, ConcatProperties
      <4>2. Len(log') - Len(decisions') = Len(log)
        BY <3>1, <3>2, <4>1
      <4>3. Len(before) = Len(log) /\ \A i \in 1 .. Len(log) : before[i] = log'[i]
        BY <3>1, <4>1, <4>2
      <4>4. \A i \in 1 .. Len(log) : before[i] = log[i]
        BY <3>1, <4>1, <4>3
      <4>5. DOMAIN log = 1 .. Len(log) /\ DOMAIN before = 1 .. Len(log)
        BY <3>1, <4>1, <4>2, <4>3
      <4> HIDE DEF before
      <4> QED BY <4>4, <4>5 DEF ToSet
    <3> HIDE DEF before
    <3> SUFFICES ASSUME NEW i \in 1 .. Len(batch),
                        ~decisions'[i].coldStart,
                        decisions'[i].flow.dst \in decisions'[i].peers,
                        ~\E f \in ToSet(before) : PairKey(f) = PairKey(decisions'[i].flow)
                 PROVE  decisions'[i].flow.dst \in decisions'[i].novel
      BY <3>2 DEF FirstContactIsNovel, before
    <3> DEFINE f == batch[i]
               g == LiveGraph(graph, batch)
    <3>4. decisions'[i] = Decision(batch, i, nodeScores, isInjected)
      BY <2>4
    <3>5. /\ decisions'[i].flow = f
          /\ decisions'[i].peers = Peers(g, f.src)
          /\ decisions'[i].coldStart = (KnownPeers(g, f.src) = {})
          /\ decisions'[i].novel = UnseenPeers(g, f.src)
      BY <3>4 DEF Decision
    <3>6. HistoryFits(g.nodes, g.outPeers, PairsOf(log))
      BY BatchPlaced DEF MemoryFits, GraphFits
    <3> HIDE DEF g
    <3>7. f.dst \notin KnownPeers(g, f.src)
      <4> SUFFICES ASSUME f.dst \in KnownPeers(g, f.src) PROVE FALSE
        OBVIOUS
      <4>1. f.src \in DOMAIN g.outPeers /\ f.dst \in ToSet(g.outPeers[f.src])
        BY DEF KnownPeers
      <4>2. <<f.src, f.dst>> \in PairsOf(log)
        BY <3>6, <4>1 DEF HistoryFits
      <4>3. PICK seen \in ToSet(log) : PairKey(seen) = PairKey(f)
        BY <4>2 DEF PairsOf, PairKey
      <4>4. seen \in ToSet(before) /\ PairKey(seen) = PairKey(decisions'[i].flow)
        <5> HIDE DEF f
        <5> QED BY <3>3, <3>5, <4>3
      <4> QED BY <4>4
    <3>8. UnseenPeers(g, f.src) = Peers(g, f.src) \ KnownPeers(g, f.src)
      <4>1. KnownPeers(g, f.src) # {}
        BY <3>5
      <4> QED BY <4>1 DEF UnseenPeers
    <3> QED BY <3>5, <3>7, <3>8
  <2> QED BY <2>2, <2>3, <2>4
<1> QED BY <1>3, <1>4

LEMMA RemembersInit == Init => MemoryFits /\ FirstContactIsNovel
<1> SUFFICES ASSUME Init PROVE MemoryFits /\ FirstContactIsNovel
  OBVIOUS
<1>1. graph = EmptyGraph /\ log = <<>> /\ decisions = <<>> /\ pointer = 0
  BY DEF Init, GraphInit
<1>2. DOMAIN <<>> = {} /\ <<>> \in Seq(Flows) /\ <<>> \in Seq(Addresses)
  OBVIOUS
<1>3. GraphFits(EmptyGraph, PairsOf(<<>>))
  BY <1>2 DEF GraphFits, EmptyGraph, EdgesFit, HistoryFits
<1>4. FirstContactIsNovel
  BY <1>1, <1>2 DEF FirstContactIsNovel
<1> QED BY <1>1, <1>2, <1>3, <1>4 DEF MemoryFits

\* A batch of the replay is a part of the capture.
LEMMA ReplayedBatch ==
    ASSUME pointer \in Nat, NEW n \in Nat, pointer + n <= Len(Capture)
    PROVE  /\ SubSeq(Capture, pointer + 1, pointer + n) \in Seq(Flows)
           /\ Len(SubSeq(Capture, pointer + 1, pointer + n)) = n
<1>1. Capture \in Seq(ToSet(Capture)) /\ Len(Capture) \in Nat
  BY DetectionAssumption, LenProperties
<1>2. Capture \in Seq(Flows)
  <2>1. ToSet(Capture) \subseteq Flows
    BY DEF Flows
  <2>2. \A i \in 1 .. Len(Capture) : Capture[i] \in Flows
    BY <1>1, <2>1
  <2> QED BY <1>1, <2>2
<1> QED BY <1>1, <1>2

LEMMA RemembersNext ==
    ASSUME MemoryFits, FirstContactIsNovel, [Next]_vars
    PROVE  MemoryFits' /\ FirstContactIsNovel'
<1>1. CASE Replay
  <2>1. PICK n \in 1 .. MaxBatch, again \in BOOLEAN :
          /\ pointer + n <= Len(Capture)
          /\ pointer' = IF again THEN pointer ELSE pointer + n
          /\ Examine(SubSeq(Capture, pointer + 1, pointer + n),
                     [i \in 1 .. n |-> <<session, pointer + i>>], FALSE,
                     IF again THEN 1 ELSE 0)
    BY <1>1 DEF Replay
  <2>2. pointer \in Nat /\ n \in Nat /\ pointer' \in Nat
    BY <2>1 DEF MemoryFits
  <2>3. SubSeq(Capture, pointer + 1, pointer + n) \in Seq(Flows)
    BY <2>1, <2>2, ReplayedBatch
  <2>4. /\ GraphFits(graph, PairsOf(log))' /\ (log \in Seq(Flows))'
        /\ FirstContactIsNovel'
    BY <2>1, <2>3, ExamineRemembers
  <2> QED BY <2>2, <2>4 DEF MemoryFits
<1>2. CASE Restart
  <2>1. UNCHANGED <<graph, log, decisions>> /\ pointer' = 0
    BY <1>2 DEF Restart, graphVars
  <2> QED BY <2>1 DEF MemoryFits, FirstContactIsNovel
<1>3. CASE Inject
  <2>1. PICK f \in ToSet(Pool) : Examine(<<f>>, <<<<0, injected'>>>>, TRUE, 0)
    BY <1>3 DEF Inject
  <2>2. f \in Flows /\ <<f>> \in Seq(Flows)
    BY DEF Flows
  <2>3. /\ GraphFits(graph, PairsOf(log))' /\ (log \in Seq(Flows))'
        /\ FirstContactIsNovel'
    BY <2>1, <2>2, ExamineRemembers
  <2>4. pointer' = pointer
    BY <1>3 DEF Inject
  <2> QED BY <2>3, <2>4 DEF MemoryFits
<1>4. CASE UNCHANGED vars
  BY <1>4 DEF vars, sourceVars, graphVars, MemoryFits, FirstContactIsNovel
<1> QED BY <1>1, <1>2, <1>3, <1>4 DEF Next

LEMMA Remembers == Spec => [](MemoryFits /\ FirstContactIsNovel)
<1>1. Init => MemoryFits /\ FirstContactIsNovel
  BY RemembersInit
<1>2. MemoryFits /\ FirstContactIsNovel /\ [Next]_vars
        => (MemoryFits /\ FirstContactIsNovel)'
  BY RemembersNext
<1> QED BY <1>1, <1>2, PTL DEF Spec

\* Neither an edge nor a history survives the eviction of its node, and no history grows
\* past its cap, whatever the flows, batches, refits and failures are (detection/tgnn.py,
\* _add_flow_to_graph and _merge_batch_into_history).
THEOREM MemoryOfLiveNodes == Spec => []HistoryOfLiveNodesOnly
<1>1. MemoryFits => HistoryOfLiveNodesOnly
  BY DEF MemoryFits, GraphFits, EdgesFit, HistoryFits, HistoryOfLiveNodesOnly
<1> QED BY <1>1, Remembers, PTL

\* A batch is compared with what came before it and never with itself: a peer contacted
\* for the first time passes for unseen (detection/tgnn.py, examine).
THEOREM FirstContactsAreNovel == Spec => []FirstContactIsNovel
BY Remembers, PTL

-----------------------------------------------------------------------------
(* The stored scores *)

\* Only the tripwire confirms, and then it fired.
Honest(vs) ==
    /\ vs \in [Running -> Verdicts]
    /\ \A d \in Running : vs[d].confirmed <=> d = "tripwire" /\ vs[d].fired

LEMMA VerdictsAreHonest ==
    ASSUME NEW batch, NEW i \in 1 .. Len(batch), FlowOK(batch[i]),
           NEW N, NEW nodeScores \in [N -> Answers]
    PROVE  Honest(VerdictsOn(batch, i, nodeScores))
<1> DEFINE f == batch[i]
           V == VerdictsOn(batch, i, nodeScores)
<1>1. V \in VerdictSets
  BY VerdictsOnType
<1>2. DOMAIN V = Running
  BY DEF VerdictsOn
<1>3. V \in [Running -> Verdicts]
  BY <1>1, <1>2 DEF VerdictSets
<1>4. ASSUME NEW d \in Running PROVE V[d].confirmed <=> d = "tripwire" /\ V[d].fired
  <2>1. d \in {"volumetric", "supervised", "signature", "beaconing", "tgnn", "tripwire"}
    BY DEF Running, Detectors, Heuristics
  <2>2. CASE d = "tripwire"
    <3>1. V[d] = VerdictFromTripwire(f.honeytoken)
      BY <2>2 DEF VerdictsOn
    <3>2. f.honeytoken \in BOOLEAN
      BY DEF FlowOK
    <3> QED BY <2>2, <3>1, <3>2 DEF VerdictFromTripwire, Heuristic
  <2>3. CASE d # "tripwire"
    <3>1. \E fired, score : V[d] = Heuristic(fired, score)
      <4>1. CASE d = "volumetric"
        BY <4>1 DEF VerdictsOn, VerdictFromScoredFlow
      <4>2. CASE d = "supervised"
        BY <4>2 DEF VerdictsOn, VerdictFromSupervised
      <4>3. CASE d = "signature"
        BY <4>3 DEF VerdictsOn, SignatureVerdict
      <4>4. CASE d = "beaconing"
        <5>1. V[d] = BeaconingVerdicts(history, batch)[i]
          BY <4>4 DEF VerdictsOn
        <5>2. \E times : V[d] = BeaconVerdict(times)
          BY <5>1 DEF BeaconingVerdicts
        <5>3. PICK times : V[d] = BeaconVerdict(times)
          BY <5>2
        <5> HIDE DEF V
        <5>4. CASE Len(Usable(times)) < MinSamples - 1
          BY <5>3, <5>4 DEF BeaconVerdict
        <5>5. CASE ~(Len(Usable(times)) < MinSamples - 1)
          BY <5>3, <5>5 DEF BeaconVerdict
        <5> QED BY <5>4, <5>5
      <4>5. CASE d = "tgnn"
        <5>1. V[d] = GraphVerdict(nodeScores, f)
          BY <4>5 DEF VerdictsOn
        <5> HIDE DEF V
        <5> QED BY <5>1 DEF GraphVerdict
      <4> QED BY <2>1, <2>3, <4>1, <4>2, <4>3, <4>4, <4>5
    <3> HIDE DEF V
    <3>2. V[d].confirmed = FALSE
      BY <3>1 DEF Heuristic
    <3> QED BY <2>3, <3>2
  <2> QED BY <2>2, <2>3
<1> QED BY <1>3, <1>4 DEF Honest

LEMMA SameEvidence ==
    ASSUME NEW vs, NEW ws, FiredDetectors(vs) = FiredDetectors(ws),
           \A d \in FiredDetectors(vs) :
              vs[d].score = ws[d].score /\ (vs[d].confirmed <=> ws[d].confirmed)
    PROVE  ThreatScore(vs) = ThreatScore(ws)
<1>1. HasConfirmedSignal(vs) <=> HasConfirmedSignal(ws)
  BY DEF HasConfirmedSignal
<1>2. \A d : Doubt(vs, d) = Doubt(ws, d)
  BY DEF Doubt
<1>3. Survival(vs) = Survival(ws)
  BY <1>2 DEF Survival
<1> QED BY <1>1, <1>3 DEF ThreatScore

\* The rows one call stores for an event.
RowsFor(key, vs) ==
    {Row(key, d, vs[d].score, vs[d].fired) :
         d \in {d \in DOMAIN vs : d # "tripwire" \/ vs[d].fired}}
    \cup {Row(key, "hybrid", Fuse(vs).threat, Fuse(vs).band # "benign")}

\* The verdicts read back from the rows of an event.
RowOf(rows, d) == CHOOSE r \in rows : r.detector = d
ReadBack(rows) ==
    [d \in {r.detector : r \in rows} \ {"hybrid"} |->
        [fired |-> RowOf(rows, d).anomaly, score |-> RowOf(rows, d).score,
         confirmed |-> d = "tripwire"]]

Explained(rows) ==
    /\ \A r, s \in rows : r.detector = s.detector => r = s
    /\ RowOf(rows, "hybrid").score = Fuse(ReadBack(rows)).threat
    /\ Running \ {"tripwire"} \subseteq DOMAIN ReadBack(rows)

LEMMA RowsExplain ==
    ASSUME NEW key, NEW vs, Honest(vs)
    PROVE  Explained(RowsFor(key, vs))
<1> DEFINE rows == RowsFor(key, vs)
           told == {d \in Running : d # "tripwire" \/ vs[d].fired}
           row(d) == Row(key, d, vs[d].score, vs[d].fired)
           head == Row(key, "hybrid", Fuse(vs).threat, Fuse(vs).band # "benign")
           ws == ReadBack(rows)
<1>1. DOMAIN vs = Running /\ "hybrid" \notin Running
  BY DEF Honest, Running, Detectors, Heuristics
<1>2. rows = {row(d) : d \in told} \cup {head}
  BY <1>1 DEF RowsFor
<1>3. head.detector = "hybrid" /\ head.score = Fuse(vs).threat
  BY DEF Row
<1>4. \A d \in told : /\ row(d).detector = d /\ row(d).score = vs[d].score
                      /\ row(d).anomaly = vs[d].fired
  BY DEF Row
<1>5. "hybrid" \notin told
  BY <1>1
<1> HIDE DEF rows, row, head, told
<1>6. \A r, s \in rows : r.detector = s.detector => r = s
  BY <1>2, <1>3, <1>4, <1>5
<1>7. RowOf(rows, "hybrid") = head
  <2>1. head \in rows
    BY <1>2
  <2> QED BY <2>1, <1>3, <1>6 DEF RowOf
<1>8. ASSUME NEW d \in told PROVE RowOf(rows, d) = row(d)
  <2>1. row(d) \in rows /\ row(d).detector = d
    BY <1>2, <1>4
  <2> QED BY <2>1, <1>6 DEF RowOf
<1>9. {r.detector : r \in rows} \ {"hybrid"} = told
  BY <1>2, <1>3, <1>4, <1>5
<1>10. DOMAIN ws = told
  BY <1>9 DEF ReadBack
<1>11. \A d \in told : ws[d] = [fired |-> vs[d].fired, score |-> vs[d].score,
                                confirmed |-> d = "tripwire"]
  BY <1>4, <1>8, <1>9 DEF ReadBack
<1> HIDE DEF ws
<1>12. FiredDetectors(ws) = FiredDetectors(vs)
  <2>1. \A d : d \in FiredDetectors(vs) <=> d \in Running /\ vs[d].fired
    BY <1>1 DEF FiredDetectors
  <2>2. \A d : d \in FiredDetectors(ws) <=> d \in told /\ vs[d].fired
    BY <1>10, <1>11 DEF FiredDetectors
  <2>3. \A d : d \in told /\ vs[d].fired <=> d \in Running /\ vs[d].fired
    BY DEF told
  <2> QED BY <2>1, <2>2, <2>3
<1>13. ASSUME NEW d \in FiredDetectors(ws)
       PROVE  ws[d].score = vs[d].score /\ (ws[d].confirmed <=> vs[d].confirmed)
  <2>1. d \in told /\ d \in Running /\ vs[d].fired
    BY <1>1, <1>10, <1>12, <1>13 DEF FiredDetectors
  <2>2. vs[d].confirmed <=> d = "tripwire"
    BY <2>1 DEF Honest
  <2>3. ws[d] = [fired |-> vs[d].fired, score |-> vs[d].score, confirmed |-> d = "tripwire"]
    BY <1>11, <2>1
  <2>4. ws[d].score = vs[d].score
    BY <2>3
  <2>5. ws[d].confirmed = (d = "tripwire")
    BY <2>3
  <2> QED BY <2>2, <2>4, <2>5
<1>14. ThreatScore(ws) = ThreatScore(vs)
  BY <1>12, <1>13, SameEvidence
<1>15. Fuse(ws).threat = Fuse(vs).threat
  BY <1>14 DEF Fuse
<1>16. Running \ {"tripwire"} \subseteq told
  BY DEF told
<1>17. Explained(rows)
  BY <1>3, <1>6, <1>7, <1>10, <1>15, <1>16 DEF Explained, ws
<1> QED BY <1>17 DEF rows

\* The strengthening: the rows stored for an event are those of one honest set of verdicts.
ScoresFit ==
    \A key \in {r.event : r \in scores} :
        \E vs : Honest(vs) /\ {r \in scores : r.event = key} = RowsFor(key, vs)

LEMMA RowsOfTheEvent ==
    ASSUME NEW key, NEW vs, NEW r \in RowsFor(key, vs)
    PROVE  r.event = key
BY DEF RowsFor, Row

\* What a transaction writes for n events under these keys, having heard these verdicts.
StoresRows(n, keys, heard, stored) ==
    /\ \A i \in 1 .. n : Honest(heard[i])
    /\ \A i, j \in 1 .. n : keys[i] = keys[j] => i = j
    /\ \A i \in 1 .. n : stored[i] = IF \E r \in scores : r.event = keys[i] THEN {}
                                     ELSE RowsFor(keys[i], heard[i])

\* The rows of one call, added to those there were.
LEMMA RowsAdded ==
    ASSUME ScoresFit, NEW n, NEW keys, NEW heard, NEW stored,
           StoresRows(n, keys, heard, stored),
           \A r : r \in scores' <=> r \in scores \/ \E i \in 1 .. n : r \in stored[i]
    PROVE  ScoresFit'
<1> USE DEF StoresRows
<1>1. \A r : r \in scores' <=> r \in scores \/ \E i \in 1 .. n : r \in stored[i]
  OBVIOUS
<1>2. \A i \in 1 .. n : \A r \in stored[i] : r.event = keys[i]
  BY RowsOfTheEvent
<1>3. \A i \in 1 .. n : (\E r \in scores : r.event = keys[i]) => stored[i] = {}
  OBVIOUS
<1> SUFFICES ASSUME NEW key \in {r.event : r \in scores'}
             PROVE  \E vs : Honest(vs) /\ {r \in scores' : r.event = key} = RowsFor(key, vs)
  BY DEF ScoresFit
<1>4. CASE \E r \in scores : r.event = key
  <2>1. \A r : r \in scores' /\ r.event = key <=> r \in scores /\ r.event = key
    BY <1>1, <1>2, <1>3, <1>4
  <2>2. {r \in scores' : r.event = key} = {r \in scores : r.event = key}
    BY <2>1
  <2>3. \E vs : Honest(vs) /\ {r \in scores : r.event = key} = RowsFor(key, vs)
    BY <1>4 DEF ScoresFit
  <2> QED BY <2>2, <2>3
<1>5. CASE ~\E r \in scores : r.event = key
  <2>1. PICK i \in 1 .. n : key = keys[i]
    BY <1>1, <1>2, <1>5
  <2>2. stored[i] = RowsFor(key, heard[i])
    BY <1>5, <2>1
  <2>3. \A r : r \in scores' /\ r.event = key <=> r \in stored[i]
    BY <1>1, <1>2, <1>5, <2>1
  <2>4. {r \in scores' : r.event = key} = RowsFor(key, heard[i])
    BY <2>2, <2>3
  <2> QED BY <2>4
<1> QED BY <1>4, <1>5

LEMMA ExamineStores ==
    ASSUME ScoresFit, NEW batch, NEW keys, NEW isInjected, NEW faults,
           Len(batch) \in Nat, \A i \in 1 .. Len(batch) : FlowOK(batch[i]),
           \A i, j \in 1 .. Len(batch) : keys[i] = keys[j] => i = j,
           Examine(batch, keys, isInjected, faults)
    PROVE  ScoresFit'
<1>1. PICK fits \in BOOLEAN, commits \in BOOLEAN :
        LET m == FitBaseline(LiveGraph(graph, batch), fits)
        IN \E nodeScores \in [ScoredNodes(LiveGraph(graph, batch), m, batch) -> Answers] :
             LET decided == [i \in 1 .. Len(batch) |->
                                 Decision(batch, i, nodeScores, isInjected)]
             IN \/ scores' = scores
                \/ scores' = scores \cup UNION {ScoreRows(keys[i], decided[i]) :
                                                    i \in 1 .. Len(batch)}
  BY DEF Examine
<1> DEFINE N == ScoredNodes(LiveGraph(graph, batch),
                            FitBaseline(LiveGraph(graph, batch), fits), batch)
           decision(s, i) == Decision(batch, i, s, isInjected)
<1>2. PICK nodeScores \in [N -> Answers] :
        LET decided == [i \in 1 .. Len(batch) |->
                            Decision(batch, i, nodeScores, isInjected)]
        IN \/ scores' = scores
           \/ scores' = scores \cup UNION {ScoreRows(keys[i], decided[i]) :
                                               i \in 1 .. Len(batch)}
  BY <1>1
<1> HIDE DEF N
<1> DEFINE decided == [i \in 1 .. Len(batch) |-> Decision(batch, i, nodeScores, isInjected)]
           V(i) == VerdictsOn(batch, i, nodeScores)
           added(i) == ScoreRows(keys[i], decided[i])
<1>3. \A i \in 1 .. Len(batch) : Honest(V(i))
  BY VerdictsAreHonest
<1>4. ASSUME NEW i \in 1 .. Len(batch)
      PROVE  added(i) = IF \E r \in scores : r.event = keys[i] THEN {}
                        ELSE RowsFor(keys[i], V(i))
  <2>1. decided[i].fused = Fuse(V(i))
    BY DEF Decision
  <2> HIDE DEF decided, V
  <2>2. decided[i].fused.verdicts = V(i)
    BY <2>1 DEF Fuse
  <2> DEFINE D == decided[i]
             told(vs) == {Row(keys[i], d, vs[d].score, vs[d].fired) :
                              d \in {d \in DOMAIN vs : d # "tripwire" \/ vs[d].fired}}
             rows(t, b, vs) == told(vs) \cup {Row(keys[i], "hybrid", t, b # "benign")}
  <2>3. added(i) = IF \E r \in scores : r.event = keys[i] THEN {}
                   ELSE rows(D.fused.threat, D.fused.band, D.fused.verdicts)
    BY Zenon DEF ScoreRows
  <2>4. RowsFor(keys[i], V(i)) = rows(Fuse(V(i)).threat, Fuse(V(i)).band, V(i))
    BY Zenon DEF RowsFor
  <2>5. rows(D.fused.threat, D.fused.band, D.fused.verdicts)
          = rows(Fuse(V(i)).threat, Fuse(V(i)).band, V(i))
    <3> HIDE DEF rows, D
    <3>1. D.fused = Fuse(V(i)) /\ D.fused.verdicts = V(i)
      BY <2>1, <2>2 DEF D
    <3> QED BY Zenon, <3>1
  <2> HIDE DEF rows, added, D
  <2> QED BY <2>3, <2>4, <2>5
<1>5. CASE scores' = scores
  BY <1>5 DEF ScoresFit
<1>6. CASE scores' = scores \cup UNION {added(i) : i \in 1 .. Len(batch)}
  <2> DEFINE Vs == [i \in 1 .. Len(batch) |-> V(i)]
             rows == [i \in 1 .. Len(batch) |-> added(i)]
  <2> HIDE DEF V, added, decided
  <2>1. /\ \A i \in 1 .. Len(batch) : Honest(Vs[i])
        /\ \A i \in 1 .. Len(batch) :
              rows[i] = IF \E r \in scores : r.event = keys[i] THEN {}
                        ELSE RowsFor(keys[i], Vs[i])
    BY <1>3, <1>4
  <2>2. \A r : r \in scores' <=>
               r \in scores \/ \E i \in 1 .. Len(batch) : r \in rows[i]
    BY <1>6
  <2> HIDE DEF Vs, rows
  <2>3. StoresRows(Len(batch), keys, Vs, rows)
    BY <2>1 DEF StoresRows
  <2> QED BY <2>2, <2>3, RowsAdded
<1> HIDE DEF V
<1> QED BY <1>2, <1>5, <1>6

LEMMA StepStores ==
    ASSUME pointer \in Nat, ScoresFit, [Next]_vars
    PROVE  (pointer \in Nat)' /\ ScoresFit'
<1>1. CASE Replay
  <2>1. PICK n \in 1 .. MaxBatch, again \in BOOLEAN :
          /\ pointer + n <= Len(Capture)
          /\ pointer' = IF again THEN pointer ELSE pointer + n
          /\ Examine(SubSeq(Capture, pointer + 1, pointer + n),
                     [i \in 1 .. n |-> <<session, pointer + i>>], FALSE,
                     IF again THEN 1 ELSE 0)
    BY <1>1 DEF Replay
  <2> DEFINE batch == SubSeq(Capture, pointer + 1, pointer + n)
             keys == [i \in 1 .. n |-> <<session, pointer + i>>]
  <2>2. n \in Nat
    OBVIOUS
  <2>3. batch \in Seq(Flows) /\ Len(batch) = n
    BY <2>1, <2>2, ReplayedBatch
  <2>4. \A i \in 1 .. Len(batch) : FlowOK(batch[i])
    <3>1. \A i \in 1 .. Len(batch) : batch[i] \in Flows
      BY <2>2, <2>3
    <3> HIDE DEF batch
    <3> QED BY <3>1, DetectionAssumption DEF Flows
  <2>5. \A i, j \in 1 .. n : keys[i] = keys[j] => i = j
    OBVIOUS
  <2> HIDE DEF batch, keys
  <2>6. ScoresFit'
    BY <2>1, <2>2, <2>3, <2>4, <2>5, ExamineStores DEF batch, keys
  <2> QED BY <2>1, <2>2, <2>6
<1>2. CASE Restart
  BY <1>2 DEF Restart, ScoresFit
<1>3. CASE Inject
  <2>1. PICK f \in ToSet(Pool) : Examine(<<f>>, <<<<0, injected'>>>>, TRUE, 0)
    BY <1>3 DEF Inject
  <2>2. FlowOK(f)
    BY DetectionAssumption
  <2>3. /\ Len(<<f>>) \in Nat /\ \A i \in 1 .. Len(<<f>>) : FlowOK(<<f>>[i])
        /\ \A i, j \in 1 .. Len(<<f>>) :
              <<<<0, injected'>>>>[i] = <<<<0, injected'>>>>[j] => i = j
    BY <2>2
  <2>4. ScoresFit'
    BY <2>1, <2>3, ExamineStores
  <2>5. pointer' = pointer
    BY <1>3 DEF Inject
  <2> QED BY <2>4, <2>5
<1>4. CASE UNCHANGED vars
  BY <1>4 DEF vars, sourceVars, ScoresFit
<1> QED BY <1>1, <1>2, <1>3, <1>4 DEF Next

\* An event has one row per detector, and its headline is what fusing exactly those rows
\* gives, whatever was examined again, rolled back or injected since (backend/ingest.py,
\* _persist_scores, and detection/fusion.py).
THEOREM StoredScoresExplain == Spec => []ScoresExplainHeadline
<1>1. Init => pointer \in Nat /\ ScoresFit
  BY DEF Init, ScoresFit
<1>2. pointer \in Nat /\ ScoresFit /\ [Next]_vars => (pointer \in Nat)' /\ ScoresFit'
  BY StepStores
<1>3. ScoresFit => ScoresExplainHeadline
  <2> SUFFICES ASSUME ScoresFit, NEW key \in {r.event : r \in scores}
               PROVE  Explained({r \in scores : r.event = key})
    BY DEF ScoresExplainHeadline, Explained, RowOf, ReadBack
  <2>1. PICK vs : Honest(vs) /\ {r \in scores : r.event = key} = RowsFor(key, vs)
    BY DEF ScoresFit
  <2> QED BY <2>1, RowsExplain
<1> QED BY <1>1, <1>2, <1>3, PTL DEF Spec

-----------------------------------------------------------------------------
(* The histories of the beaconing detector *)

\* A greatest number of a set of bounded ones.
LEMMA Greatest ==
    ASSUME NEW n \in Nat, NEW S, S \subseteq 1 .. n, S # {}
    PROVE  \E x \in S : \A y \in S : y <= x
<1> DEFINE T == {k \in Nat : \A R \in SUBSET (1 .. k) : R # {} => \E x \in R : \A y \in R : y <= x}
<1>1. 0 \in T
  <2>1. 1 .. 0 = {}
    OBVIOUS
  <2> QED BY <2>1
<1>2. ASSUME NEW k \in Nat, k \in T PROVE k + 1 \in T
  <2> SUFFICES ASSUME NEW R \in SUBSET (1 .. k + 1), R # {}
               PROVE  \E x \in R : \A y \in R : y <= x
    OBVIOUS
  <2>1. CASE k + 1 \in R
    BY <2>1
  <2>2. CASE k + 1 \notin R
    <3>1. R \in SUBSET (1 .. k)
      BY <2>2
    <3> QED BY <1>2, <3>1
  <2> QED BY <2>1, <2>2
<1>3. \A k \in Nat : k \in T
  <2> HIDE DEF T
  <2> QED BY <1>1, <1>2, NatInduct
<1> QED BY <1>3

Pairs == {PairKey(f) : f \in Flows}
Times == {f.ts : f \in Flows}
Entries == [pair : Pairs, times : Seq(Times)]

Uses(flows, p) == {i \in 1 .. Len(flows) : PairKey(flows[i]) = p}

\* The pairs seen since p was last seen.
Since(flows, p) ==
    {PairKey(flows[x]) : x \in {x \in 1 .. Len(flows) : \A i \in Uses(flows, p) : x > i}}

PairsAt(flows, S) == {PairKey(flows[x]) : x \in S}

LEMMA FinitePairs ==
    ASSUME NEW n \in Nat, NEW S, S \subseteq 1 .. n, NEW flows
    PROVE  IsFiniteSet(PairsAt(flows, S)) /\ Cardinality(PairsAt(flows, S)) \in Nat
<1>1. IsFiniteSet(1 .. n)
  BY FS_Interval
<1>2. IsFiniteSet(S)
  BY <1>1, FS_Subset
<1> DEFINE f == [x \in S |-> PairKey(flows[x])]
<1>3. {f[x] : x \in S} = PairsAt(flows, S)
  BY DEF PairsAt
<1>4. IsFiniteSet({f[x] : x \in S})
  <2>1. f \in Surjection(S, {f[x] : x \in S})
    BY DEF Surjection
  <2> HIDE DEF f
  <2> QED BY <1>2, <2>1, FS_Surjection
<1> QED BY <1>3, <1>4, FS_CardinalityType

\* One more flow: what was seen since the last use of each pair.
LEMMA OneMore ==
    ASSUME NEW flows \in Seq(Flows), NEW f \in Flows
    PROVE  LET more == Append(flows, f)
           IN /\ more \in Seq(Flows) /\ Len(more) = Len(flows) + 1
              /\ \A i \in 1 .. Len(flows) : more[i] = flows[i]
              /\ more[Len(flows) + 1] = f
              /\ Since(more, PairKey(f)) = {}
              /\ \A p : p # PairKey(f) =>
                    /\ Since(more, p) = Since(flows, p) \cup {PairKey(f)}
                    /\ Uses(more, p) = Uses(flows, p)
              /\ Uses(more, PairKey(f)) = Uses(flows, PairKey(f)) \cup {Len(flows) + 1}
<1> DEFINE n == Len(flows)
           more == Append(flows, f)
           q == PairKey(f)
<1>1. n \in Nat
  OBVIOUS
<1>2. /\ more \in Seq(Flows) /\ Len(more) = n + 1
      /\ \A i \in 1 .. n : more[i] = flows[i]
      /\ more[n + 1] = f
  OBVIOUS
<1>3. 1 .. n + 1 = (1 .. n) \cup {n + 1} /\ \A i \in 1 .. n : n + 1 > i /\ ~(i > n + 1)
  BY <1>1
<1> HIDE DEF more, n
<1>4. \A p : Uses(more, p) = {i \in 1 .. n + 1 : PairKey(more[i]) = p}
  BY <1>2 DEF Uses
<1>5. \A p : Uses(flows, p) = {i \in 1 .. n : PairKey(flows[i]) = p}
  BY DEF Uses, n
<1>6. Uses(more, q) = Uses(flows, q) \cup {n + 1}
  <2>1. \A i : i \in Uses(more, q) <=> i \in Uses(flows, q) \/ i = n + 1
    BY <1>2, <1>3, <1>4, <1>5
  <2> HIDE DEF q
  <2> QED BY <2>1
<1>7. ASSUME NEW p, p # q PROVE Uses(more, p) = Uses(flows, p)
  <2>1. PairKey(more[n + 1]) # p
    BY <1>2, <1>7
  <2>2. \A i : i \in Uses(more, p) <=> i \in Uses(flows, p)
    BY <1>2, <1>3, <1>4, <1>5, <2>1
  <2> QED BY <2>2
<1>8. Since(more, q) = {}
  <2>1. \A x \in 1 .. n + 1 : ~(x > n + 1)
    BY <1>1
  <2>2. n + 1 \in Uses(more, q)
    BY <1>6
  <2> QED BY <1>2, <2>1, <2>2 DEF Since
<1>9. ASSUME NEW p, p # q PROVE Since(more, p) = Since(flows, p) \cup {q}
  <2> DEFINE old == {x \in 1 .. n : \A i \in Uses(flows, p) : x > i}
             new == {x \in 1 .. n + 1 : \A i \in Uses(flows, p) : x > i}
  <2>1. n + 1 \in new
    BY <1>1, <1>3, <1>5
  <2>2. new = old \cup {n + 1}
    BY <1>3, <2>1
  <2>3. Since(more, p) = {PairKey(more[x]) : x \in new}
    BY <1>2, <1>7, <1>9 DEF Since
  <2>4. Since(flows, p) = {PairKey(flows[x]) : x \in old}
    BY DEF Since, n
  <2>5. \A x \in old : more[x] = flows[x]
    BY <1>2
  <2> HIDE DEF old, new
  <2> QED BY <1>2, <2>2, <2>3, <2>4, <2>5
<1> QED BY <1>2, <1>6, <1>7, <1>8, <1>9 DEF more, n

\* A pair with as many others seen since its last use is forgotten.
LEMMA AllForgotten ==
    ASSUME NEW flows \in Seq(Flows), NEW p,
           Cardinality(Since(flows, p)) >= MaxTrackedPairs
    PROVE  Kept(flows, p) = {}
<1> DEFINE n == Len(flows)
<1> SUFFICES ASSUME NEW i \in Kept(flows, p) PROVE FALSE
  OBVIOUS
<1>1. n \in Nat /\ i \in 1 .. n /\ PairKey(flows[i]) = p /\ ~Forgotten(flows, i)
  BY DEF Kept
<1>2. i \in Uses(flows, p) /\ Uses(flows, p) \subseteq 1 .. n
  BY <1>1 DEF Uses
<1>3. PICK k \in Uses(flows, p) : \A j \in Uses(flows, p) : j <= k
  BY <1>1, <1>2, Greatest
<1>4. k \in i .. n /\ n \in k .. n
  BY <1>1, <1>2, <1>3
<1> DEFINE between == {PairKey(flows[x]) : x \in k + 1 .. n}
<1>5. {x \in 1 .. n : \A j \in Uses(flows, p) : x > j} = k + 1 .. n
  <2>1. \A x \in 1 .. n : x > k => \A j \in Uses(flows, p) : x > j
    BY <1>1, <1>2, <1>3
  <2>2. k \in 1 .. n
    BY <1>2, <1>3
  <2>3. \A x : x \in 1 .. n /\ x > k <=> x \in k + 1 .. n
    BY <1>1, <2>2
  <2> QED BY <1>3, <2>1, <2>3
<1>6. between = Since(flows, p)
  BY <1>5 DEF Since
<1>7. p \notin between
  <2> SUFFICES ASSUME NEW x \in k + 1 .. n, PairKey(flows[x]) = p PROVE FALSE
    OBVIOUS
  <2>1. x \in Uses(flows, p) /\ ~(x <= k)
    BY <1>1, <1>2, <1>3 DEF Uses
  <2> QED BY <1>3, <2>1
<1>8. Forgotten(flows, i)
  <2> HIDE DEF n
  <2> QED BY <1>1, <1>4, <1>6, <1>7 DEF Forgotten, n
<1> QED BY <1>1, <1>8

\* One more flow: what is kept of a pair that is not forgotten.
LEMMA KeptMore ==
    ASSUME NEW flows \in Seq(Flows), NEW f \in Flows, NEW p,
           Cardinality(Since(Append(flows, f), p)) < MaxTrackedPairs
    PROVE  Kept(Append(flows, f), p) =
               Kept(flows, p) \cup (IF p = PairKey(f) THEN {Len(flows) + 1} ELSE {})
<1> DEFINE n == Len(flows)
           more == Append(flows, f)
           between(s, k, l) == {PairKey(s[x]) : x \in k + 1 .. l}
<1>1. n \in Nat /\ MaxTrackedPairs \in Nat \ {0}
  BY BeaconingAssumption DEF BeaconingInRange
<1>2. /\ more \in Seq(Flows) /\ Len(more) = n + 1
      /\ \A i \in 1 .. n : more[i] = flows[i]
      /\ more[n + 1] = f
  BY OneMore
<1>3. Cardinality(Since(more, p)) < MaxTrackedPairs
  OBVIOUS
<1> HIDE DEF n, more
<1>4. \A s, i : Forgotten(s, i) <=>
          \E k \in i .. Len(s) : \E l \in k .. Len(s) :
              /\ PairKey(s[i]) \notin between(s, k, l)
              /\ Cardinality(between(s, k, l)) >= MaxTrackedPairs
  BY Zenon DEF Forgotten
<1>5. ASSUME NEW k \in 1 .. n, NEW l \in k .. n
      PROVE  between(more, k, l) = between(flows, k, l)
  <2>1. \A x \in k + 1 .. l : more[x] = flows[x]
    <3>1. \A x \in k + 1 .. l : x \in 1 .. n
      BY <1>1
    <3> QED BY <1>2, <3>1
  <2> QED BY <2>1
<1>6. ~Forgotten(more, n + 1)
  <2> SUFFICES ASSUME NEW k \in n + 1 .. n + 1, NEW l \in k .. n + 1,
                      Cardinality(between(more, k, l)) >= MaxTrackedPairs
               PROVE  FALSE
    BY <1>2, <1>4
  <2>1. k + 1 .. l = {}
    BY <1>1
  <2>2. between(more, k, l) = {}
    BY <2>1
  <2>3. Cardinality(between(more, k, l)) = 0
    BY <2>2, FS_EmptySet
  <2> HIDE DEF between
  <2> QED BY <1>1, <2>3
<1>7. ASSUME NEW i \in 1 .. n, PairKey(flows[i]) = p
      PROVE  Forgotten(more, i) <=> Forgotten(flows, i)
  <2>1. PairKey(more[i]) = p
    BY <1>2, <1>7
  <2>2. ASSUME Forgotten(flows, i) PROVE Forgotten(more, i)
    <3>1. PICK k \in i .. n :
            \E l \in k .. n :
                /\ p \notin between(flows, k, l)
                /\ Cardinality(between(flows, k, l)) >= MaxTrackedPairs
      <4> HIDE DEF between
      <4> QED BY <1>4, <1>7, <2>2 DEF n
    <3> PICK l \in k .. n :
            /\ p \notin between(flows, k, l)
            /\ Cardinality(between(flows, k, l)) >= MaxTrackedPairs
      BY <3>1
    <3>2. k \in 1 .. n /\ k \in i .. n + 1 /\ l \in k .. n + 1
      BY <1>1
    <3>3. between(more, k, l) = between(flows, k, l)
      BY <1>5, <3>2
    <3> HIDE DEF between
    <3> QED BY <1>2, <1>4, <2>1, <3>2, <3>3
  <2>3. ASSUME Forgotten(more, i) PROVE Forgotten(flows, i)
    <3>1. PICK k \in i .. n + 1 :
            \E l \in k .. n + 1 :
                /\ p \notin between(more, k, l)
                /\ Cardinality(between(more, k, l)) >= MaxTrackedPairs
      <4> HIDE DEF between
      <4> QED BY <1>2, <1>4, <2>1, <2>3
    <3> PICK l \in k .. n + 1 :
            /\ p \notin between(more, k, l)
            /\ Cardinality(between(more, k, l)) >= MaxTrackedPairs
      BY <3>1
    <3>2. CASE l <= n
      <4>1. k \in 1 .. n /\ k \in i .. n /\ l \in k .. n
        BY <1>1, <3>2
      <4>2. between(more, k, l) = between(flows, k, l)
        BY <1>5, <4>1
      <4> HIDE DEF between
      <4> QED BY <1>4, <1>7, <4>1, <4>2 DEF n
    <3>3. CASE l = n + 1
      <4> DEFINE last == {x \in 1 .. n + 1 : \A j \in Uses(more, p) : x > j}
      <4>1. Since(more, p) = {PairKey(more[x]) : x \in last}
        BY <1>2 DEF Since
      <4>2. \A j \in Uses(more, p) : j \in 1 .. n + 1 /\ j <= k
        <5> SUFFICES ASSUME NEW j \in Uses(more, p), j > k PROVE FALSE
          BY <1>1, <1>2 DEF Uses
        <5>1. j \in 1 .. n + 1 /\ PairKey(more[j]) = p
          BY <1>2 DEF Uses
        <5>2. j \in k + 1 .. l
          BY <1>1, <3>3, <5>1
        <5> QED BY <5>1, <5>2
      <4>3. k + 1 .. l \subseteq last
        <5> SUFFICES ASSUME NEW x \in k + 1 .. l PROVE x \in last
          OBVIOUS
        <5>1. x \in 1 .. n + 1 /\ x > k
          BY <1>1, <3>3
        <5> QED BY <1>1, <4>2, <5>1
      <4>4. between(more, k, l) \subseteq Since(more, p)
        <5> HIDE DEF last
        <5> QED BY <4>1, <4>3
      <4>5. IsFiniteSet(Since(more, p)) /\ Cardinality(Since(more, p)) \in Nat
        <5>1. last \subseteq 1 .. n + 1 /\ n + 1 \in Nat
          BY <1>1
        <5>2. Since(more, p) = PairsAt(more, last)
          BY <4>1 DEF PairsAt
        <5> HIDE DEF last
        <5> QED BY <5>1, <5>2, FinitePairs
      <4> HIDE DEF between, last
      <4>6. Cardinality(between(more, k, l)) <= Cardinality(Since(more, p))
            /\ Cardinality(between(more, k, l)) \in Nat
        BY <4>4, <4>5, FS_Subset, FS_CardinalityType
      <4> QED BY <1>1, <1>3, <4>5, <4>6
    <3>4. l <= n \/ l = n + 1
      BY <1>1
    <3> QED BY <3>2, <3>3, <3>4
  <2> QED BY <2>2, <2>3
<1>8. Kept(more, p) = {i \in 1 .. n + 1 : PairKey(more[i]) = p /\ ~Forgotten(more, i)}
  BY <1>2 DEF Kept
<1>9. Kept(flows, p) = {i \in 1 .. n : PairKey(flows[i]) = p /\ ~Forgotten(flows, i)}
  BY DEF Kept, n
<1>10. \A i : i \in 1 .. n + 1 <=> i \in 1 .. n \/ i = n + 1
  BY <1>1
<1>11. ~(n + 1 \in 1 .. n)
  BY <1>1
<1>12. \A i : i \in Kept(more, p) <=> i \in Kept(flows, p) \/ (p = PairKey(f) /\ i = n + 1)
  BY <1>2, <1>6, <1>7, <1>8, <1>9, <1>10, <1>11
<1>13. Kept(more, p) = Kept(flows, p) \cup (IF p = PairKey(f) THEN {n + 1} ELSE {})
  BY <1>12
<1> QED BY <1>13 DEF more, n

LEMMA LastNFacts ==
    ASSUME NEW S, NEW s \in Seq(S), NEW n \in Nat \ {0}
    PROVE  /\ LastN(s, n) \in Seq(S)
           /\ Len(LastN(s, n)) = IF Len(s) > n THEN n ELSE Len(s)
           /\ \A i \in 1 .. Len(LastN(s, n)) :
                 LastN(s, n)[i] = s[Len(s) - Len(LastN(s, n)) + i]
<1> DEFINE from == IF Len(s) > n THEN Len(s) - n + 1 ELSE 1
<1>1. Len(s) \in Nat
  OBVIOUS
<1>2. from \in Nat /\ 1 <= from /\ from <= Len(s) + 1
      /\ Len(s) - from + 1 = IF Len(s) > n THEN n ELSE Len(s)
  BY <1>1
<1> HIDE DEF from
<1>3. LastN(s, n) = SubSeq(s, from, Len(s))
  BY DEF LastN, from
<1>4. /\ SubSeq(s, from, Len(s)) \in Seq(S)
      /\ Len(SubSeq(s, from, Len(s))) = Len(s) - from + 1
      /\ \A i \in 1 .. Len(s) - from + 1 : SubSeq(s, from, Len(s))[i] = s[from + i - 1]
  BY <1>1, <1>2
<1>5. \A i \in 1 .. Len(s) - from + 1 : from + i - 1 = Len(s) - (Len(s) - from + 1) + i
  BY <1>1, <1>2
<1> QED BY <1>2, <1>3, <1>4, <1>5

LEMMA LaterType ==
    ASSUME NEW n \in Nat, NEW kept, kept \subseteq 1 .. n, NEW i
    PROVE  /\ IsFiniteSet(kept) /\ Cardinality(kept) \in Nat
           /\ IsFiniteSet({j \in kept : j > i}) /\ Cardinality({j \in kept : j > i}) \in Nat
<1>1. IsFiniteSet(1 .. n)
  BY FS_Interval
<1> QED BY <1>1, FS_Subset, FS_CardinalityType

\* A flow of another pair, or none of this one: the times stay those of the flows kept.
LEMMA SameTimes ==
    ASSUME NEW flows \in Seq(Flows), NEW f \in Flows, NEW times,
           NEW kept, kept \subseteq 1 .. Len(flows), LastTimes(times, flows, kept)
    PROVE  LastTimes(times, Append(flows, f), kept)
<1>1. \A i \in kept : Append(flows, f)[i] = flows[i]
  OBVIOUS
<1> HIDE DEF LastTimes
<1> QED BY <1>1 DEF LastTimes

\* A flow of this pair: its time joins them, and the first one gives way past the cap.
LEMMA NextTime ==
    ASSUME NEW flows \in Seq(Flows), NEW f \in Flows, NEW times \in Seq(Times),
           NEW kept, kept \subseteq 1 .. Len(flows), LastTimes(times, flows, kept)
    PROVE  LET next == LastN(Append(times, f.ts), HistoryPerPair)
           IN /\ next \in Seq(Times)
              /\ LastTimes(next, Append(flows, f), kept \cup {Len(flows) + 1})
<1> DEFINE n == Len(flows)
           H == HistoryPerPair
           more == Append(flows, f)
           longer == Append(times, f.ts)
           next == LastN(longer, H)
           all == kept \cup {n + 1}
           later(i) == Cardinality({j \in kept : j > i})
           after(i) == Cardinality({j \in all : j > i})
<1>1. n \in Nat /\ H \in Nat \ {0} /\ f.ts \in Times
  BY BeaconingAssumption DEF BeaconingInRange, Times
<1>2. /\ more[n + 1] = f /\ \A i \in kept : more[i] = flows[i]
  BY OneMore
<1>3. /\ longer \in Seq(Times) /\ Len(longer) = Len(times) + 1
      /\ longer[Len(times) + 1] = f.ts
      /\ \A i \in 1 .. Len(times) : longer[i] = times[i]
  BY <1>1
<1>4. Len(times) \in Nat
  OBVIOUS
<1> HIDE DEF n, more, longer
<1>5. /\ next \in Seq(Times)
      /\ Len(next) = IF Len(times) + 1 > H THEN H ELSE Len(times) + 1
      /\ \A i \in 1 .. Len(next) : next[i] = longer[Len(times) + 1 - Len(next) + i]
  <2> HIDE DEF H
  <2> QED BY <1>1, <1>3, LastNFacts
<1>6. /\ Len(times) = IF Cardinality(kept) > H THEN H ELSE Cardinality(kept)
      /\ \A i \in kept : later(i) < H => times[Len(times) - later(i)] = flows[i].ts
  BY DEF LastTimes
<1>7. \A i : later(i) \in Nat /\ IsFiniteSet({j \in kept : j > i})
  BY <1>1, LaterType DEF n
<1>8. Cardinality(kept) \in Nat /\ IsFiniteSet(kept)
  BY <1>1, LaterType DEF n
<1>9. n + 1 \notin kept /\ \A i \in kept : i \in Nat /\ n + 1 > i
  BY <1>1 DEF n
<1>10. Cardinality(all) = Cardinality(kept) + 1
  BY <1>8, <1>9, FS_AddElement
<1>11. ASSUME NEW i \in kept PROVE after(i) = later(i) + 1
  <2> DEFINE L == {j \in kept : j > i}
  <2>1. {j \in all : j > i} = L \cup {n + 1}
    BY <1>9
  <2>2. n + 1 \notin L
    BY <1>9
  <2>3. IsFiniteSet(L)
    BY <1>7
  <2> HIDE DEF L, all
  <2>4. Cardinality(L \cup {n + 1}) = Cardinality(L) + 1
    BY <2>2, <2>3, FS_AddElement
  <2> QED BY <2>1, <2>4 DEF L
<1>12. after(n + 1) = 0
  <2>1. {j \in all : j > n + 1} = {}
    <3>1. \A j \in all : ~(j > n + 1)
      BY <1>1, <1>9
    <3> HIDE DEF all
    <3> QED BY <3>1
  <2> HIDE DEF all
  <2> QED BY <2>1, FS_EmptySet
<1>13. ASSUME NEW i \in kept
       PROVE  later(i) + 1 <= Cardinality(kept)
  <2>1. {j \in kept : j > i} \subseteq kept \ {i}
    BY <1>9
  <2>2. Cardinality(kept \ {i}) = Cardinality(kept) - 1 /\ IsFiniteSet(kept \ {i})
    BY <1>8, FS_RemoveElement
  <2>3. later(i) <= Cardinality(kept \ {i})
    BY <2>1, <2>2, FS_Subset
  <2>4. later(i) \in Nat
    BY <1>7
  <2> HIDE DEF later
  <2> QED BY <1>8, <2>2, <2>3, <2>4
<1> HIDE DEF later, after, all
<1>14. Len(next) = IF Cardinality(all) > H THEN H ELSE Cardinality(all)
  BY <1>1, <1>4, <1>5, <1>6, <1>8, <1>10
<1>15. ASSUME NEW i \in all, after(i) < H
       PROVE  next[Len(next) - after(i)] = more[i].ts
  <2>1. CASE i = n + 1
    <3>1. Len(next) \in 1 .. Len(next) /\ Len(times) + 1 - Len(next) + Len(next) = Len(times) + 1
      BY <1>1, <1>4, <1>5
    <3>2. next[Len(next)] = longer[Len(times) + 1]
      BY <1>5, <3>1
    <3>3. Len(next) - after(i) = Len(next)
      BY <1>1, <1>4, <1>5, <1>12, <2>1
    <3> QED BY <1>2, <1>3, <2>1, <3>2, <3>3
  <2>2. CASE i \in kept
    <3>1. after(i) = later(i) + 1 /\ later(i) + 1 <= Cardinality(kept) /\ later(i) \in Nat
      BY <1>7, <1>11, <1>13, <2>2
    <3>2. after(i) = later(i) + 1 /\ later(i) < H /\ later(i) \in Nat
          /\ later(i) + 1 <= Cardinality(kept)
      BY <1>1, <1>15, <3>1
    <3>3. times[Len(times) - later(i)] = flows[i].ts
      BY <1>6, <2>2, <3>2
    <3>4. Len(times) - later(i) \in 1 .. Len(times)
      BY <1>1, <1>4, <1>6, <1>8, <3>2
    <3>5. Len(next) - after(i) \in 1 .. Len(next)
          /\ Len(times) + 1 - Len(next) + (Len(next) - after(i)) = Len(times) - later(i)
      BY <1>1, <1>4, <1>5, <1>6, <1>8, <1>15, <3>2
    <3>6. next[Len(next) - after(i)] = longer[Len(times) - later(i)]
      BY <1>5, <3>5
    <3> QED BY <1>2, <1>3, <2>2, <3>3, <3>4, <3>6
  <2> QED BY <2>1, <2>2 DEF all
<1>16. LastTimes(next, more, all)
  <2> HIDE DEF next
  <2> QED BY <1>14, <1>15 DEF LastTimes, after
<1> QED BY <1>5, <1>16 DEF longer, all, more, n

\* What the detector holds after these flows: the pairs used last, in that order, each with
\* its last times; a pair it does not hold has as many others after it as it can hold.
Remembered(h, flows) ==
    /\ h \in Seq(Entries) /\ Len(h) <= MaxTrackedPairs
    /\ \A x, y \in 1 .. Len(h) : h[x].pair = h[y].pair => x = y
    /\ \A x \in 1 .. Len(h) :
          /\ Since(flows, h[x].pair) = {h[y].pair : y \in x + 1 .. Len(h)}
          /\ LastTimes(h[x].times, flows, Kept(flows, h[x].pair))
    /\ \A p : Uses(flows, p) # {} /\ (\A x \in 1 .. Len(h) : h[x].pair # p)
                => Cardinality(Since(flows, p)) >= MaxTrackedPairs

LEMMA NoTimes ==
    ASSUME NEW flows
    PROVE  LastTimes(<<>>, flows, {})
<1>1. Cardinality({}) = 0
  BY FS_EmptySet
<1>2. HistoryPerPair \in Nat
  BY BeaconingAssumption DEF BeaconingInRange
<1>3. Len(<<>>) = 0
  OBVIOUS
<1> QED BY <1>1, <1>2, <1>3 DEF LastTimes

LEMMA TimesRemembered ==
    ASSUME NEW h, NEW flows \in Seq(Flows), Remembered(h, flows), NEW p
    PROVE  /\ TimesOf(h, p) \in Seq(Times)
           /\ LastTimes(TimesOf(h, p), flows, Kept(flows, p))
<1>1. h \in Seq(Entries) /\ DOMAIN h = 1 .. Len(h)
  BY DEF Remembered
<1>2. CASE ~Known(h, p)
  <2>1. TimesOf(h, p) = <<>>
    BY <1>2 DEF TimesOf
  <2>2. \A x \in 1 .. Len(h) : h[x].pair # p
    BY <1>1, <1>2 DEF Known
  <2>3. Kept(flows, p) = {}
    <3>1. CASE Uses(flows, p) = {}
      BY <3>1 DEF Uses, Kept
    <3>2. CASE Uses(flows, p) # {}
      <4>1. Cardinality(Since(flows, p)) >= MaxTrackedPairs
        BY <2>2, <3>2 DEF Remembered
      <4> QED BY <4>1, AllForgotten
    <3> QED BY <3>1, <3>2
  <2> QED BY <2>1, <2>3, NoTimes
<1>3. CASE Known(h, p)
  <2> DEFINE x == Slot(h, p)
  <2>1. x \in 1 .. Len(h) /\ h[x].pair = p
    BY <1>1, <1>3 DEF Known, Slot
  <2>2. TimesOf(h, p) = h[x].times
    BY <1>3 DEF TimesOf
  <2> HIDE DEF x
  <2>3. h[x] \in Entries
    BY <1>1, <2>1
  <2>4. h[x].times \in Seq(Times)
    BY <2>3 DEF Entries
  <2> QED BY <2>1, <2>2, <2>4 DEF Remembered
<1> QED BY <1>2, <1>3

\* Distinct pairs of an interval of places.
Distinct(h, a, b) == \A x, y \in a .. b : h[x].pair = h[y].pair => x = y

LEMMA PairsCounted ==
    ASSUME NEW a \in Nat, NEW b \in Nat, a <= b + 1, NEW h, Distinct(h, a, b)
    PROVE  /\ IsFiniteSet({h[y].pair : y \in a .. b})
           /\ Cardinality({h[y].pair : y \in a .. b}) = b - a + 1
<1> DEFINE S == {h[y].pair : y \in a .. b}
           g == [y \in a .. b |-> h[y].pair]
<1> USE DEF Distinct
<1>1. g \in Surjection(a .. b, S)
  BY DEF Surjection
<1>5. g \in Injection(a .. b, S)
  <2>1. g \in [a .. b -> S] /\ \A x, y \in a .. b : g[x] = g[y] => x = y
    OBVIOUS
  <2> HIDE DEF g, S
  <2> QED BY <2>1 DEF Injection, IsInjective
<1>2. IsFiniteSet(a .. b) /\ Cardinality(a .. b) = IF a > b THEN 0 ELSE b - a + 1
  BY FS_Interval
<1> HIDE DEF g, S
<1>3. IsFiniteSet(S) /\ Cardinality(S) = Cardinality(a .. b)
  BY <1>1, <1>2, <1>5, FS_Surjection
<1>4. Cardinality(a .. b) = b - a + 1
  BY <1>2
<1> QED BY <1>3, <1>4 DEF S

\* The other pairs stay, in their order.
OthersFit(o, h, flows, q) ==
    /\ o \in Seq(Entries) /\ Len(o) <= MaxTrackedPairs
    /\ \A x, y \in 1 .. Len(o) : o[x].pair = o[y].pair => x = y
    /\ \A x \in 1 .. Len(o) :
          /\ o[x].pair # q
          /\ Since(flows, o[x].pair) \cup {q}
               = {o[y].pair : y \in x + 1 .. Len(o)} \cup {q}
          /\ LastTimes(o[x].times, flows, Kept(flows, o[x].pair))
    /\ \A x \in 1 .. Len(h) :
          h[x].pair # q => \E y \in 1 .. Len(o) : o[y].pair = h[x].pair

LEMMA OthersFacts ==
    ASSUME NEW h, NEW flows, Remembered(h, flows), NEW q
    PROVE  OthersFit(Others(h, q), h, flows, q)
<1> DEFINE o == Others(h, q)
           n == Len(h)
<1>1. h \in Seq(Entries) /\ DOMAIN h = 1 .. n /\ n \in Nat /\ n <= MaxTrackedPairs
      /\ MaxTrackedPairs \in Nat
  BY BeaconingAssumption DEF Remembered, BeaconingInRange
<1>2. CASE ~Known(h, q)
  <2>1. o = h
    BY <1>2 DEF Others
  <2>2. \A x \in 1 .. n : h[x].pair # q
    BY <1>1, <1>2 DEF Known
  <2>3. \A x \in 1 .. n : /\ Since(flows, h[x].pair) = {h[y].pair : y \in x + 1 .. n}
                            /\ LastTimes(h[x].times, flows, Kept(flows, h[x].pair))
    BY DEF Remembered
  <2>4. \A x, y \in 1 .. n : h[x].pair = h[y].pair => x = y
    BY DEF Remembered
  <2>5. \A x \in 1 .. n : Since(flows, h[x].pair) \cup {q}
                            = {h[y].pair : y \in x + 1 .. n} \cup {q}
    BY <2>3
  <2>6. OthersFit(h, h, flows, q)
    BY <1>1, <2>2, <2>3, <2>4, <2>5 DEF OthersFit
  <2> QED BY <2>1, <2>6
<1>3. CASE Known(h, q)
  <2> DEFINE z == Slot(h, q)
             from(x) == IF x < z THEN x ELSE x + 1
  <2>1. z \in 1 .. n /\ h[z].pair = q
    BY <1>1, <1>3 DEF Known, Slot
  <2>2. o = RemoveAt(h, z)
    BY <1>3 DEF Others
  <2> HIDE DEF z, o
  <2>3. /\ o \in Seq(Entries) /\ Len(o) = n - 1
        /\ \A i \in 1 .. n - 1 : o[i] = IF i < z THEN h[i] ELSE h[i + 1]
    <3> HIDE DEF n
    <3> QED BY <1>1, <2>1, <2>2, RemovedAt DEF n
  <2>4. \A x \in 1 .. n - 1 : from(x) \in 1 .. n /\ from(x) # z /\ o[x] = h[from(x)]
    BY <1>1, <2>1, <2>3
  <2>5. \A x, y \in 1 .. n - 1 : /\ from(x) = from(y) => x = y
                                 /\ y > x => from(y) > from(x)
    BY <1>1, <2>1
  <2>6. ASSUME NEW y \in 1 .. n, y # z
        PROVE  \E x \in 1 .. n - 1 : from(x) = y
    <3>1. CASE y < z
      <4>1. y \in 1 .. n - 1 /\ from(y) = y
        BY <1>1, <2>1, <3>1
      <4> QED BY <4>1
    <3>2. CASE y > z
      <4>1. y - 1 \in 1 .. n - 1 /\ from(y - 1) = y
        BY <1>1, <2>1, <3>2
      <4> QED BY <4>1
    <3> QED BY <1>1, <2>1, <2>6, <3>1, <3>2
  <2>7. \A x, y \in 1 .. n : h[x].pair = h[y].pair => x = y
    BY DEF Remembered
  <2>8. ASSUME NEW x \in 1 .. n - 1
        PROVE  /\ o[x].pair # q
               /\ Since(flows, o[x].pair) \cup {q}
                    = {o[y].pair : y \in x + 1 .. n - 1} \cup {q}
               /\ LastTimes(o[x].times, flows, Kept(flows, o[x].pair))
    <3>1. from(x) \in 1 .. n /\ from(x) # z /\ o[x] = h[from(x)]
      BY <2>4
    <3>2. o[x].pair # q
      <4> HIDE DEF from
      <4> QED BY <2>1, <2>7, <3>1
    <3>3. Since(flows, o[x].pair) = {h[y].pair : y \in from(x) + 1 .. n}
          /\ LastTimes(o[x].times, flows, Kept(flows, o[x].pair))
      <4> HIDE DEF from
      <4> QED BY <3>1 DEF Remembered
    <3>4. ASSUME NEW y \in x + 1 .. n - 1
          PROVE  \E v \in from(x) + 1 .. n : h[v].pair = o[y].pair
      <4>1. from(y) \in from(x) + 1 .. n /\ o[y] = h[from(y)]
        BY <1>1, <2>1, <2>4
      <4> QED BY <4>1
    <3>5. ASSUME NEW v \in from(x) + 1 .. n, h[v].pair # q
          PROVE  \E y \in x + 1 .. n - 1 : h[v].pair = o[y].pair
      <4>1. v \in 1 .. n /\ v # z
        BY <1>1, <2>1, <3>1, <3>5
      <4>2. PICK y \in 1 .. n - 1 : from(y) = v
        BY <2>6, <4>1
      <4>3. y \in x + 1 .. n - 1
        BY <1>1, <2>1, <4>2
      <4>4. o[y] = h[v]
        BY <2>4, <4>2
      <4> QED BY <4>3, <4>4
    <3>6. {h[y].pair : y \in from(x) + 1 .. n} \cup {q}
            = {o[y].pair : y \in x + 1 .. n - 1} \cup {q}
      <4> HIDE DEF from
      <4> QED BY <3>4, <3>5
    <3> QED BY <3>2, <3>3, <3>6
  <2>9. \A x, y \in 1 .. n - 1 : o[x].pair = o[y].pair => x = y
    <3> HIDE DEF from
    <3> QED BY <2>4, <2>5, <2>7
  <2>10. ASSUME NEW x \in 1 .. n, h[x].pair # q
         PROVE  \E y \in 1 .. n - 1 : o[y].pair = h[x].pair
    <3>1. PICK y \in 1 .. n - 1 : from(y) = x
      BY <2>1, <2>6, <2>10
    <3> HIDE DEF from
    <3> QED BY <2>4, <3>1
  <2>11. Len(o) <= MaxTrackedPairs
    BY <1>1, <2>3
  <2>12. OthersFit(o, h, flows, q)
    BY <2>3, <2>8, <2>9, <2>10, <2>11 DEF OthersFit
  <2> QED BY <2>12 DEF o
<1> QED BY <1>2, <1>3

\* One more flow, before the oldest pair gives way.
Moved(moved, flows, more, entry) ==
    /\ moved \in Seq(Entries) /\ Len(moved) \in 1 .. MaxTrackedPairs + 1
    /\ moved[Len(moved)] = entry
    /\ \A x, y \in 1 .. Len(moved) : moved[x].pair = moved[y].pair => x = y
    /\ \A x \in 1 .. Len(moved) :
          Since(more, moved[x].pair) = {moved[y].pair : y \in x + 1 .. Len(moved)}
    /\ \A x \in 1 .. Len(moved) - 1 :
          /\ moved[x].pair # entry.pair
          /\ LastTimes(moved[x].times, flows, Kept(flows, moved[x].pair))
    /\ \A p : Uses(more, p) # {} /\ (\A x \in 1 .. Len(moved) : moved[x].pair # p)
                => Cardinality(Since(more, p)) >= MaxTrackedPairs

LEMMA MovedToTheEnd ==
    ASSUME NEW h, NEW flows \in Seq(Flows), Remembered(h, flows), NEW f \in Flows,
           NEW entry \in Entries, entry.pair = PairKey(f)
    PROVE  Moved(Append(Others(h, PairKey(f)), entry), flows, Append(flows, f), entry)
<1> DEFINE q == PairKey(f)
           more == Append(flows, f)
           o == Others(h, q)
           moved == Append(o, entry)
           n == Len(o)
<1>1. OthersFit(o, h, flows, q)
  BY OthersFacts
<1>2. MaxTrackedPairs \in Nat \ {0}
  BY BeaconingAssumption DEF BeaconingInRange
<1> HIDE DEF o
<1>3. o \in Seq(Entries) /\ n \in Nat /\ n <= MaxTrackedPairs
  BY <1>1 DEF OthersFit
<1>4. /\ moved \in Seq(Entries) /\ Len(moved) = n + 1 /\ moved[n + 1] = entry
      /\ \A x \in 1 .. n : moved[x] = o[x]
  BY <1>3
<1> HIDE DEF moved
<1>5. \A x \in 1 .. n + 1 : x \in 1 .. n \/ x = n + 1
  BY <1>3
<1>6. ASSUME NEW x \in 1 .. n
      PROVE  /\ moved[x].pair # q
             /\ LastTimes(moved[x].times, flows, Kept(flows, moved[x].pair))
  <2> HIDE DEF n, q
  <2> QED BY <1>1, <1>4 DEF OthersFit, n
<1>7. ASSUME NEW x \in 1 .. n + 1, NEW y \in 1 .. n + 1, moved[x].pair = moved[y].pair
      PROVE  x = y
  <2>1. \A v, w \in 1 .. n : o[v].pair = o[w].pair => v = w
    BY <1>1 DEF OthersFit
  <2> HIDE DEF q, n
  <2> QED BY <1>4, <1>5, <1>6, <1>7, <2>1 DEF q
<1>8. /\ Since(more, q) = {}
      /\ \A p : p # q => /\ Since(more, p) = Since(flows, p) \cup {q}
                         /\ Uses(more, p) = Uses(flows, p)
  BY OneMore
<1> HIDE DEF more
<1>9. ASSUME NEW x \in 1 .. n + 1
      PROVE  Since(more, moved[x].pair) = {moved[y].pair : y \in x + 1 .. n + 1}
  <2>1. CASE x = n + 1
    <3>1. x + 1 .. n + 1 = {}
      BY <1>3, <2>1
    <3>2. Since(more, moved[x].pair) = {}
      BY <1>4, <1>8, <2>1
    <3> HIDE DEF n
    <3> QED BY <3>1, <3>2
  <2>2. CASE x \in 1 .. n
    <3>1. Since(more, moved[x].pair) = Since(flows, o[x].pair) \cup {q}
      <4>1. moved[x].pair # q /\ moved[x] = o[x]
        BY <1>4, <1>6, <2>2
      <4> HIDE DEF q
      <4> QED BY <1>8, <4>1
    <3>2. Since(flows, o[x].pair) \cup {q} = {o[y].pair : y \in x + 1 .. n} \cup {q}
      <4> HIDE DEF q
      <4> QED BY <1>1, <2>2 DEF OthersFit
    <3>3. \A y : y \in x + 1 .. n + 1 <=> y \in x + 1 .. n \/ y = n + 1
      BY <1>3, <2>2
    <3>4. \A y \in x + 1 .. n : moved[y].pair = o[y].pair
      <4>1. \A y \in x + 1 .. n : y \in 1 .. n
        BY <1>3, <2>2
      <4> QED BY <1>4, <4>1
    <3>5. moved[n + 1].pair = q
      BY <1>4
    <3>6. {o[y].pair : y \in x + 1 .. n} \cup {q} = {moved[y].pair : y \in x + 1 .. n + 1}
      <4> HIDE DEF q, n
      <4> QED BY <3>3, <3>4, <3>5
    <3> QED BY <3>1, <3>2, <3>6
  <2> QED BY <1>5, <2>1, <2>2
<1>10. ASSUME NEW p, Uses(more, p) # {}, \A x \in 1 .. n + 1 : moved[x].pair # p
       PROVE  Cardinality(Since(more, p)) >= MaxTrackedPairs
  <2>1. p # q
    <3>1. n + 1 \in 1 .. n + 1
      BY <1>3
    <3> QED BY <1>4, <1>10, <3>1
  <2>2. Since(more, p) = Since(flows, p) \cup {q} /\ Uses(flows, p) # {}
    <3> HIDE DEF q
    <3> QED BY <1>8, <1>10, <2>1
  <2>3. \A x \in 1 .. Len(h) : h[x].pair # p
    <3> SUFFICES ASSUME NEW x \in 1 .. Len(h), h[x].pair = p PROVE FALSE
      OBVIOUS
    <3>1. PICK y \in 1 .. n : o[y].pair = p
      BY <1>1, <2>1 DEF OthersFit
    <3>2. y \in 1 .. n + 1 /\ moved[y].pair = p
      BY <1>3, <1>4, <3>1
    <3> QED BY <1>10, <3>2
  <2>4. Cardinality(Since(flows, p)) >= MaxTrackedPairs
    BY <2>2, <2>3 DEF Remembered
  <2>5. IsFiniteSet(Since(flows, p)) /\ Cardinality(Since(flows, p)) \in Nat
    <3> DEFINE S == {x \in 1 .. Len(flows) : \A i \in Uses(flows, p) : x > i}
    <3>1. S \subseteq 1 .. Len(flows) /\ Len(flows) \in Nat
      OBVIOUS
    <3>2. Since(flows, p) = PairsAt(flows, S)
      BY DEF Since, PairsAt
    <3> HIDE DEF S
    <3> QED BY <3>1, <3>2, FinitePairs
  <2>6. IsFiniteSet(Since(more, p)) /\ Cardinality(Since(more, p)) \in Nat
    BY <2>2, <2>5, FS_AddElement, FS_CardinalityType
  <2>7. Cardinality(Since(flows, p)) <= Cardinality(Since(more, p))
    BY <2>2, <2>6, FS_Subset
  <2> QED BY <1>2, <2>4, <2>5, <2>6, <2>7
<1>11. n + 1 \in 1 .. MaxTrackedPairs + 1 /\ (n + 1) - 1 = n
  BY <1>2, <1>3
<1>12. entry.pair = q
  OBVIOUS
<1> HIDE DEF q, n
<1>13. Moved(moved, flows, more, entry)
  BY <1>4, <1>6, <1>7, <1>9, <1>10, <1>11, <1>12 DEF Moved
<1> QED BY <1>13 DEF q, more, moved, o

LEMMA TouchRemembers ==
    ASSUME NEW h, NEW flows \in Seq(Flows), Remembered(h, flows), NEW f \in Flows
    PROVE  Remembered(Touch(h, f), Append(flows, f))
<1> DEFINE q == PairKey(f)
           M == MaxTrackedPairs
           more == Append(flows, f)
           times == LastN(Append(TimesOf(h, q), f.ts), HistoryPerPair)
           entry == [pair |-> q, times |-> times]
           moved == Append(Others(h, q), entry)
           n == Len(moved)
           new == LastN(moved, M)
           d == n - Len(new)
<1>1. Touch(h, f) = new
  BY DEF Touch
<1>2. M \in Nat \ {0}
  BY BeaconingAssumption DEF BeaconingInRange
<1>3. /\ times \in Seq(Times)
      /\ LastTimes(times, more, Kept(flows, q) \cup {Len(flows) + 1})
  <2>1. TimesOf(h, q) \in Seq(Times) /\ LastTimes(TimesOf(h, q), flows, Kept(flows, q))
    BY TimesRemembered
  <2>2. Kept(flows, q) \subseteq 1 .. Len(flows)
    BY DEF Kept
  <2> HIDE DEF q
  <2> QED BY <2>1, <2>2, NextTime
<1>4. entry \in Entries /\ entry.pair = q /\ entry.times = times
  <2>1. q \in Pairs
    BY DEF Pairs
  <2> HIDE DEF times, q
  <2> QED BY <1>3, <2>1 DEF Entries
<1> HIDE DEF times, entry
<1>5. /\ moved \in Seq(Entries) /\ n \in 1 .. M + 1
      /\ moved[n] = entry
      /\ \A x, y \in 1 .. n : moved[x].pair = moved[y].pair => x = y
      /\ \A x \in 1 .. n :
            Since(more, moved[x].pair) = {moved[y].pair : y \in x + 1 .. n}
      /\ \A x \in 1 .. n - 1 :
            /\ moved[x].pair # q
            /\ LastTimes(moved[x].times, flows, Kept(flows, moved[x].pair))
      /\ \A p : Uses(more, p) # {} /\ (\A x \in 1 .. n : moved[x].pair # p)
                  => Cardinality(Since(more, p)) >= M
  <2>1. Moved(moved, flows, more, entry)
    BY <1>4, MovedToTheEnd
  <2> HIDE DEF moved, more, q
  <2> QED BY <1>4, <2>1 DEF Moved
<1> HIDE DEF moved, more, q
<1>6. /\ new \in Seq(Entries) /\ Len(new) = IF n > M THEN M ELSE n
      /\ \A x \in 1 .. Len(new) : new[x] = moved[d + x]
  <2> HIDE DEF M
  <2> QED BY <1>2, <1>5, LastNFacts
<1> HIDE DEF new
<1>7. /\ n \in Nat /\ Len(new) \in Nat /\ Len(new) <= M /\ 1 <= Len(new)
      /\ d \in Nat /\ d + Len(new) = n /\ d <= 1 /\ (d = 1 => Len(new) = M)
  BY <1>2, <1>5, <1>6
<1> HIDE DEF n, M
<1>8. \A x \in 1 .. Len(new) : d + x \in 1 .. n
  BY <1>7
<1>9. ASSUME NEW x \in 1 .. n
      PROVE  /\ IsFiniteSet(Since(more, moved[x].pair))
             /\ Cardinality(Since(more, moved[x].pair)) = n - x
  <2>1. x + 1 \in Nat /\ x + 1 <= n + 1 /\ n - (x + 1) + 1 = n - x
    BY <1>7
  <2>2. Distinct(moved, x + 1, n)
    BY <1>5, <1>7 DEF Distinct
  <2>3. /\ IsFiniteSet({moved[y].pair : y \in x + 1 .. n})
        /\ Cardinality({moved[y].pair : y \in x + 1 .. n}) = n - (x + 1) + 1
    <3> DEFINE a == x + 1
    <3>1. a \in Nat /\ n \in Nat /\ a <= n + 1 /\ Distinct(moved, a, n)
      BY <1>7, <2>1, <2>2
    <3> HIDE DEF a
    <3>2. /\ IsFiniteSet({moved[y].pair : y \in a .. n})
          /\ Cardinality({moved[y].pair : y \in a .. n}) = n - a + 1
      BY <3>1, PairsCounted
    <3> QED BY <3>2 DEF a
  <2> QED BY <1>5, <2>1, <2>3
<1>10. \A x, y \in 1 .. Len(new) : new[x].pair = new[y].pair => x = y
  <2> SUFFICES ASSUME NEW x \in 1 .. Len(new), NEW y \in 1 .. Len(new),
                      new[x].pair = new[y].pair
               PROVE  x = y
    OBVIOUS
  <2>1. d + x = d + y
    <3> HIDE DEF d
    <3> QED BY <1>5, <1>6, <1>8
  <2> QED BY <1>7, <2>1
<1>11. ASSUME NEW x \in 1 .. Len(new)
       PROVE  Since(more, new[x].pair) = {new[y].pair : y \in x + 1 .. Len(new)}
  <2>1. Since(more, new[x].pair) = {moved[y].pair : y \in d + x + 1 .. n}
    <3> HIDE DEF d
    <3> QED BY <1>5, <1>6, <1>8
  <2>2. \A y \in x + 1 .. Len(new) : d + y \in d + x + 1 .. n /\ new[y] = moved[d + y]
    BY <1>6, <1>7
  <2>3. \A v \in d + x + 1 .. n : v - d \in x + 1 .. Len(new) /\ moved[v] = new[v - d]
    <3> SUFFICES ASSUME NEW v \in d + x + 1 .. n
                 PROVE  v - d \in x + 1 .. Len(new) /\ moved[v] = new[v - d]
      OBVIOUS
    <3>1. v - d \in x + 1 .. Len(new) /\ v - d \in 1 .. Len(new) /\ d + (v - d) = v
      BY <1>7
    <3> QED BY <1>6, <3>1
  <2> HIDE DEF d
  <2>4. {moved[y].pair : y \in d + x + 1 .. n} = {new[y].pair : y \in x + 1 .. Len(new)}
    BY <2>2, <2>3
  <2> QED BY <2>1, <2>4
<1>12. ASSUME NEW x \in 1 .. Len(new)
       PROVE  LastTimes(new[x].times, more, Kept(more, new[x].pair))
  <2>1. Cardinality(Since(more, new[x].pair)) < MaxTrackedPairs
    <3>1. Cardinality(Since(more, moved[d + x].pair)) = n - (d + x)
      <4> HIDE DEF d
      <4> QED BY <1>8, <1>9
    <3>2. n - (d + x) < M
      <4>1. n - (d + x) = Len(new) - x
        BY <1>7
      <4>2. Len(new) \in Nat /\ Len(new) <= M /\ M \in Nat /\ x \in 1 .. Len(new)
        BY <1>2, <1>7
      <4>3. Len(new) - x < M
        BY <4>2
      <4> HIDE DEF d
      <4> QED BY <4>1, <4>3
    <3> HIDE DEF d
    <3> QED BY <1>6, <3>1, <3>2 DEF M
  <2>2. Kept(more, new[x].pair) =
          Kept(flows, new[x].pair) \cup (IF new[x].pair = q THEN {Len(flows) + 1} ELSE {})
    BY <2>1, KeptMore DEF more, q
  <2>3. CASE d + x = n
    <3>1. new[x] = entry
      <4> HIDE DEF d
      <4> QED BY <1>5, <1>6, <2>3
    <3>2. new[x].pair = q /\ new[x].times = times
      BY <1>4, <3>1
    <3> HIDE DEF d
    <3> QED BY <1>3, <2>2, <3>2
  <2>4. CASE d + x # n
    <3>1. d + x \in 1 .. n - 1 /\ new[x] = moved[d + x]
      BY <1>6, <1>7, <2>4
    <3> HIDE DEF d
    <3>2. new[x].pair # q /\ LastTimes(new[x].times, flows, Kept(flows, new[x].pair))
      BY <1>5, <3>1
    <3>3. Kept(more, new[x].pair) = Kept(flows, new[x].pair)
      BY <2>2, <3>2
    <3>4. Kept(flows, new[x].pair) \subseteq 1 .. Len(flows)
      BY DEF Kept
    <3> QED BY <3>2, <3>3, <3>4, SameTimes DEF more
  <2> QED BY <2>3, <2>4
<1>13. ASSUME NEW p, Uses(more, p) # {}, \A x \in 1 .. Len(new) : new[x].pair # p
       PROVE  Cardinality(Since(more, p)) >= M
  <2>1. CASE \A x \in 1 .. n : moved[x].pair # p
    BY <1>5, <1>13, <2>1
  <2>2. CASE ~\A x \in 1 .. n : moved[x].pair # p
    <3>1. PICK x \in 1 .. n : moved[x].pair = p
      BY <2>2
    <3>2. x <= d
      <4> SUFFICES ASSUME x > d PROVE FALSE
        BY <1>7
      <4>1. x - d \in 1 .. Len(new) /\ d + (x - d) = x
        BY <1>7
      <4>2. new[x - d] = moved[x]
        BY <1>6, <4>1
      <4> QED BY <1>13, <3>1, <4>1, <4>2
    <3>3. x = 1 /\ n = M + 1
      BY <1>2, <1>7, <3>2
    <3>4. Cardinality(Since(more, p)) = n - x
      BY <1>9, <3>1
    <3> QED BY <1>2, <3>3, <3>4 DEF M
  <2> QED BY <2>1, <2>2
<1>14. Remembered(new, more)
  <2> HIDE DEF d
  <2> QED BY <1>6, <1>7, <1>10, <1>11, <1>12, <1>13 DEF Remembered, M
<1> QED BY <1>1, <1>14 DEF more

\* The histories on the way through a batch.
LEMMA TouchedSteps ==
    ASSUME NEW start, NEW batch, Len(batch) \in Nat
    PROVE  \E after :
             /\ after[0] = start
             /\ \A i \in 1 .. Len(batch) : after[i] = Touch(after[i - 1], batch[i])
             /\ Touched(start, batch) = after[Len(batch)]
<1> DEFINE Step(n, x) == Touch(x, batch[n])
           Steps(f, k) == f = [i \in 0 .. k |-> IF i = 0 THEN start ELSE Touch(f[i - 1], batch[i])]
           S == {k \in Nat : \E f : Steps(f, k)}
<1>1. 0 \in S
  <2>1. Steps([i \in 0 .. 0 |-> start], 0)
    OBVIOUS
  <2> QED BY <2>1
<1>2. ASSUME NEW k \in Nat, k \in S PROVE k + 1 \in S
  <2>1. PICK f : Steps(f, k)
    BY <1>2
  <2> DEFINE h == [i \in 0 .. k + 1 |-> IF i <= k THEN f[i] ELSE Step(k + 1, f[k])]
  <2>2. \A i \in 0 .. k : h[i] = f[i]
    OBVIOUS
  <2>3. h[k + 1] = Step(k + 1, f[k])
    OBVIOUS
  <2>4. f[0] = start /\ \A i \in 1 .. k : f[i] = Step(i, f[i - 1])
    <3>1. \A i \in 0 .. k : f[i] = IF i = 0 THEN start ELSE Step(i, f[i - 1])
      BY <2>1
    <3>2. 0 \in 0 .. k /\ \A i \in 1 .. k : i \in 0 .. k /\ i # 0
      OBVIOUS
    <3> HIDE DEF Step
    <3> QED BY <3>1, <3>2
  <2>5. \A i \in 0 .. k + 1 : h[i] = IF i = 0 THEN start ELSE Step(i, h[i - 1])
    <3> SUFFICES ASSUME NEW i \in 0 .. k + 1
                 PROVE  h[i] = IF i = 0 THEN start ELSE Step(i, h[i - 1])
      OBVIOUS
    <3> HIDE DEF h, Step
    <3>1. CASE i = 0
      BY <3>1, <2>2, <2>4
    <3>2. CASE i \in 1 .. k
      <4>1. i - 1 \in 0 .. k /\ i \in 0 .. k
        BY <3>2
      <4> QED BY <3>2, <4>1, <2>2, <2>4
    <3>3. CASE i = k + 1
      <4>1. i - 1 = k /\ k \in 0 .. k /\ i # 0
        BY <3>3
      <4> QED BY <3>3, <4>1, <2>2, <2>3
    <3> QED BY <3>1, <3>2, <3>3
  <2>6. h = [i \in 0 .. k + 1 |-> h[i]]
    OBVIOUS
  <2>7. h = [i \in 0 .. k + 1 |-> IF i = 0 THEN start ELSE Step(i, h[i - 1])]
    <3> HIDE DEF h, Step
    <3> QED BY <2>5, <2>6
  <2>8. Steps(h, k + 1)
    <3> HIDE DEF h
    <3> QED BY <2>7
  <2>9. k + 1 \in Nat
    OBVIOUS
  <2> HIDE DEF h, Steps
  <2> QED BY <2>8, <2>9
<1>3. \A k \in Nat : k \in S
  <2> HIDE DEF S
  <2> QED BY <1>1, <1>2, NatInduct
<1> DEFINE after == CHOOSE f : Steps(f, Len(batch))
<1>4. Steps(after, Len(batch))
  BY <1>3
<1>5. Touched(start, batch) = after[Len(batch)]
  BY DEF Touched
<1> HIDE DEF after
<1>6. \A i \in 0 .. Len(batch) : after[i] = IF i = 0 THEN start ELSE Step(i, after[i - 1])
  BY <1>4
<1>7. after[0] = start /\ \A i \in 1 .. Len(batch) : after[i] = Step(i, after[i - 1])
  <2>1. 0 \in 0 .. Len(batch) /\ \A i \in 1 .. Len(batch) : i \in 0 .. Len(batch) /\ i # 0
    OBVIOUS
  <2> HIDE DEF Step
  <2> QED BY <1>6, <2>1
<1> QED BY <1>5, <1>7

LEMMA BatchTouched ==
    ASSUME NEW h, NEW flows \in Seq(Flows), Remembered(h, flows), NEW batch \in Seq(Flows)
    PROVE  Remembered(Touched(h, batch), flows \o batch)
<1> DEFINE n == Len(flows)
           all == flows \o batch
           upTo(k) == SubSeq(all, 1, n + k)
<1>1. n \in Nat /\ Len(batch) \in Nat
  OBVIOUS
<1>2. /\ all \in Seq(Flows) /\ Len(all) = n + Len(batch)
      /\ \A i \in 1 .. n + Len(batch) :
            all[i] = IF i <= n THEN flows[i] ELSE batch[i - n]
  BY ConcatProperties
<1>3. PICK after :
         /\ after[0] = h
         /\ \A i \in 1 .. Len(batch) : after[i] = Touch(after[i - 1], batch[i])
         /\ Touched(h, batch) = after[Len(batch)]
  BY <1>1, TouchedSteps
<1> HIDE DEF n, all
<1>4. ASSUME NEW k \in 0 .. Len(batch)
      PROVE  /\ upTo(k) \in Seq(Flows) /\ Len(upTo(k)) = n + k
             /\ \A i \in 1 .. n + k : upTo(k)[i] = all[i]
  <2>1. n + k \in 0 .. Len(all) /\ n + k \in Nat /\ Len(all) \in Nat
    BY <1>1, <1>2
  <2> QED BY <1>2, <2>1
<1>5. upTo(0) = flows
  <2>1. 0 \in 0 .. Len(batch) /\ n + 0 = n
    BY <1>1
  <2>2. upTo(0) \in Seq(Flows) /\ Len(upTo(0)) = n /\ \A i \in 1 .. n : upTo(0)[i] = all[i]
    BY <1>4, <2>1
  <2>3. \A i \in 1 .. n : all[i] = flows[i]
    BY <1>1, <1>2
  <2> HIDE DEF upTo
  <2> QED BY <2>2, <2>3, SeqEqual DEF n
<1>6. upTo(Len(batch)) = all
  <2>1. Len(batch) \in 0 .. Len(batch)
    BY <1>1
  <2>2. /\ upTo(Len(batch)) \in Seq(Flows) /\ Len(upTo(Len(batch))) = n + Len(batch)
        /\ \A i \in 1 .. n + Len(batch) : upTo(Len(batch))[i] = all[i]
    BY <1>4, <2>1
  <2> HIDE DEF upTo
  <2> QED BY <1>2, <2>2, SeqEqual
<1>7. ASSUME NEW k \in Nat, k + 1 <= Len(batch)
      PROVE  upTo(k + 1) = Append(upTo(k), batch[k + 1])
  <2>1. k \in 0 .. Len(batch) /\ k + 1 \in 0 .. Len(batch) /\ k + 1 \in 1 .. Len(batch)
    BY <1>1, <1>7
  <2>2. upTo(k) \in Seq(Flows) /\ Len(upTo(k)) = n + k
        /\ \A i \in 1 .. n + k : upTo(k)[i] = all[i]
    BY <1>4, <2>1
  <2>3. upTo(k + 1) \in Seq(Flows) /\ Len(upTo(k + 1)) = n + (k + 1)
        /\ \A i \in 1 .. n + (k + 1) : upTo(k + 1)[i] = all[i]
    BY <1>4, <2>1
  <2>4. all[n + (k + 1)] = batch[k + 1]
    <3>1. n + (k + 1) \in 1 .. n + Len(batch) /\ ~(n + (k + 1) <= n)
          /\ (n + (k + 1)) - n = k + 1
      BY <1>1, <1>7
    <3> QED BY <1>2, <3>1
  <2>5. batch[k + 1] \in Flows
    BY <2>1
  <2> DEFINE longer == Append(upTo(k), batch[k + 1])
  <2> HIDE DEF upTo
  <2>6. /\ longer \in Seq(Flows) /\ Len(longer) = (n + k) + 1
        /\ \A i \in 1 .. n + k : longer[i] = upTo(k)[i]
        /\ longer[(n + k) + 1] = batch[k + 1]
    BY <2>2, <2>5
  <2> HIDE DEF longer
  <2>7. n + (k + 1) = (n + k) + 1 /\ \A i \in 1 .. n + (k + 1) : i \in 1 .. n + k \/ i = n + (k + 1)
    BY <1>1
  <2>8. \A i \in 1 .. n + k : i \in 1 .. n + (k + 1)
    BY <1>1
  <2>9. \A i \in 1 .. n + (k + 1) : upTo(k + 1)[i] = longer[i]
    BY <2>2, <2>3, <2>4, <2>6, <2>7, <2>8
  <2>10. upTo(k + 1) = longer
    BY <2>3, <2>6, <2>7, <2>9, SeqEqual
  <2> QED BY <2>10 DEF longer
<1> DEFINE S == {k \in Nat : k <= Len(batch) => Remembered(after[k], upTo(k))}
<1>8. 0 \in S
  BY <1>3, <1>5
<1>9. ASSUME NEW k \in Nat, k \in S PROVE k + 1 \in S
  <2> SUFFICES ASSUME k + 1 <= Len(batch) PROVE Remembered(after[k + 1], upTo(k + 1))
    OBVIOUS
  <2>1. k \in 0 .. Len(batch) /\ k + 1 \in 1 .. Len(batch) /\ (k + 1) - 1 = k
    BY <1>1
  <2>2. Remembered(after[k], upTo(k)) /\ upTo(k) \in Seq(Flows)
    BY <1>4, <1>9, <2>1
  <2>3. batch[k + 1] \in Flows
    BY <2>1
  <2>4. after[k + 1] = Touch(after[k], batch[k + 1])
    BY <1>3, <2>1
  <2>5. upTo(k + 1) = Append(upTo(k), batch[k + 1])
    BY <1>7
  <2> HIDE DEF upTo
  <2> QED BY <2>2, <2>3, <2>4, <2>5, TouchRemembers
<1>10. \A k \in Nat : k \in S
  <2> HIDE DEF S
  <2> QED BY <1>8, <1>9, NatInduct
<1>11. Remembered(after[Len(batch)], upTo(Len(batch)))
  <2> HIDE DEF upTo
  <2> QED BY <1>1, <1>10
<1> QED BY <1>3, <1>6, <1>11 DEF all

\* The strengthening: the histories are those of the flows examined so far.
TimesFit == "beaconing" \in Enabled => Remembered(history, log)

LEMMA ExamineTouches ==
    ASSUME MemoryFits, TimesFit, NEW batch \in Seq(Flows), NEW keys, NEW isInjected,
           NEW faults, Examine(batch, keys, isInjected, faults)
    PROVE  TimesFit'
<1>1. log' = log \o batch
  BY DEF Examine
<1>2. "beaconing" \in Enabled => history' = Touched(history, batch)
  BY DEF Examine, BeaconingExamine
<1>3. log \in Seq(Flows)
  BY DEF MemoryFits
<1> QED BY <1>1, <1>2, <1>3, BatchTouched DEF TimesFit

LEMMA TimesFitInit == Init => TimesFit
<1> SUFFICES ASSUME Init PROVE Remembered(history, log)
  BY DEF TimesFit
<1>1. history = <<>> /\ log = <<>>
  BY DEF Init, BeaconingInit
<1>2. Len(<<>>) = 0 /\ 1 .. 0 = {} /\ <<>> \in Seq(Entries) /\ 0 <= MaxTrackedPairs
  BY BeaconingAssumption DEF BeaconingInRange
<1>3. \A p : Uses(<<>>, p) = {}
  BY <1>2 DEF Uses
<1>4. Remembered(<<>>, <<>>)
  BY <1>2, <1>3 DEF Remembered
<1> QED BY <1>1, <1>4

LEMMA TimesFitNext ==
    ASSUME MemoryFits, TimesFit, [Next]_vars
    PROVE  TimesFit'
<1>1. CASE Replay
  <2>1. PICK n \in 1 .. MaxBatch, again \in BOOLEAN :
          /\ pointer + n <= Len(Capture)
          /\ Examine(SubSeq(Capture, pointer + 1, pointer + n),
                     [i \in 1 .. n |-> <<session, pointer + i>>], FALSE,
                     IF again THEN 1 ELSE 0)
    BY <1>1 DEF Replay
  <2>2. pointer \in Nat /\ n \in Nat
    BY DEF MemoryFits
  <2>3. SubSeq(Capture, pointer + 1, pointer + n) \in Seq(Flows)
    BY <2>1, <2>2, ReplayedBatch
  <2> QED BY <2>1, <2>3, ExamineTouches
<1>2. CASE Restart
  BY <1>2 DEF Restart, TimesFit
<1>3. CASE Inject
  <2>1. PICK f \in ToSet(Pool) : Examine(<<f>>, <<<<0, injected'>>>>, TRUE, 0)
    BY <1>3 DEF Inject
  <2>2. <<f>> \in Seq(Flows)
    BY DEF Flows
  <2> QED BY <2>1, <2>2, ExamineTouches
<1>4. CASE UNCHANGED vars
  BY <1>4 DEF vars, TimesFit
<1> QED BY <1>1, <1>2, <1>3, <1>4 DEF Next

\* The beaconing detector remembers exactly the pairs used most recently, each with the last
\* times of that pair since it was last admitted, whatever batches, repetitions, failed
\* transactions, sessions and injections came (detection/beaconing.py, examine and _touch).
THEOREM RecentHistories == Spec => []HistoriesAreRecent
<1>1. Init => MemoryFits /\ FirstContactIsNovel /\ TimesFit
  BY RemembersInit, TimesFitInit
<1>2. MemoryFits /\ FirstContactIsNovel /\ TimesFit /\ [Next]_vars
        => (MemoryFits /\ FirstContactIsNovel /\ TimesFit)'
  BY RemembersNext, TimesFitNext
<1>3. MemoryFits /\ TimesFit => HistoriesAreRecent
  <2> SUFFICES ASSUME MemoryFits, TimesFit, "beaconing" \in Enabled
               PROVE  /\ \A i, j \in DOMAIN history :
                            history[i].pair = history[j].pair => i = j
                      /\ \A p : LastTimes(TimesOf(history, p), log, Kept(log, p))
    BY DEF HistoriesAreRecent
  <2>1. log \in Seq(Flows) /\ Remembered(history, log)
    BY DEF MemoryFits, TimesFit
  <2>2. \A i, j \in DOMAIN history : history[i].pair = history[j].pair => i = j
    BY <2>1 DEF Remembered
  <2>3. \A p : LastTimes(TimesOf(history, p), log, Kept(log, p))
    BY <2>1, TimesRemembered
  <2> QED BY <2>2, <2>3
<1> QED BY <1>1, <1>2, <1>3, PTL DEF Spec

=============================================================================
