-------------------------- MODULE MCHybridDetection ---------------------------
(***************************************************************************)
(* The bounded check of HybridDetection: a host that calls home every two   *)
(* seconds, its neighbours, and an honeytoken session captured later.       *)
(***************************************************************************)
EXTENDS HybridDetection

CONSTANTS a, b, c2, db     \* two hosts, an external address, a database server

Flow(ts, src, dst, traits, volumetric, supervised, honeytoken) ==
    [ts |-> ts, src |-> src, dst |-> dst, traits |-> traits,
     volumetric |-> [anomaly |-> volumetric > 4, score |-> volumetric],
     supervised |-> [anomaly |-> supervised > 4, score |-> supervised],
     honeytoken |-> honeytoken]

Outbound == {"small", "high_source", "high_destination"}

MCCapture == <<
    Flow(1, a, c2, Outbound, 0, 0, FALSE),
    Flow(2, b, db, {"database", "high_destination"}, 5, 0, FALSE),
    Flow(3, a, c2, Outbound, 0, 3, FALSE),
    Flow(5, a, c2, Outbound, 0, 7, FALSE),
    Flow(6, c2, db, {"database", "high_destination"}, 8, 8, FALSE)>>

MCPool == <<Flow(20, b, c2, {"high_destination"}, 0, 5, TRUE)>>

MCAnswers == {[outlier |-> TRUE, far |-> TRUE], [outlier |-> FALSE, far |-> FALSE]}

MCWeight == [volumetric |-> 1, supervised |-> 7, signature |-> 7, beaconing |-> 4,
             tgnn |-> 1, tripwire |-> 8]
MCConfidence == [known_bad |-> 7, small_payload |-> 4, admin_port |-> 3, external_database |-> 5]
MCCriticality == [x \in {a, b, c2} |-> IF x = b THEN 7 ELSE 5]
MCImpact == [x \in {a, b, c2} |-> IF x = b THEN 3 ELSE 1]

=============================================================================
