--------------------------- MODULE SignatureEngine ----------------------------
(***************************************************************************)
(* The rules on one flow's metadata (backend/detection/signature.py).       *)
(*                                                                          *)
(* A flow is a record; of its ports and its size it carries what the rules  *)
(* tell apart: `traits` holds "small" (at most                              *)
(* signature_small_payload_bytes), "high_source" and "high_destination"     *)
(* (ports from 1024 up), "admin" (HIGH_RISK_ADMIN_PORTS) and "database"     *)
(* (DATABASE_SERVICE_PORTS).                                                *)
(***************************************************************************)
EXTENDS HybridFusion, FiniteSetsExt

CONSTANTS
    External,       \* addresses that parse and are not private
    KnownBad,       \* KNOWN_BAD_ADDRESSES
    Confidence      \* each rule's confidence

Traits == {"small", "high_source", "high_destination", "admin", "database"}
Rules == {"known_bad", "small_payload", "admin_port", "external_database"}

ASSUME SignatureAssumption == Confidence \in [Rules -> 0 .. Unit]

IsKnownBadAddress(f) == f.src \in KnownBad \/ f.dst \in KnownBad

IsSmallPayloadHighPort(f) ==
    {"small", "high_source", "high_destination"} \subseteq f.traits /\ f.dst \in External

IsHighRiskAdminPort(f) == "admin" \in f.traits
IsExternalToDatabasePort(f) == f.src \in External /\ "database" \in f.traits

Matches(f) ==
    {r \in Rules : \/ r = "known_bad" /\ IsKnownBadAddress(f)
                   \/ r = "small_payload" /\ IsSmallPayloadHighPort(f)
                   \/ r = "admin_port" /\ IsHighRiskAdminPort(f)
                   \/ r = "external_database" /\ IsExternalToDatabasePort(f)}

\* _examine_one(): the strongest match counts, not their sum.
SignatureVerdict(f) ==
    Heuristic(Matches(f) # {}, Max({0} \cup {Confidence[r] : r \in Matches(f)}))

=============================================================================
