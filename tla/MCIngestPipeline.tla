-------------------------- MODULE MCIngestPipeline --------------------------
(***************************************************************************)
(* The capture days of the bounded check: every channel, the two origins,   *)
(* an asset inside the dependency graph and one outside of it.              *)
(***************************************************************************)
EXTENDS IngestPipeline

CONSTANTS plc, rogue

Flow(asset, kind, origin) == [asset |-> asset, kind |-> kind, origin |-> origin]

MCContents ==
    { <<Flow(plc, "tripwire", "replay"), Flow(plc, "hybrid", "replay")>>,
      <<Flow(plc, "loud", "replay"), Flow(rogue, "tripwire", "replay")>>,
      <<Flow(plc, "faint", "replay"), Flow(plc, "tripwire", "injected")>>,
      <<Flow(rogue, "hybrid", "replay"), Flow(plc, "quiet", "injected")>> }

\* A honeytoken touched again and again on one asset.
BurstContents == {[row \in Rows |-> Flow(plc, "tripwire", "replay")]}

=============================================================================
