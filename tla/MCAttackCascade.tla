--------------------------- MODULE MCAttackCascade ----------------------------
EXTENDS AttackCascade, TLC

MCAssets == {"cam", "controller", "substation", "bank", "historian", "vault"}
MCCriticality == [cam |-> 2, controller |-> 9, substation |-> 10, bank |-> 9, historian |-> 6,
                  vault |-> 9]
MCZone == [cam |-> "0", controller |-> "1", substation |-> "1", bank |-> "5", historian |-> "2",
           vault |-> "2"]
MCGatewayName ==
    [z \in {"0", "1", "2", "5"} |->
        CASE z = "0" -> "Gateway_L0" [] z = "1" -> "Gateway_L1"
          [] z = "2" -> "Gateway_L2" [] z = "5" -> "Gateway_L5"]

Entry(src, type, tgt, chance, provider) ==
    [src |-> src, tgt |-> tgt, type |-> type, chance |-> chance, provider |-> provider]

\* A protected asset that depends on another, a common provider, two backup paths to one
\* node, another one behind it that redundancy protects in turn, and a protected asset whose
\* gateway no edge leads to.
MCDependencies ==
    << Entry("cam", "communicates_with", "controller", "maybe", NoProvider),
       Entry("cam", "shares_provider", "historian", "maybe", "isp"),
       Entry("cam", "shares_provider", "grid", "maybe", "isp"),
       Entry("controller", "depends_on", "substation", "maybe", NoProvider),
       Entry("substation", "depends_on", "grid", "always", NoProvider),
       Entry("historian", "backed_up_by", "archive", "maybe", NoProvider),
       Entry("grid", "backed_up_by", "archive", "maybe", NoProvider),
       Entry("bank", "pays_through", "cam", "maybe", NoProvider),
       Entry("archive", "controls", "bank", "never", NoProvider),
       Entry("archive", "backed_up_by", "ledger", "maybe", NoProvider),
       Entry("vault", "backed_up_by", "ledger", "maybe", NoProvider) >>

MCAddress == [cam |-> "ip1", controller |-> "ip2", substation |-> "ip3", bank |-> "ip4",
              historian |-> "ip5", vault |-> "ip7"]
MCNear == [ip6 |-> "ip2"]
MCTargets == {"substation", "vault"}
MCStrangers == {"far"}

Flow(row, label) == [row |-> row, source |-> "captured", label |-> label, traffic |-> row,
                     honeytoken |-> FALSE]
MCDays == [friday |-> <<Flow(<<"f", 2>>, "Bot"), Flow(<<"f", 3>>, "BENIGN"),
                        Flow(<<"f", 4>>, "Bot"), Flow(<<"f", 5>>, "Bot")>>,
             afternoon |-> <<Flow(<<"a", 2>>, "DDoS")>>]
MCScenarios ==
    [bot_c2 |-> [day |-> "friday", label |-> "Bot", honeytoken |-> FALSE],
     honeytoken |-> [day |-> "friday", label |-> "Bot", honeytoken |-> TRUE]]

=============================================================================
