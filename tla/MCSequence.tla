------------------------------ MODULE MCSequence ------------------------------
EXTENDS PowerSequence, TLC

CONSTANTS n, m, o1, o2, b

\* A node in a compute module, fed by two outlets.
Fed == (n :> "Node") @@ (m :> "ComputeModule")
         @@ (o1 :> "CabinetPDUPowerConnector") @@ (o2 :> "CabinetPDUPowerConnector")
FedAncestors == (n :> {m}) @@ (m :> {}) @@ (o1 :> {}) @@ (o2 :> {})
FedSupplies  == (n :> <<o1, o2>>) @@ (m :> <<>>) @@ (o1 :> <<>>) @@ (o2 :> <<>>)
FedChoices   == (n :> {{"on", "gracefulshutdown", "forceoff"}})
                  @@ (m :> {{"on", "off", "forceoff"}})
                  @@ (o1 :> {{"on", "off"}}) @@ (o2 :> {{"on", "off"}})

\* A node in a compute module, and a controller elsewhere.
Plain == (n :> "Node") @@ (m :> "ComputeModule") @@ (b :> "NodeBMC")
PlainAncestors == (n :> {m}) @@ (m :> {}) @@ (b :> {})
PlainSupplies  == (n :> <<>>) @@ (m :> <<>>) @@ (b :> <<>>)
PlainChoices   == (n :> {{"on", "gracefulshutdown", "forceoff"},
                         {"on", "off", "gracefulrestart"}})
                    @@ (m :> {{"on", "off", "forceoff"}})
                    @@ (b :> {{"forcerestart"}})
=============================================================================
