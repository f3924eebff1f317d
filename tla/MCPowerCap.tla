------------------------------ MODULE MCPowerCap ------------------------------
EXTENDS PowerCap, TLC

CONSTANTS x, y, p1, w1

Cap(min, max) == [min |-> min, max |-> max]
Entry(check, schema, caps) == [check |-> check, schema |-> schema, caps |-> caps]

Two   == ("k1" :> Cap(2, 4)) @@ ("k2" :> Cap(-1, 4))
One   == "k2" :> Cap(-1, -1)

\* Each schema once with two controls, and every outcome of the checks.
MCInventories ==
    {(x :> Entry("ok", "controls", Two)) @@ (y :> Entry("unknown", "plain", <<>>)),
     (x :> Entry("ok", "plain", Two)) @@ (y :> Entry("management", "plain", One)),
     (x :> Entry("noTarget", "apollo", One)) @@ (y :> Entry("ok", "apollo", Two)),
     (x :> Entry("noTarget", "plain", One)) @@ (y :> Entry("noURI", "plain", One)),
     (x :> Entry("invalid", "plain", One)) @@ (y :> Entry("notNode", "plain", One))}

\* Limits in range, too low, too high, zero, and for a control that is not there.
MCWants == {(x :> (("k1" :> 3) @@ ("k2" :> 5))) @@ (y :> <<>>),
            (x :> ("k1" :> 0)) @@ (y :> ("k1" :> 1)),
            (x :> <<>>) @@ (y :> (("k1" :> 2) @@ ("k2" :> 4)))}
=============================================================================
