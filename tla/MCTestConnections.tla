------------------------- MODULE MCTestConnections -------------------------
(* Two networks for TestConnections: one behind a bastion, one with a name  *)
(* shared by two entries.                                                   *)
EXTENDS TestConnections, TLC

CONSTANTS h1, h1b, h2, loc, net1, net2

MCEntry == {h1, h1b, h2, loc}
MCLocal == {loc}
MCName == {"a:22", "u@a:22", "b:22", "localhost", "", "all"}
MCRaw == (h1 :> "a:22") @@ (h1b :> "u@a:22") @@ (h2 :> "b:22") @@ (loc :> "localhost")
MCClientName == (h1 :> "a:22") @@ (h1b :> "a:22") @@ (h2 :> "b:22") @@ (loc :> "")
MCNet == {net1, net2}
MCNetHosts == (net1 :> {h1, h1b, h2}) @@ (net2 :> {h2, loc})
MCNetBastion == {net2}
MCErrNamed == {}
AnyFailure == {"bastion", "connect", "inventory"}
=============================================================================
