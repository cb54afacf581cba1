----------------------------- MODULE MCConnect -----------------------------
(* Small host lists for Connect: two entries for the same machine under     *)
(* different users, one other machine, and this machine.                    *)
EXTENDS Connect, TLC

CONSTANTS h1, h1b, h2, loc

MCEntry == {h1, h1b, h2, loc}
MCLocal == {loc}
MCName == {"a:22", "u@a:22", "b:22", "localhost", "", "all"}

\* h1 is written "a:22", h1b is written "u@a:22": GetHost() is "a:22" for both.
SharedRaw == (h1 :> "a:22") @@ (h1b :> "u@a:22") @@ (h2 :> "b:22") @@ (loc :> "localhost")
SharedClient == (h1 :> "a:22") @@ (h1b :> "a:22") @@ (h2 :> "b:22") @@ (loc :> "")

\* All three remote entries reach the machine named "a:22".
TripleRaw == (h1 :> "a:22") @@ (h1b :> "a:22") @@ (h2 :> "u@a:22") @@ (loc :> "localhost")
TripleClient == (h1 :> "a:22") @@ (h1b :> "a:22") @@ (h2 :> "a:22") @@ (loc :> "")

AnyFailure == {"bastion", "connect", "inventory"}
=============================================================================
