---------------------------- MODULE MCNamespaces ----------------------------
(* Two entries for one home on the host "a", a third entry on "b", and this *)
(* machine; one tube; plays that register and plays that use.               *)
EXTENDS Namespaces, TLC

CONSTANTS r1, r2, r3, l1, lc

MCEntry == {r1, r2, r3, l1}
MCLocal == {l1}
MCName == {"a:22", "u@a:22", "b:22", "localhost", "", "all"}
MCRaw == (r1 :> "a:22") @@ (r2 :> "u@a:22") @@ (r3 :> "b:22") @@ (l1 :> "localhost")
MCClientName == (r1 :> "a:22") @@ (r2 :> "a:22") @@ (r3 :> "b:22") @@ (l1 :> "")
MCCmdName == {"set", "own", "use", "mix"}

MCVar == {"x", "y"}
MCKey == {"a", "b", "localhost", "tube", "jump"}
MCHostKey == (r1 :> "a") @@ (r2 :> "a") @@ (r3 :> "b") @@ (l1 :> "localhost")
MCTubeOf == (r1 :> "tube") @@ (r2 :> "none") @@ (r3 :> "tube") @@ (l1 :> "tube")
MCHomeOf == (r1 :> "a/u") @@ (r2 :> "a/u") @@ (r3 :> "b/u") @@ (l1 :> "here") @@ (lc :> "here")

To(dest, v) == [dest |-> dest, var |-> v]
Nothing == [k \in Kind |-> <<>>]
MCRegisters ==
    ("set" :> [Nothing EXCEPT !["run"] = <<To("tube", "x")>>])
    @@ ("own" :> [Nothing EXCEPT !["run"] = <<To("own", "x"), To("tube", "y")>>])
    @@ ("use" :> Nothing)
    @@ ("mix" :> [Nothing EXCEPT !["local"] = <<To("tube", "x"), To("own", "y")>>])

plain(name) == [name |-> name, script |-> "none", local |-> FALSE, run |-> 1, once |-> FALSE,
                serial |-> 0, upload |-> FALSE, dist |-> FALSE, env |-> FALSE, fetch |-> FALSE]
mix == [plain("mix") EXCEPT !.local = TRUE]

On(H, name) == [net |-> [hosts |-> H, bastion |-> FALSE], cmds |-> <<plain(name)>>]

PassPlaybooks ==
    { <<On({r1, r2}, "set"), On({r1, r3}, "use")>>,
      <<On({r1, r3}, "set"), On({r3}, "use")>>,
      <<On({r1}, "own"), On({r2}, "set"), On({r1, l1}, "use")>>,
      <<On({r1}, "set"), On({r3}, "set"), On({r1}, "use"), On({r3}, "use")>>,
      <<On({r3, l1}, "own"), On({r3, l1}, "use")>>,
      <<[net |-> [hosts |-> {l1}, bastion |-> TRUE], cmds |-> <<mix, plain("own")>>],
        On({r1}, "use")>> }

SomeFailure == {"connect", "command", "tube"}
TubeFailure == {"stat", "read", "remove"}
=============================================================================
