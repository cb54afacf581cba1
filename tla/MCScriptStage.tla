---------------------------- MODULE MCScriptStage ----------------------------
(* Two entries for one home, one with a home of its own, two entries for     *)
(* this machine; scripts and exports of equal and of different sizes.        *)
EXTENDS ScriptStage, TLC

CONSTANTS r1, r2, r3, l1, l2, lc

MCEntry == {r1, r2, r3, l1, l2}
MCLocal == {l1, l2}
MCName == {"a:22", "A:22", "b:22", "localhost", "127.0.0.1", "", "all"}
MCRaw == (r1 :> "a:22") @@ (r2 :> "A:22") @@ (r3 :> "b:22") @@ (l1 :> "localhost")
         @@ (l2 :> "127.0.0.1")
MCClientName == (r1 :> "a:22") @@ (r2 :> "A:22") @@ (r3 :> "b:22") @@ (l1 :> "") @@ (l2 :> "")
MCCmdName == {"date", "tidy", "root", "mix"}

MCHomeOf == (r1 :> "a/u") @@ (r2 :> "a/u") @@ (r3 :> "b/u") @@ (l1 :> "here") @@ (l2 :> "here")
            @@ (lc :> "here")
MCOldText == {<<"old", "short">>, <<"old", "long">>}

\* date and tidy are of one size, and so are the exports of r1 and r2.
MCSizeOf ==
    [t \in Text \cup {Truncated} |->
        CASE t = Truncated -> 0
          [] t = <<"old", "short">> -> 1
          [] t[1] = "run" -> IF t[2] \in {"date", "tidy"} THEN 1 ELSE 2
          [] t[1] = "env" -> IF t[3] \in {r1, r2} THEN 3 ELSE 4
          [] OTHER -> 5]

Nothing == [f \in File |-> NoFile]
Left(h, t) == [g \in Home |-> IF g = h THEN [f \in File |-> t] ELSE Nothing]
MCLeftovers ==
    {[h \in Home |-> Nothing]}
    \cup {Left("a/u", <<"old", "short">>), Left("b/u", <<"old", "short">>),
          Left("b/u", <<"old", "long">>), Left("b/u", Truncated),
          Left("here", <<"old", "short">>)}

plain(name) == [name |-> name, script |-> "none", local |-> FALSE, run |-> 1, once |-> FALSE,
                serial |-> 0, upload |-> FALSE, dist |-> FALSE, env |-> FALSE, fetch |-> FALSE]
mix == [plain("mix") EXCEPT !.local = TRUE]

On(H, cs) == [net |-> [hosts |-> H, bastion |-> FALSE], cmds |-> cs]

PassPlaybooks ==
    { <<On({r1, r2}, <<plain("date")>>), On({r1, r3}, <<plain("tidy")>>)>>,
      <<On({r1, r2}, <<plain("root")>>)>>,
      <<On({r1}, <<plain("root")>>), On({r2}, <<plain("date")>>)>>,
      <<On({r3, l1}, <<plain("root")>>)>>,
      <<On({l1, l2}, <<plain("date")>>)>>,
      <<On({l1}, <<plain("date"), mix, plain("tidy")>>)>>,
      <<On({r3}, <<mix>>)>> }
SudoPlaybooks == { <<On({r3}, <<plain("root")>>)>> }

SomeFailure == {"command", "stage", "run"}
StageFailure == {"mkdir", "pass"}
=============================================================================
