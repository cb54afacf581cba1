----------------------------- MODULE MCStackup -----------------------------
(* Small playbooks for Stackup: two remote hosts, one of them under two      *)
(* entries, two entries for this machine, commands of every shape the        *)
(* Supfile allows.                                                           *)
EXTENDS StackupProperties, TLC

CONSTANTS r1, r2, r3, l1, l2, lc

MCEntry == {r1, r2, r3, l1, l2}
MCLocal == {l1, l2}
MCName == {"r1:22", "u@r1:22", "r2:22", "localhost", "127.0.0.1", "", "all"}
MCRaw == (r1 :> "r1:22") @@ (r3 :> "u@r1:22") @@ (r2 :> "r2:22") @@
          (l1 :> "localhost") @@ (l2 :> "127.0.0.1")
MCClientName == (r1 :> "r1:22") @@ (r3 :> "r1:22") @@ (r2 :> "r2:22") @@
                (l1 :> "") @@ (l2 :> "")
MCCmdName == {"date", "ship", "roll", "one", "local", "both"}

plain == [name |-> "date", script |-> "none", local |-> FALSE, run |-> 1, once |-> FALSE,
          serial |-> 0, upload |-> FALSE, dist |-> FALSE, env |-> FALSE, fetch |-> FALSE]

ship == [plain EXCEPT !.name = "ship", !.upload = TRUE, !.dist = TRUE, !.fetch = TRUE]
roll == [plain EXCEPT !.name = "roll", !.local = TRUE, !.serial = 1, !.env = TRUE]
one == [plain EXCEPT !.name = "one", !.once = TRUE, !.fetch = TRUE]
localOnly == [plain EXCEPT !.name = "local", !.local = TRUE, !.run = 0]
both == [plain EXCEPT !.name = "both", !.script = "file"]
serialOnly == [plain EXCEPT !.name = "roll", !.serial = 1]

On(H, cs) == [net |-> [hosts |-> H, bastion |-> FALSE], cmds |-> cs]
Behind(H, cs) == [net |-> [hosts |-> H, bastion |-> TRUE], cmds |-> cs]

remotes == {r1, r2}
locals == {l1, l2}

\* One play against remote hosts, where a connection carries one command.
RemotePlaybooks ==
    { <<On(remotes, <<ship>>)>>,
      <<On(remotes \cup {l1}, <<plain>>)>>,
      <<On(remotes, <<one>>), On(remotes, <<ship>>)>>,
      <<On(remotes, <<roll>>)>>,
      <<Behind(remotes, <<plain>>), On({r1}, <<plain>>)>>,
      <<On(remotes, <<both>>)>>,
      <<On({r1}, <<plain, plain>>)>>,
      <<On({r1}, <<>>)>>,
      <<>> }

\* Downloads that could meet: of one machine under two entries, after a use on
\* one host, beside a local part, in groups.
FetchPlaybooks ==
    { <<On({r1, r3}, <<ship>>)>>,
      <<On({r1}, <<ship>>), On(remotes, <<ship>>)>>,
      <<On({r1, r2, l1}, <<ship>>)>>,
      <<On(remotes, <<[ship EXCEPT !.local = TRUE]>>)>>,
      <<On({r1, r2, l1}, <<[ship EXCEPT !.local = TRUE, !.serial = 2]>>)>> }

\* Several commands in a row, where every host is this machine.
LocalPlaybooks ==
    { <<On(locals, <<ship, roll>>)>>,
      <<On(locals, <<one, plain>>)>>,
      <<On({l1}, <<both, localOnly>>)>>,
      <<On(locals, <<serialOnly>>)>>,
      <<Behind(locals, <<plain>>), On({l1}, <<one>>)>> }

\* Three entries in two groups of a rolling update.
SerialPlaybooks ==
    { <<On({l1, l2, r1}, <<[roll EXCEPT !.serial = 2]>>)>>,
      <<On({l1, l2}, <<[roll EXCEPT !.serial = 3]>>)>>,
      <<On({r1, r2, l1}, <<[roll EXCEPT !.serial = 1]>>)>> }

\* Every command, and every pair of commands, on four networks.
Menu == {plain, ship, roll, one, localOnly, both, [roll EXCEPT !.serial = 2]}
MenuPlaybooks ==
    {<<On(H, cs)>> : H \in {remotes, locals, {r1, l1}, {r1, r2, l1}},
                     cs \in {<<a>> : a \in Menu} \cup {<<a, b>> : a, b \in Menu}}

HandPlaybooks == RemotePlaybooks \cup FetchPlaybooks \cup LocalPlaybooks \cup SerialPlaybooks
PassPlaybooks == HandPlaybooks \cup MenuPlaybooks
TwoCommandPlaybooks == { <<On(remotes, <<plain, plain>>)>> }

AnyFailure == FaultKind
NoFailure == {}
ConnectFailure == {"connect"}
=============================================================================
