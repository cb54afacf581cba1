------------------------- MODULE StackupProperties -------------------------
(***************************************************************************)
(* What one invocation of ssup guarantees, stated over Stackup.            *)
(***************************************************************************)
EXTENDS Stackup

InTask == pc \in {"launch", "io", "wait", "fetch"}
Members == {CS[k] : k \in 1 .. Len(CS)}

LS == INSTANCE LockStep WITH
          members <- IF InTask THEN Members ELSE {},
          started <- IF InTask THEN launched ELSE {},
          passed  <- IF InTask THEN waited ELSE {},
          outcome <- IF exit = "none" THEN "working"
                     ELSE IF exit = "ok" THEN "ok" ELSE "error"

\* The commands run in lock step: no task begins, and no invocation ends with
\* status 0, before every client of the task before it was started and
\* succeeded (run.go:81-94, 203-283; docs/base/targets.md:3-5).
LockStepped == LS!Spec

----------------------------------------------------------------------------

HostsOf(p) == {e \in Entry : <<p, e>> \in reached}
RanOn(p, i, kind) == {c \in Client : <<p, i, kind, c>> \in ran}

\* Part `kind` of a command went to one host if it is a once command, and to
\* every host the play is going on with otherwise.
Spreads(p, i, kind) ==
    IF playbook[p].cmds[i].once
      THEN \E e \in HostsOf(p) : RanOn(p, i, kind) = {e}
      ELSE RanOn(p, i, kind) = HostsOf(p)

Covered(p, i) ==
    LET c == playbook[p].cmds[i] IN
    /\ HasScript(c) => Spreads(p, i, "script")
    /\ c.local => RanOn(p, i, "local") = {LocalClient}
    /\ HasRun(c) => Spreads(p, i, "run")

\* Status 0 means done: unless a play was given up at its connections, every
\* command of every play ran with success on all the hosts it was for
\* (main.go:91-138, run.go:45-104).
ExitZeroMeansDone ==
    (exit = "ok" /\ (force \/ "connect" \notin faults)) =>
        \A p \in 1 .. Len(playbook) :
            \A i \in 1 .. Len(playbook[p].cmds) : Covered(p, i)

\* Apart from hosts that could not be connected and downloads, no failure is
\* forgotten on its way to the exit status: a failed upload or dist copy only
\* cancels the context (run.go:218-254), and it is the wait for the client
\* that was skipped that turns it into an error (ssh.go:444-446).
FailureReported == exit = "ok" => faults \subseteq {"connect", "fetch"}

\* A command runs only on a client of the current task that the task started;
\* from the wait on none runs any more (run.go:277-283).
NothingLeftBehind ==
    exit = "none" =>
        \A c \in Client : proc[c] = "running" => pc \in {"launch", "io"} /\ c \in launched

\* A failed connection, upload, dist copy, command or download lets what is
\* already running on other hosts finish before ssup exits, as the comments at
\* run.go:220 and 251 ask for.
StartedAwaited ==
    (exit # "none" /\ faults \subseteq {"connect", "upload", "dist", "command", "tube", "fetch"})
        => \A c \in Client : proc[c] # "running"

\* A serial command is never running on more than `serial` of the network's
\* hosts at once (create_tasks.go:231-239; docs/base/commands.md:24).
SerialBound ==
    (exit = "none" /\ InTask /\ Cmd.serial > 0 /\ ~Cmd.once) =>
        Cardinality({e \in Entry : proc[e] = "running"}) <= Cmd.serial

CmdOf(f) == playbook[f[1]].cmds[f[2]]

\* A part of a use of the download's command, this use or one before it, ran on
\* one client alone.
UsedAlone(f) ==
    \E p \in 1 .. f[1] : \E i \in 1 .. Len(playbook[p].cmds) :
        /\ p = f[1] => i <= f[2]
        /\ playbook[p].cmds[i].name = CmdOf(f).name
        /\ \E kind \in {"script", "local", "run"}, c \in Client : RanOn(p, i, kind) = {c}

\* Downloads of one command by two clients, in the same use of it or in
\* different ones, end in one path for two reasons only: the clients have one
\* name, which ssup appends, or none is appended, and then each remote one of
\* them came after a part of the command had run on one client alone: that
\* part's Flat stays with the orders (run.go:297-303, download.go:60-62).
DownloadsApart ==
    \A f, g \in fetched :
        (f[3] # g[3] /\ CmdOf(f).name = CmdOf(g).name /\ f[4] = g[4]) =>
            \/ {f[3], g[3]} \subseteq Remote /\ ClientName[f[3]] = ClientName[g[3]]
            \/ \A h \in {f, g} : h[3] \in Remote => UsedAlone(h)

\* Every invocation ends, if every dial is answered and every command ends.
Termination == <>(exit # "none")

----------------------------------------------------------------------------
(* What the documentation says and the code does not do. *)

\* "any error on any host will interrupt the process" (docs/base/targets.md:5):
\* a host that cannot be connected, without -z.
ConnectFailureReported == (exit = "ok" /\ ~force) => "connect" \notin faults

\* "sup production build pull ..." runs one command after the other
\* (docs/base/targets.md:20-24).
SecondCommandAccepted == "reject" \notin faults
=============================================================================
