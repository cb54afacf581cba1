------------------------------ MODULE Stackup ------------------------------
(***************************************************************************)
(* One invocation of ssup: main runs the plays of the playbook in order    *)
(* (cmd/ssup/main.go:91-138), Run connects the play's hosts and takes its  *)
(* commands in order (src/usecase/run.go:45-104), CreateTasks cuts a       *)
(* command into tasks (src/usecase/create_tasks.go), and runTask starts a  *)
(* task on its clients, waits for all of them and fetches files            *)
(* (run.go:180-314).  The commands run concurrently on the hosts; the main *)
(* goroutine, the waiting goroutines and the commands interleave.          *)
(***************************************************************************)
EXTENDS Connect

CONSTANTS
    LocalClient,  \* the client made for the `local:` part of a command
    CmdName,      \* names of commands
    Playbooks     \* the playbooks ParseInitialArgs may have produced

Client == Entry \cup {LocalClient}
Remote == Entry \ Local

\* supfile.Command, reduced to what decides the control flow.  run is the
\* number of lines of its `run:` text as the Supfile has it, 0 without one.
Command == [name : CmdName, script : {"none", "file"}, local : BOOLEAN, run : Nat,
            once : BOOLEAN, serial : Nat, upload : BOOLEAN, dist : BOOLEAN,
            env : BOOLEAN, fetch : BOOLEAN]

Network == [hosts : SUBSET Entry, bastion : BOOLEAN]
Play == [net : Network, cmds : Seq(Command)]
Task == [kind : {"script", "local", "run"}, cs : Seq(Client)]

ASSUME StackupAssumption ==
    /\ LocalClient \notin Entry
    /\ Playbooks \subseteq Seq(Play)

VARIABLES
    playbook,  \* the plays of this invocation
    force,     \* -z
    pc,        \* where the main goroutine is
    play,      \* index of the current play
    cmd,       \* index of the current command
    tasks,     \* the tasks CreateTasks made of it
    task,      \* index of the current task
    cur,       \* index of the loop over a task's clients, or over all clients
    ctxDone,   \* Run's context is cancelled
    running,   \* clients whose field running is set
    sess,      \* remote clients whose field sess is not nil
    proc,      \* what the command started on a client is doing
    launched,  \* clients runTask has started the current task on
    waited,    \* clients whose Wait has returned nil for the current task
    flat,      \* commands whose downloads have been set to Flat
    reached,   \* history: <<play, entry>> for the clients Run went on with
    ran,       \* history: <<play, cmd, kind, client>> waited for successfully
    fetched    \* history: <<play, cmd, client, suffix>> downloads completed

runVars == <<playbook, force, pc, play, cmd, tasks, task, cur, ctxDone, running, sess,
             proc, launched, waited, flat, reached, ran, fetched>>
vars == <<connVars, runVars>>

\* Variables grouped by what a step usually leaves alone.
inputs == <<playbook, force>>
place == <<play, cmd, tasks, task>>
sessions == <<running, sess, proc, launched, waited>>
histories == <<reached, ran, fetched>>
connPhase == <<hosts, bastion, conn, arr, len, failed, at, n, lim, cphase>>

RunTypeOK ==
    /\ playbook \in Playbooks
    /\ force \in BOOLEAN
    /\ pc \in {"play", "connect", "command", "task", "launch", "io", "wait", "fetch", "close"}
    /\ play \in Nat \ {0} /\ cmd \in Nat \ {0} /\ task \in Nat \ {0} /\ cur \in Nat \ {0}
    /\ tasks \in Seq(Task)
    /\ ctxDone \in BOOLEAN
    /\ running \subseteq Client /\ sess \subseteq Remote
    /\ proc \in [Client -> {"idle", "running", "ok", "failed"}]
    /\ launched \subseteq Client /\ waited \subseteq Client
    /\ flat \subseteq CmdName
    /\ reached \subseteq Nat \X Entry
    /\ ran \subseteq Nat \X Nat \X {"script", "local", "run"} \X Client
    /\ fetched \subseteq Nat \X Nat \X Client \X SUBSET Name

TypeOK == ConnTypeOK /\ RunTypeOK

Cmds == playbook[play].cmds
Cmd == Cmds[cmd]
CS == tasks[task].cs

Alive(where) == exit = "none" /\ pc = where
Stop(status) == exit' = status
Fault(kind) == kind \in MayFail /\ faults' = faults \cup {kind}

----------------------------------------------------------------------------
(* main and the head of Run *)

\* A play's Run begins: fresh clients and a fresh context.
BeginPlay ==
    /\ Alive("play") /\ play <= Len(playbook) /\ Cmds # <<>>
    /\ StartConnect(playbook[play].net.hosts, playbook[play].net.bastion)
    /\ pc' = "connect"
    /\ ctxDone' = FALSE
    /\ running' = {} /\ sess' = {} /\ launched' = {} /\ waited' = {}
    /\ proc' = [c \in Client |-> "idle"]
    /\ UNCHANGED <<inputs, place, cur, flat, histories>>

\* Before Run: a command of the Supfile does not pass shellcheck; --only or
\* --except leaves no host, or --sshconfig names no file; a variable does not
\* resolve.
RunShellcheck == Fault("shellcheck") /\ Stop("error")
CheckInitialArgs == Fault("filter") /\ Stop("error")
MergeVars == Fault("resolve") /\ Stop("abort")

PlayRefused ==
    /\ Alive("play") /\ play <= Len(playbook)
    /\ RunShellcheck \/ CheckInitialArgs \/ MergeVars
    /\ UNCHANGED <<connPhase, runVars>>

NoCommands ==
    /\ Alive("play") /\ play <= Len(playbook) /\ Cmds = <<>>
    /\ Stop("error")
    /\ UNCHANGED <<connPhase, faults, runVars>>

AllPlaysDone ==
    /\ Alive("play") /\ play > Len(playbook)
    /\ Stop("ok")
    /\ UNCHANGED <<connPhase, faults, runVars>>

Connecting == Alive("connect") /\ ConnectStep /\ UNCHANGED runVars

\* Without -z a failed host ends Run, with WrapError of an err that is nil at
\* that point: the result is nil, and main goes on to the next play.
ConnectRefused ==
    /\ Alive("connect") /\ cphase = "ready" /\ failed # <<>> /\ ~force
    /\ pc' = "play" /\ play' = play + 1
    /\ cphase' = "idle"
    /\ UNCHANGED <<hosts, bastion, conn, arr, len, failed, sweepVars, faults, exit,
                   inputs, cmd, tasks, task, cur, ctxDone, sessions, flat, histories>>

ConnectAccepted ==
    /\ Alive("connect") /\ cphase = "ready" /\ (failed = <<>> \/ force)
    /\ pc' = "command" /\ cmd' = 1
    /\ reached' = reached \cup {<<play, e>> : e \in Kept}
    /\ UNCHANGED <<connVars, inputs, play, tasks, task, cur, ctxDone, sessions, flat, ran, fetched>>

----------------------------------------------------------------------------
(* CreateTasks *)

\* UnmarshalYAML passes run through processSourceLinks, which splits it into
\* lines and ends each with a newline; the empty text splits into one line.
processSourceLinks(lines) == IF lines = 0 THEN 1 ELSE lines

HasScript(c) == c.script # "none"
HasRun(c) == processSourceLinks(c.run) # 0

\* Mutant of processClientsInGroups: a group reaches one client into the next.
processClientsInWideGroups(k) ==
    [g \in 1 .. (len + k - 1) \div k |-> SubSeq(arr, k * (g - 1) + 1,
                                                IF k * g + 1 < len THEN k * g + 1 ELSE len)]

\* Groups of k clients, the last one with what is left.
processClientsInGroups(k) ==
    [g \in 1 .. (len + k - 1) \div k |-> SubSeq(arr, k * (g - 1) + 1,
                                                IF k * g < len THEN k * g ELSE len)]

ClientGroups(c) ==
    IF c.once THEN << <<arr[1]>> >>
    ELSE IF c.serial > 0 THEN processClientsInGroups(c.serial)
    ELSE <<clients>>

Spread(kind, c) ==
    [g \in 1 .. Len(ClientGroups(c)) |-> [kind |-> kind, cs |-> ClientGroups(c)[g]]]

TasksOf(c) ==
    (IF HasScript(c) THEN Spread("script", c) ELSE <<>>)
    \o (IF c.local THEN << [kind |-> "local", cs |-> <<LocalClient>>] >> ELSE <<>>)
    \o (IF HasRun(c) THEN Spread("run", c) ELSE <<>>)

\* once takes clients[0] of an empty slice; serial panics on a nil task list,
\* which it is unless a local part came before.
TasksPanic(c) ==
    /\ HasScript(c) \/ HasRun(c)
    /\ \/ c.once /\ len = 0
       \/ ~c.once /\ c.serial > 0 /\ (HasScript(c) \/ ~c.local)

NextCommand ==
    /\ Alive("command") /\ cmd <= Len(Cmds) /\ ~TasksPanic(Cmd)
    /\ tasks' = TasksOf(Cmd) /\ task' = 1
    /\ pc' = "task"
    /\ running' = running \ {LocalClient}
    /\ proc' = [proc EXCEPT ![LocalClient] = "idle"]
    /\ UNCHANGED <<connVars, inputs, play, cmd, cur, ctxDone, sess, launched, waited, flat, histories>>

CreateTasksPanics ==
    /\ Alive("command") /\ cmd <= Len(Cmds) /\ TasksPanic(Cmd)
    /\ Stop("abort")
    /\ UNCHANGED <<connPhase, faults, runVars>>

\* The script file cannot be read, or a command's env does not resolve.
CreateTasksFails ==
    /\ Alive("command") /\ cmd <= Len(Cmds)
    /\ \/ HasScript(Cmd) /\ Fault("script") /\ Stop("error")
       \/ Cmd.env /\ ~(HasScript(Cmd) /\ TasksPanic(Cmd)) /\ Fault("resolve") /\ Stop("abort")
    /\ UNCHANGED <<connPhase, runVars>>

CommandsDone ==
    /\ Alive("command") /\ cmd > Len(Cmds)
    /\ pc' = "close" /\ cur' = 1
    /\ UNCHANGED <<connVars, inputs, place, ctxDone, sessions, flat, histories>>

----------------------------------------------------------------------------
(* runTask: the loop that starts the task on each client *)

\* Mutant of BeginTask: the loop starts at index zero.
BeginTaskFromZero ==
    /\ Alive("task") /\ task <= Len(tasks) /\ CS # <<>>
    /\ pc' = "launch" /\ cur' = 0
    /\ launched' = {} /\ waited' = {}
    /\ UNCHANGED <<connVars, inputs, place, ctxDone, running, sess, proc, flat, histories>>

BeginTask ==
    /\ Alive("task") /\ task <= Len(tasks) /\ CS # <<>>
    /\ pc' = "launch" /\ cur' = 1
    /\ launched' = {} /\ waited' = {}
    /\ UNCHANGED <<connVars, inputs, place, ctxDone, running, sess, proc, flat, histories>>

NoClients ==
    /\ Alive("task") /\ task <= Len(tasks) /\ CS = <<>>
    /\ Stop("error")
    /\ UNCHANGED <<connPhase, faults, runVars>>

TasksDone ==
    /\ Alive("task") /\ task > Len(tasks)
    /\ pc' = "command" /\ cmd' = cmd + 1
    /\ UNCHANGED <<connVars, inputs, play, tasks, task, cur, ctxDone, sessions, flat, histories>>

AtClient == Alive("launch") /\ cur <= Len(CS)

SkipCancelled ==
    /\ AtClient /\ ctxDone
    /\ cur' = cur + 1
    /\ UNCHANGED <<connVars, inputs, pc, place, ctxDone, sessions, flat, histories>>

UploadFails ==
    /\ AtClient /\ ~ctxDone /\ Cmd.upload
    /\ Fault("upload")
    /\ ctxDone' = TRUE
    /\ cur' = cur + 1
    /\ UNCHANGED <<connPhase, exit, inputs, pc, place, sessions, flat, histories>>

\* Mutants of DistFails: the error is returned at once; the task is given up
\* and its error with it.
DistFailsReturns ==
    /\ AtClient /\ ~ctxDone /\ Cmd.dist
    /\ Fault("dist")
    /\ Stop("error")
    /\ UNCHANGED <<connPhase, runVars>>

DistFailsSkipsWait ==
    /\ AtClient /\ ~ctxDone /\ Cmd.dist
    /\ Fault("dist")
    /\ ctxDone' = TRUE
    /\ pc' = "task" /\ task' = task + 1
    /\ UNCHANGED <<connPhase, exit, inputs, play, cmd, tasks, cur, sessions, flat, histories>>

\* Unlike a failed upload this leaves the loop.
DistFails ==
    /\ AtClient /\ ~ctxDone /\ Cmd.dist
    /\ Fault("dist")
    /\ ctxDone' = TRUE
    /\ pc' = "io"
    /\ UNCHANGED <<connPhase, exit, inputs, place, cur, sessions, flat, histories>>

\* RemoteClient.Run refuses a client that has a session, or is running;
\* LocalhostClient.Run one that is running.
Refuses(c) == c \in running \/ c \in sess

\* An error of Run is returned at once: what runs elsewhere is left running.
RunRejected ==
    /\ AtClient /\ ~ctxDone /\ Refuses(CS[cur])
    /\ faults' = faults \cup {"reject"}
    /\ Stop("error")
    /\ UNCHANGED <<connPhase, runVars>>

RunFails ==
    /\ AtClient /\ ~ctxDone /\ ~Refuses(CS[cur])
    /\ Fault("run")
    /\ Stop("error")
    /\ UNCHANGED <<connPhase, runVars>>

\* FormatCommandBasedOnSudo ends the process when the host has no shell, and
\* panics when the script cannot be put on the host.
BuildFails ==
    /\ AtClient /\ ~ctxDone /\ ~Refuses(CS[cur])
    /\ \/ Fault("shell") /\ Stop("error")
       \/ Fault("stage") /\ Stop("abort")
    /\ UNCHANGED <<connPhase, runVars>>

Launch ==
    /\ AtClient /\ ~ctxDone /\ ~Refuses(CS[cur])
    /\ LET c == CS[cur] IN
         /\ proc' = [proc EXCEPT ![c] = "running"]
         /\ running' = running \cup {c}
         /\ sess' = sess \cup ({c} \cap Remote)
         /\ launched' = launched \cup {c}
    /\ cur' = cur + 1
    /\ UNCHANGED <<connVars, inputs, pc, place, ctxDone, waited, flat, histories>>

LaunchDone ==
    /\ Alive("launch") /\ cur > Len(CS)
    /\ pc' = "io"
    /\ UNCHANGED <<connVars, inputs, place, cur, ctxDone, sessions, flat, histories>>

\* The started command ends on its host, at any time.
Finish(c) ==
    /\ exit = "none" /\ proc[c] = "running"
    /\ \/ proc' = [proc EXCEPT ![c] = "ok"] /\ UNCHANGED faults
       \/ proc' = [proc EXCEPT ![c] = "failed"] /\ Fault("command")
    /\ UNCHANGED <<connPhase, exit, inputs, pc, place, cur, ctxDone, running, sess,
                   launched, waited, flat, histories>>

----------------------------------------------------------------------------
(* runTask: waiting for output, then for the clients, then the downloads *)

\* Mutant of OutputDone: the output is not waited for.
OutputUnawaited ==
    /\ Alive("io")
    /\ pc' = "wait"
    /\ UNCHANGED <<connVars, inputs, place, cur, ctxDone, sessions, flat, histories>>

\* The copies of stdout and stderr end when the commands do.
OutputDone ==
    /\ Alive("io") /\ \A c \in launched : proc[c] # "running"
    /\ pc' = "wait"
    /\ UNCHANGED <<connVars, inputs, place, cur, ctxDone, sessions, flat, histories>>

\* One goroutine per client of the task, started or not.
Waiting(c) == Alive("wait") /\ (\E k \in 1 .. Len(CS) : CS[k] = c) /\ c \notin waited

WaitStopped(c) ==
    /\ Waiting(c) /\ c \notin running
    /\ Stop("error")
    /\ UNCHANGED <<connPhase, faults, runVars>>

WaitFailed(c) ==
    /\ Waiting(c) /\ c \in running /\ proc[c] = "failed"
    /\ Stop("error")
    /\ UNCHANGED <<connPhase, faults, runVars>>

\* The variables file of the command cannot be fetched.
TubeFails(c) ==
    /\ Waiting(c) /\ c \in running /\ proc[c] = "ok"
    /\ Fault("tube")
    /\ Stop("error")
    /\ UNCHANGED <<connPhase, runVars>>

\* sess stays set: Wait closes the session and does not forget it.
WaitOk(c) ==
    /\ Waiting(c) /\ c \in running /\ proc[c] = "ok"
    /\ running' = running \ {c}
    /\ waited' = waited \cup {c}
    /\ ran' = ran \cup {<<play, cmd, tasks[task].kind, c>>}
    /\ UNCHANGED <<connVars, inputs, pc, place, cur, ctxDone, sess, proc, launched, flat,
                   reached, fetched>>

\* Mutants of WaitDone: one client that is done is enough; clients that were
\* not started are left out.
WaitDoneFirst ==
    /\ Alive("wait") /\ \E k \in 1 .. Len(CS) : CS[k] \in waited
    /\ pc' = "fetch" /\ cur' = 1
    /\ UNCHANGED <<connVars, inputs, place, ctxDone, sessions, flat, histories>>

WaitDoneStarted ==
    /\ Alive("wait") /\ launched \subseteq waited
    /\ pc' = "fetch" /\ cur' = 1
    /\ UNCHANGED <<connVars, inputs, place, ctxDone, sessions, flat, histories>>

WaitDone ==
    /\ Alive("wait") /\ \A k \in 1 .. Len(CS) : CS[k] \in waited
    /\ pc' = "fetch" /\ cur' = 1
    /\ UNCHANGED <<connVars, inputs, place, ctxDone, sessions, flat, histories>>

AtFetch == Alive("fetch") /\ cur <= Len(CS)

\* Mutant of MarkFlat: more than one client is taken for one.
MarkFlatAlways == flat' = IF Len(CS) >= 1 /\ Cmd.fetch THEN flat \cup {Cmd.name} ELSE flat

\* The orders in cmd.Fetch are shared by all tasks: a task with one client
\* turns Flat on for good.
MarkFlat == flat' = IF Len(CS) = 1 /\ Cmd.fetch THEN flat \cup {Cmd.name} ELSE flat

FetchSkipped ==
    /\ AtFetch /\ ctxDone
    /\ cur' = cur + 1
    /\ UNCHANGED <<connVars, inputs, pc, place, ctxDone, sessions, flat, histories>>

\* What the client's name adds to the path a download is written to: nothing,
\* if it is Flat; a client on this machine ignores Flat and adds nothing.
Suffix(c, isFlat) == IF c \in Remote /\ ~isFlat THEN {ClientName[c]} ELSE {}

FetchOk ==
    /\ AtFetch /\ ~ctxDone
    /\ MarkFlat
    /\ fetched' = IF Cmd.fetch
                    THEN fetched \cup {<<play, cmd, CS[cur], Suffix(CS[cur], Cmd.name \in flat')>>}
                    ELSE fetched
    /\ cur' = cur + 1
    /\ UNCHANGED <<connVars, inputs, pc, place, ctxDone, sessions, reached, ran>>

FetchFails ==
    /\ AtFetch /\ ~ctxDone /\ Cmd.fetch
    /\ Fault("fetch")
    /\ MarkFlat
    /\ ctxDone' = TRUE
    /\ cur' = cur + 1
    /\ UNCHANGED <<connPhase, exit, inputs, pc, place, sessions, histories>>

FetchDone ==
    /\ Alive("fetch") /\ cur > Len(CS)
    /\ pc' = "task" /\ task' = task + 1
    /\ UNCHANGED <<connVars, inputs, play, cmd, tasks, cur, ctxDone, sessions, flat, histories>>

----------------------------------------------------------------------------
(* the end of Run *)

CloseClient ==
    /\ Alive("close") /\ cur <= len
    /\ running' = IF arr[cur] \in Remote THEN running \ {arr[cur]} ELSE running
    /\ cur' = cur + 1
    /\ UNCHANGED <<connVars, inputs, pc, place, ctxDone, sess, proc, launched, waited, flat,
                   histories>>

CloseFails ==
    /\ Alive("close") /\ cur <= len /\ arr[cur] \in Remote
    /\ Fault("close")
    /\ Stop("error")
    /\ UNCHANGED <<connPhase, runVars>>

PlayDone ==
    /\ Alive("close") /\ cur > len
    /\ pc' = "play" /\ play' = play + 1
    /\ cphase' = "idle"
    /\ UNCHANGED <<hosts, bastion, conn, arr, len, failed, sweepVars, faults, exit,
                   inputs, cmd, tasks, task, cur, ctxDone, sessions, flat, histories>>

----------------------------------------------------------------------------

\* The steps of the main goroutine that make, cut up or start nothing.
OtherMainStep ==
    \/ PlayRefused \/ NoCommands \/ AllPlaysDone \/ ConnectRefused \/ ConnectAccepted
    \/ CreateTasksPanics \/ CreateTasksFails \/ CommandsDone
    \/ BeginTask \/ NoClients \/ TasksDone
    \/ SkipCancelled \/ UploadFails \/ DistFails
    \/ RunRejected \/ RunFails \/ BuildFails \/ LaunchDone
    \/ OutputDone \/ WaitDone
    \/ FetchSkipped \/ FetchOk \/ FetchFails \/ FetchDone
    \/ CloseClient \/ CloseFails \/ PlayDone

MainStep == BeginPlay \/ NextCommand \/ Launch \/ OtherMainStep

WaitReturns(c) == WaitStopped(c) \/ WaitFailed(c) \/ TubeFails(c) \/ WaitOk(c)

Init ==
    /\ playbook \in Playbooks
    /\ force \in BOOLEAN
    /\ hosts = {} /\ bastion = FALSE /\ conn = [e \in Entry |-> "idle"]
    /\ arr = <<>> /\ len = 0 /\ failed = <<>>
    /\ at = 1 /\ n = 1 /\ lim = 0
    /\ cphase = "idle" /\ faults = {} /\ exit = "none"
    /\ pc = "play" /\ play = 1 /\ cmd = 1 /\ tasks = <<>> /\ task = 1 /\ cur = 1
    /\ ctxDone = FALSE
    /\ running = {} /\ sess = {} /\ proc = [c \in Client |-> "idle"]
    /\ launched = {} /\ waited = {} /\ flat = {}
    /\ reached = {} /\ ran = {} /\ fetched = {}

Terminated == exit # "none" /\ UNCHANGED vars

Next ==
    \/ MainStep
    \/ Connecting
    \/ \E c \in Client : Finish(c) \/ WaitReturns(c)
    \/ Terminated

Spec == Init /\ [][Next]_vars
=============================================================================
