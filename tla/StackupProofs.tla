--------------------------- MODULE StackupProofs ---------------------------
(***************************************************************************)
(* Proofs about an invocation, for every playbook, host list and choice of *)
(* failures.  RunInv is the inductive invariant: what the main goroutine   *)
(* knows about the clients at each place, and why a failure that only      *)
(* cancelled the context, or only shows in a command's status, cannot get  *)
(* past the wait for the clients.  From it: that commands run in lock      *)
(* step, how many hosts a serial command runs on at once, that failures    *)
(* other than those of a start leave no command running, where downloads   *)
(* go, and that status 0 means done.                                       *)
(***************************************************************************)
EXTENDS StackupProperties, ConnectProofs, SequenceTheorems, FiniteSetTheorems

\* A sequence of clients names each client once.
Once(cs) == \A i, k \in 1 .. Len(cs) : cs[i] = cs[k] => i = k

InRound == pc \in {"launch", "io", "wait"}

\* The indices are in range where they are used.
PlaceOK ==
    /\ pc # "play" => play <= Len(playbook)
    /\ (pc = "task" \/ InTask) => cmd <= Len(Cmds)
    /\ InTask => task <= Len(tasks)

TasksOnce == \A t \in 1 .. Len(tasks) : Once(tasks[t].cs)

\* A client's field running is set from its start to its wait, and only then.
ClientsOK ==
    /\ exit = "none" => running = IF InRound THEN launched \ waited ELSE {}
    /\ InTask => launched \subseteq Members /\ waited \subseteq launched
    /\ pc = "launch" => launched \subseteq {CS[k] : k \in 1 .. cur - 1}
    /\ pc \in {"launch", "io"} => waited = {}
    /\ pc = "fetch" => waited = Members

\* While it is not reported, a failed command has a client still to be waited
\* for, and a failed upload or dist copy has a client that was never started.
FailurePending ==
    /\ exit = "none" =>
         /\ faults \subseteq {"connect", "fetch", "command", "upload", "dist"}
         /\ "command" \in faults => InRound /\ \E c \in launched \ waited : proc[c] = "failed"
         /\ faults \cap {"upload", "dist"} # {} =>
                ctxDone /\ InRound /\ \E k \in 1 .. Len(CS) : CS[k] \notin launched
    /\ FailureReported

RunInv ==
    /\ ConnInv
    /\ RunTypeOK
    /\ PlaceOK
    /\ TasksOnce
    /\ ClientsOK
    /\ NothingLeftBehind
    /\ FailurePending

----------------------------------------------------------------------------
(* the tasks CreateTasks makes *)

\* A part of the client slice, or a single client, is a sequence of clients
\* that names each once.
LEMMA SliceOnce ==
    ASSUME ConnInv, NEW a \in Nat \ {0}, NEW b \in 0 .. len
    PROVE  SubSeq(arr, a, b) \in Seq(Client) /\ Once(SubSeq(arr, a, b))
<1>1. /\ arr \in Seq(Entry) /\ len \in 0 .. Len(arr)
      /\ \A i, k \in 1 .. len : arr[i] = arr[k] => i = k
  BY DEF ConnInv, ConnTypeOK, ClientsConnected
<1>2. \A i \in a .. b : arr[i] \in Client
  BY <1>1 DEF Client
<1>3. /\ SubSeq(arr, a, b) \in Seq(Client)
      /\ Len(SubSeq(arr, a, b)) = IF a <= b THEN b - a + 1 ELSE 0
      /\ \A i \in 1 .. b - a + 1 : SubSeq(arr, a, b)[i] = arr[a + i - 1]
  <2>1. a \in Int /\ b \in Int
    BY <1>1
  <2> QED
    BY <2>1, <1>2, SubSeqProperties
<1>4. ASSUME NEW i \in 1 .. Len(SubSeq(arr, a, b)), NEW k \in 1 .. Len(SubSeq(arr, a, b)),
             SubSeq(arr, a, b)[i] = SubSeq(arr, a, b)[k]
      PROVE  i = k
  <2>1. /\ i \in 1 .. b - a + 1 /\ k \in 1 .. b - a + 1
        /\ a + i - 1 \in 1 .. len /\ a + k - 1 \in 1 .. len
    BY <1>1, <1>3
  <2>2. arr[a + i - 1] = arr[a + k - 1]
    BY <1>3, <1>4, <2>1
  <2>3. a + i - 1 = a + k - 1
    BY <1>1, <2>1, <2>2
  <2> QED
    BY <2>1, <2>3
<1> QED
  BY <1>3, <1>4 DEF Once

\* Sequences of sequences of clients, each naming a client once.
Groups == {cs \in Seq(Client) : Once(cs)}

\* once, serial and plain commands all group clients so that none is named twice
\* in a group.
LEMMA ClientGroupsOnce ==
    ASSUME ConnInv, NEW c \in Command, c.once => len # 0
    PROVE  ClientGroups(c) \in Seq(Groups)
<1>1. arr \in Seq(Entry) /\ len \in 0 .. Len(arr) /\ len \in Nat
  BY DEF ConnInv, ConnTypeOK
<1>2. CASE c.once
  <2>1. arr[1] \in Client
    BY <1>1, <1>2 DEF Client
  <2>2. <<arr[1]>> \in Groups
    BY <2>1 DEF Groups, Once
  <2> QED
    BY <1>2, <2>2 DEF ClientGroups
<1>3. CASE ~c.once /\ c.serial > 0
  <2> DEFINE k == c.serial
             gs == (len + k - 1) \div k
  <2>1. k \in Nat \ {0} /\ len + k - 1 \in Nat
    BY <1>1, <1>3 DEF Command
  <2>2. gs \in Nat
    BY <2>1
  <2>3. ASSUME NEW g \in 1 .. gs
        PROVE  SubSeq(arr, k * (g - 1) + 1, IF k * g < len THEN k * g ELSE len) \in Groups
    <3>1. g \in Nat /\ g - 1 \in Nat
      BY <2>2
    <3>2. k * (g - 1) \in Nat /\ k * g \in Nat
      BY <2>1, <3>1
    <3> DEFINE a == k * (g - 1) + 1
               b == IF k * g < len THEN k * g ELSE len
    <3>3. a \in Nat \ {0} /\ b \in 0 .. len
      BY <1>1, <3>2
    <3> HIDE DEF a, b
    <3>4. SubSeq(arr, a, b) \in Groups
      BY <3>3, SliceOnce DEF Groups
    <3> QED
      BY <3>4 DEF a, b
  <2>4. ClientGroups(c) =
            [g \in 1 .. gs |-> SubSeq(arr, k * (g - 1) + 1, IF k * g < len THEN k * g ELSE len)]
    BY <1>3 DEF ClientGroups, processClientsInGroups
  <2> HIDE DEF gs
  <2> QED
    BY <2>2, <2>3, <2>4
<1>4. CASE ~c.once /\ ~(c.serial > 0)
  <2>1. clients \in Groups
    BY <1>1, SliceOnce DEF clients, Groups
  <2> QED
    BY <1>4, <2>1 DEF ClientGroups
<1> QED
  BY <1>2, <1>3, <1>4

OnceTask == {t \in Task : Once(t.cs)}

\* The tasks of one part of a command name each client once.
LEMMA SpreadOnce ==
    ASSUME ConnInv, NEW c \in Command, c.once => len # 0, NEW kind \in {"script", "run"}
    PROVE  Spread(kind, c) \in Seq(OnceTask)
<1>1. ClientGroups(c) \in Seq(Groups)
  BY ClientGroupsOnce
<1>2. \A g \in 1 .. Len(ClientGroups(c)) :
          [kind |-> kind, cs |-> ClientGroups(c)[g]] \in OnceTask
  BY <1>1 DEF Groups, OnceTask, Task
<1>3. Len(ClientGroups(c)) \in Nat
  BY <1>1
<1> QED
  BY <1>2, <1>3 DEF Spread

\* So do all tasks of a command.
LEMMA TasksOfOnce ==
    ASSUME ConnInv, NEW c \in Command, ~TasksPanic(c)
    PROVE  TasksOf(c) \in Seq(OnceTask)
<1>1. (HasScript(c) \/ HasRun(c)) => (c.once => len # 0)
  BY DEF TasksPanic
<1> DEFINE S == IF HasScript(c) THEN Spread("script", c) ELSE <<>>
           L == IF c.local THEN << [kind |-> "local", cs |-> <<LocalClient>>] >> ELSE <<>>
           R == IF HasRun(c) THEN Spread("run", c) ELSE <<>>
<1>2. S \in Seq(OnceTask)
  BY <1>1, SpreadOnce
<1>3. L \in Seq(OnceTask)
  <2>1. [kind |-> "local", cs |-> <<LocalClient>>] \in OnceTask
    BY DEF OnceTask, Task, Once, Client
  <2> QED
    BY <2>1
<1>4. R \in Seq(OnceTask)
  BY <1>1, SpreadOnce
<1> HIDE DEF S, L, R
<1>5. S \o L \o R \in Seq(OnceTask)
  BY <1>2, <1>3, <1>4
<1> QED
  BY <1>5 DEF TasksOf, S, L, R

----------------------------------------------------------------------------
(* steps *)

\* What a step inside a task knows of the task.
LEMMA TaskFacts ==
    ASSUME RunInv, task <= Len(tasks)
    PROVE  /\ task \in 1 .. Len(tasks) /\ tasks[task] \in Task
           /\ CS \in Seq(Client) /\ Len(CS) \in Nat /\ Once(CS)
           /\ Members \subseteq Client
<1>1. task \in 1 .. Len(tasks) /\ tasks \in Seq(Task)
  BY DEF RunInv, RunTypeOK
<1>2. tasks[task] \in Task
  BY <1>1
<1>3. CS \in Seq(Client) /\ Once(CS)
  BY <1>1, <1>2 DEF CS, Task, RunInv, TasksOnce
<1> QED
  BY <1>1, <1>2, <1>3 DEF Members

\* What a step inside a play knows of the command.
LEMMA CmdFacts ==
    ASSUME RunInv, play <= Len(playbook)
    PROVE  /\ play \in 1 .. Len(playbook) /\ playbook[play] \in Play
           /\ Cmds \in Seq(Command)
           /\ cmd <= Len(Cmds) => cmd \in 1 .. Len(Cmds) /\ Cmd \in Command
<1>1. play \in 1 .. Len(playbook) /\ playbook \in Seq(Play) /\ cmd \in Nat \ {0}
  BY StackupAssumption DEF RunInv, RunTypeOK
<1>2. playbook[play] \in Play
  BY <1>1
<1>3. Cmds \in Seq(Command)
  BY <1>2 DEF Cmds, Play
<1> QED
  BY <1>1, <1>2, <1>3 DEF Cmd

\* Exits with an error, wherever they happen.
LEMMA StopInv ==
    ASSUME RunInv, exit' \in {"error", "abort"}, faults' \subseteq FaultKind,
           UNCHANGED <<connPhase, runVars>>
    PROVE  RunInv'
<1> USE DEF connPhase, runVars, RunInv
<1>1. ConnInv'
  BY ConnFrame DEF sweepVars
<1>2. RunTypeOK'
  BY DEF RunTypeOK
<1>3. PlaceOK' /\ TasksOnce'
  BY DEF PlaceOK, TasksOnce, InTask, Cmds
<1>4. ClientsOK'
  BY DEF ClientsOK, InTask, Members, CS
<1>5. NothingLeftBehind' /\ FailurePending'
  BY DEF NothingLeftBehind, FailurePending, FailureReported
<1> QED
  BY <1>1, <1>2, <1>3, <1>4, <1>5

\* An invocation starts within the invariant.
LEMMA RunInitInv == Init => RunInv
<1> SUFFICES ASSUME Init PROVE RunInv
  OBVIOUS
<1> USE DEF Init
<1>1. ConnInv
  <2> HIDE DEF Init
  <2>0. /\ hosts = {} /\ bastion \in BOOLEAN /\ conn = [e \in Entry |-> "idle"]
        /\ arr = <<>> /\ len = 0 /\ failed = <<>> /\ at = 1 /\ n = 1 /\ lim = 0
        /\ cphase = "idle" /\ faults = {} /\ exit = "none"
    BY DEF Init
  <2> USE <2>0
  <2>1. ConnTypeOK
    BY DEF ConnTypeOK
  <2>2. Up = {} /\ Kept = {}
    BY DEF Up, Kept
  <2>3. ClientsConnected /\ DialComplete /\ LostOnlyByName
    BY <2>2 DEF ClientsConnected, DialComplete, LostOnlyByName
  <2>4. DialledHosts /\ NamesFailed /\ AllAnswered /\ FailureTold
    BY DEF DialledHosts, NamesFailed, AllAnswered, FailureTold
  <2> QED
    BY <2>1, <2>3, <2>4 DEF ConnInv
<1>2. RunTypeOK
  <2> HIDE DEF Init
  <2>1. ctxDone \in BOOLEAN /\ force \in BOOLEAN
    BY Zenon DEF Init
  <2>2. /\ playbook \in Playbooks /\ pc = "play" /\ play = 1 /\ cmd = 1 /\ tasks = <<>> /\ task = 1
        /\ cur = 1 /\ running = {} /\ sess = {} /\ proc = [c \in Client |-> "idle"]
        /\ launched = {} /\ waited = {} /\ flat = {} /\ reached = {} /\ ran = {} /\ fetched = {}
    BY DEF Init
  <2> QED
    BY <2>1, <2>2 DEF RunTypeOK
<1>3. PlaceOK /\ TasksOnce /\ ClientsOK
  BY DEF PlaceOK, TasksOnce, ClientsOK, InTask, InRound
<1>4. NothingLeftBehind /\ FailurePending
  BY DEF NothingLeftBehind, FailurePending, FailureReported
<1> QED
  BY <1>1, <1>2, <1>3, <1>4 DEF RunInv

\* Steps of the main goroutine that touch neither the connections nor the exit
\* status keep ConnInv.
LEMMA ConnKeptInv ==
    ASSUME RunInv, UNCHANGED <<connPhase, exit>>, faults' \subseteq FaultKind
    PROVE  ConnInv'
BY ConnFrame DEF RunInv, ConnInv, ConnTypeOK, connPhase, sweepVars

\* main and the head of Run.
LEMMA BeginPlayInv == ASSUME RunInv, BeginPlay PROVE RunInv'
<1> USE DEF BeginPlay, Alive, inputs, place, histories, RunInv
<1>1. ConnInv'
  <2>1. playbook[play] \in Play
    BY CmdFacts
  <2>2. playbook[play].net.hosts \in SUBSET Entry /\ playbook[play].net.bastion \in BOOLEAN
    BY <2>1 DEF Play, Network
  <2> QED
    BY <2>2, StartConnectInv
<1>2. RunTypeOK'
  <2>1. ctxDone' \in BOOLEAN
    BY Zenon
  <2> QED
    BY <2>1 DEF RunTypeOK
<1>3. PlaceOK' /\ TasksOnce'
  BY DEF PlaceOK, TasksOnce, InTask
<1>4. ClientsOK'
  BY DEF ClientsOK, InTask, InRound
<1>5. NothingLeftBehind' /\ FailurePending'
  BY DEF NothingLeftBehind, FailurePending, FailureReported, StartConnect, InRound
<1> QED
  BY <1>1, <1>2, <1>3, <1>4, <1>5

\* The playbook is done.
LEMMA AllPlaysDoneInv == ASSUME RunInv, AllPlaysDone PROVE RunInv'
<1> USE DEF AllPlaysDone, Alive, Stop, connPhase, runVars, RunInv
<1>1. ConnInv'
  BY ConnFrame DEF sweepVars, ConnInv, ConnTypeOK
<1>2. RunTypeOK'
  BY DEF RunTypeOK
<1>3. PlaceOK' /\ TasksOnce'
  BY DEF PlaceOK, TasksOnce, InTask, Cmds
<1>4. ClientsOK'
  BY DEF ClientsOK, InTask, InRound
<1>5. faults \subseteq {"connect", "fetch"}
  BY DEF FailurePending, InRound
<1>6. NothingLeftBehind' /\ FailurePending'
  BY <1>5 DEF NothingLeftBehind, FailurePending, FailureReported
<1> QED
  BY <1>1, <1>2, <1>3, <1>4, <1>6

\* What a step of the connection phase may do to the outcome.
LEMMA ConnectStepFaults ==
    ASSUME ConnectStep
    PROVE  /\ exit = "none"
           /\ exit' \in {"none", "error", "abort"}
           /\ exit' = "none" => faults' \subseteq faults \cup {"connect"}
<1>1. CASE BastionUp \/ BastionDown \/ BastionPanics
  BY <1>1 DEF BastionUp, BastionDown, BastionPanics
<1>2. ASSUME NEW e \in Entry, HostAnswers(e)
      PROVE  /\ exit = "none"
             /\ exit' \in {"none", "error", "abort"}
             /\ exit' = "none" => faults' \subseteq faults \cup {"connect"}
  BY <1>2 DEF HostAnswers, HostUp, HostDown, HostUnconfigured, InventoryPanics, Dialing, ReportFailure
<1>3. CASE Gathered \/ Sweep
  BY <1>3 DEF Gathered, Sweep, SweepMiss, SweepHit, SweepOutOfRange, SweepNextName, SweepEnds, Sweeping
<1> QED
  BY <1>1, <1>2, <1>3 DEF ConnectStep

\* The connection phase inside Run.
LEMMA ConnectingInv == ASSUME RunInv, Connecting PROVE RunInv'
<1> USE DEF Connecting, Alive, runVars, RunInv
<1>1. ConnInv'
  BY ConnectStepInv
<1>2. RunTypeOK'
  BY DEF RunTypeOK
<1>3. PlaceOK' /\ TasksOnce'
  BY DEF PlaceOK, TasksOnce, InTask, Cmds
<1>4. ClientsOK'
  BY DEF ClientsOK, InTask, InRound
<1>5. NothingLeftBehind' /\ FailurePending'
  BY ConnectStepFaults DEF NothingLeftBehind, FailurePending, FailureReported, InRound
<1> QED
  BY <1>1, <1>2, <1>3, <1>4, <1>5

\* The play is left, at its connections or at its end.
LEMMA LeavePlayInv == ASSUME RunInv, ConnectRefused \/ PlayDone PROVE RunInv'
<1> USE DEF ConnectRefused, PlayDone, Alive, inputs, sessions, histories, RunInv
<1>1. ConnInv'
  BY ConnFrame DEF ConnInv, ConnTypeOK
<1>2. RunTypeOK'
  BY DEF RunTypeOK
<1>3. PlaceOK' /\ TasksOnce'
  BY DEF PlaceOK, TasksOnce, InTask
<1>4. ClientsOK'
  BY DEF ClientsOK, InTask, InRound
<1>5. NothingLeftBehind' /\ FailurePending'
  BY DEF NothingLeftBehind, FailurePending, FailureReported, InRound
<1> QED
  BY <1>1, <1>2, <1>3, <1>4, <1>5

\* Run goes on with the clients it has.
LEMMA ConnectAcceptedInv == ASSUME RunInv, ConnectAccepted PROVE RunInv'
<1> USE DEF ConnectAccepted, Alive, connVars, inputs, sessions, RunInv
<1>1. ConnInv'
  BY ConnStutterInv
<1>2. RunTypeOK'
  <2>1. Kept \subseteq Entry /\ play \in Nat
    BY DEF Kept, ConnInv, ConnTypeOK, RunTypeOK
  <2>2. {<<play, e>> : e \in Kept} \subseteq Nat \X Entry
    BY <2>1
  <2>3. reached' \subseteq Nat \X Entry
    BY <2>2 DEF RunTypeOK
  <2>4. pc' = "command" /\ cmd' = 1 /\ UNCHANGED <<inputs, play, tasks, task, cur, ctxDone, sessions,
                                                  flat, ran, fetched>>
    BY DEF ConnectAccepted
  <2> HIDE DEF ConnectAccepted
  <2> QED
    BY <2>3, <2>4 DEF RunTypeOK
<1>3. PlaceOK' /\ TasksOnce'
  BY DEF PlaceOK, TasksOnce, InTask, Cmds
<1>4. ClientsOK'
  BY DEF ClientsOK, InTask, InRound
<1>5. NothingLeftBehind' /\ FailurePending'
  BY DEF NothingLeftBehind, FailurePending, FailureReported, InRound
<1> QED
  BY <1>1, <1>2, <1>3, <1>4, <1>5

\* The list of commands: the next one is cut into tasks, or there is none.
LEMMA NextCommandInv == ASSUME RunInv, NextCommand PROVE RunInv'
<1> USE DEF NextCommand, Alive, connVars, inputs, histories, RunInv
<1>1. ConnInv'
  BY ConnStutterInv
<1>2. tasks' \in Seq(OnceTask)
  <2>1. Cmd \in Command
    BY CmdFacts DEF PlaceOK
  <2> QED
    BY <2>1, TasksOfOnce
<1>3. tasks' \in Seq(Task) /\ TasksOnce'
  BY <1>2 DEF OnceTask, TasksOnce
<1>4. RunTypeOK'
  <2>1. proc' \in [Client -> {"idle", "running", "ok", "failed"}] /\ running' \subseteq Client
    BY DEF RunTypeOK
  <2> QED
    BY <1>3, <2>1 DEF RunTypeOK
<1>5. PlaceOK'
  BY DEF PlaceOK, InTask, Cmds
<1>6. ClientsOK'
  BY DEF ClientsOK, InTask, InRound
<1>7. NothingLeftBehind' /\ FailurePending'
  BY DEF NothingLeftBehind, FailurePending, FailureReported, InRound, RunTypeOK
<1> QED
  BY <1>1, <1>3, <1>4, <1>5, <1>6, <1>7

\* The commands of a play are done.
LEMMA CommandsDoneInv == ASSUME RunInv, CommandsDone PROVE RunInv'
<1> USE DEF CommandsDone, Alive, connVars, inputs, place, sessions, histories, RunInv
<1>1. ConnInv'
  BY ConnStutterInv
<1>2. RunTypeOK'
  BY DEF RunTypeOK
<1>3. PlaceOK' /\ TasksOnce'
  BY DEF PlaceOK, TasksOnce, InTask
<1>4. ClientsOK'
  BY DEF ClientsOK, InTask, InRound
<1>5. NothingLeftBehind' /\ FailurePending'
  BY DEF NothingLeftBehind, FailurePending, FailureReported, InRound
<1> QED
  BY <1>1, <1>2, <1>3, <1>4, <1>5

\* The list of tasks.
LEMMA BeginTaskInv == ASSUME RunInv, BeginTask PROVE RunInv'
<1> USE DEF BeginTask, Alive, connVars, inputs, place, histories, RunInv
<1>1. ConnInv'
  BY ConnStutterInv
<1>2. RunTypeOK'
  BY DEF RunTypeOK
<1>3. PlaceOK' /\ TasksOnce'
  BY DEF PlaceOK, TasksOnce, InTask, Cmds
<1>4. ClientsOK'
  BY DEF ClientsOK, InTask, InRound
<1>5. NothingLeftBehind' /\ FailurePending'
  BY DEF NothingLeftBehind, FailurePending, FailureReported, InRound
<1> QED
  BY <1>1, <1>2, <1>3, <1>4, <1>5

\* The tasks of a command are done.
LEMMA TasksDoneInv == ASSUME RunInv, TasksDone PROVE RunInv'
<1> USE DEF TasksDone, Alive, connVars, inputs, sessions, histories, RunInv
<1>1. ConnInv'
  BY ConnStutterInv
<1>2. RunTypeOK'
  BY DEF RunTypeOK
<1>3. PlaceOK' /\ TasksOnce'
  BY DEF PlaceOK, TasksOnce, InTask, Cmds
<1>4. ClientsOK'
  BY DEF ClientsOK, InTask, InRound
<1>5. NothingLeftBehind' /\ FailurePending'
  BY DEF NothingLeftBehind, FailurePending, FailureReported, InRound
<1> QED
  BY <1>1, <1>2, <1>3, <1>4, <1>5

\* The loop over the clients of a task.  A client it does not start is one more
\* reason why the wait cannot succeed.
LEMMA SkipCancelledInv == ASSUME RunInv, SkipCancelled PROVE RunInv'
<1> USE DEF SkipCancelled, AtClient, Alive, connVars, inputs, place, sessions, histories, RunInv
<1>1. ConnInv'
  BY ConnStutterInv
<1>2. RunTypeOK'
  BY DEF RunTypeOK
<1>3. PlaceOK' /\ TasksOnce'
  BY DEF PlaceOK, TasksOnce, InTask, Cmds
<1>4. CS' = CS /\ Members' = Members
  BY DEF CS, Members
<1>5. ClientsOK'
  <2>1. launched \subseteq {CS[k] : k \in 1 .. cur' - 1}
    BY DEF ClientsOK, RunTypeOK
  <2> QED
    BY <1>4, <2>1 DEF ClientsOK, InTask, InRound
<1>6. NothingLeftBehind' /\ FailurePending'
  BY <1>4 DEF NothingLeftBehind, FailurePending, FailureReported, InRound
<1> QED
  BY <1>1, <1>2, <1>3, <1>5, <1>6

\* A failed upload goes on with the loop, a failed dist copy leaves it; either
\* way the client at hand is never started.
LEMMA CancelInv == ASSUME RunInv, UploadFails \/ DistFails PROVE RunInv'
<1> USE DEF UploadFails, DistFails, AtClient, Alive, Fault, connPhase, inputs, place, sessions,
            histories, RunInv
<1>0. faults' \subseteq FaultKind
  BY DEF FaultKind, ConnInv, ConnTypeOK
<1>1. ConnInv'
  BY <1>0, ConnKeptInv
<1>2. RunTypeOK'
  <2>1. ctxDone' \in BOOLEAN
    BY Zenon
  <2>2. /\ pc' \in {"launch", "io"} /\ (cur' = cur \/ cur' = cur + 1)
        /\ UNCHANGED <<inputs, place, sessions, flat, histories>>
    OBVIOUS
  <2> HIDE DEF UploadFails, DistFails
  <2> QED
    BY <2>1, <2>2 DEF RunTypeOK
<1>3. PlaceOK' /\ TasksOnce'
  BY DEF PlaceOK, TasksOnce, InTask, Cmds
<1>4. CS' = CS /\ Members' = Members
  BY DEF CS, Members
<1>5. CS[cur] \notin launched /\ cur \in 1 .. Len(CS)
  <2>1. cur \in 1 .. Len(CS) /\ Once(CS)
    BY TaskFacts DEF RunTypeOK, PlaceOK, InTask
  <2>2. launched \subseteq {CS[k] : k \in 1 .. cur - 1}
    BY DEF ClientsOK
  <2>3. \A k \in 1 .. cur - 1 : CS[k] # CS[cur]
    BY <2>1 DEF Once
  <2> QED
    BY <2>1, <2>2, <2>3
<1>6. ClientsOK'
  <2>1. launched \subseteq {CS[k] : k \in 1 .. cur}
    BY <1>5 DEF ClientsOK
  <2>2. pc' = "launch" => launched \subseteq {CS[k] : k \in 1 .. cur' - 1}
    BY <2>1 DEF RunTypeOK
  <2>3. /\ pc' \in {"launch", "io"} /\ exit = "none" /\ waited = {} /\ running = launched
        /\ launched \subseteq Members
    BY DEF ClientsOK, InRound, InTask
  <2> QED
    BY <1>4, <2>2, <2>3 DEF ClientsOK, InTask, InRound
<1>7. NothingLeftBehind'
  BY DEF NothingLeftBehind
<1>8. FailurePending'
  <2>1. /\ pc' \in {"launch", "io"} /\ exit' = "none" /\ ctxDone' = TRUE
        /\ faults' \subseteq faults \cup {"upload", "dist"}
        /\ UNCHANGED <<launched, waited, proc>>
    OBVIOUS
  <2>2. \E k \in 1 .. Len(CS) : CS[k] \notin launched
    BY <1>5
  <2>3. /\ faults \subseteq {"connect", "fetch", "command", "upload", "dist"}
        /\ "command" \in faults => \E c \in launched \ waited : proc[c] = "failed"
    BY DEF FailurePending
  <2> HIDE DEF UploadFails, DistFails
  <2> QED
    BY <1>4, <2>1, <2>2, <2>3 DEF FailurePending, FailureReported, InRound
<1> QED
  BY <1>1, <1>2, <1>3, <1>6, <1>7, <1>8

\* A command is started on a client.
LEMMA LaunchInv == ASSUME RunInv, Launch PROVE RunInv'
<1> DEFINE c == CS[cur]
<1>0. /\ exit = "none" /\ pc = "launch" /\ ~ctxDone /\ c \notin running
      /\ proc' = [proc EXCEPT ![c] = "running"]
      /\ running' = running \cup {c}
      /\ sess' = sess \cup ({c} \cap Remote)
      /\ launched' = launched \cup {c}
      /\ cur' = cur + 1
      /\ UNCHANGED <<connVars, inputs, pc, place, ctxDone, waited, flat, histories>>
  BY DEF Launch, AtClient, Alive, Refuses
<1>00. cur \in 1 .. Len(CS) /\ c \in Client /\ c \in Members
  <2>1. cur \in 1 .. Len(CS) /\ CS \in Seq(Client)
    BY TaskFacts DEF Launch, AtClient, Alive, RunInv, RunTypeOK, PlaceOK, InTask
  <2> QED
    BY <2>1 DEF Members
<1> USE <1>0 DEF inputs, place, histories, RunInv
<1>1. ConnInv'
  BY ConnStutterInv
<1>2. RunTypeOK'
  <2>1. proc' \in [Client -> {"idle", "running", "ok", "failed"}]
    BY DEF RunTypeOK
  <2>2. running' \subseteq Client /\ launched' \subseteq Client /\ sess' \subseteq Remote
    BY <1>00 DEF RunTypeOK
  <2> QED
    BY <2>1, <2>2 DEF RunTypeOK
<1>3. PlaceOK' /\ TasksOnce'
  BY DEF PlaceOK, TasksOnce, InTask, Cmds
<1>4. CS' = CS /\ Members' = Members
  BY DEF CS, Members
<1>5. running = launched /\ waited = {}
  BY DEF ClientsOK, InRound
<1>6. ClientsOK'
  <2>1. launched \subseteq {CS[k] : k \in 1 .. cur - 1} /\ cur \in Nat
    BY DEF ClientsOK, RunTypeOK
  <2>2. ASSUME NEW d \in launched' PROVE \E k \in 1 .. cur : d = CS[k]
    BY <2>1, <1>00
  <2>3. launched' \subseteq {CS[k] : k \in 1 .. cur' - 1}
    BY <2>1, <2>2
  <2> QED
    BY <1>00, <1>4, <1>5, <2>3 DEF ClientsOK, InTask, InRound
<1>7. NothingLeftBehind'
  BY <1>00 DEF NothingLeftBehind, RunTypeOK
<1>8. FailurePending'
  <2>1. faults \cap {"upload", "dist"} = {}
    BY DEF FailurePending
  <2>2. ASSUME "command" \in faults
        PROVE  \E d \in launched' \ waited' : proc'[d] = "failed"
    <3>1. PICK d \in launched \ waited : proc[d] = "failed"
      BY <2>2 DEF FailurePending
    <3>2. d # c
      BY <1>5
    <3> QED
      BY <3>1, <3>2 DEF RunTypeOK
  <2> QED
    BY <2>1, <2>2 DEF connVars, FailurePending, FailureReported, InRound
<1> QED
  BY <1>1, <1>2, <1>3, <1>6, <1>7, <1>8

\* The loop is over.
LEMMA LaunchDoneInv == ASSUME RunInv, LaunchDone PROVE RunInv'
<1> USE DEF LaunchDone, Alive, connVars, inputs, place, sessions, histories, RunInv
<1>1. ConnInv'
  BY ConnStutterInv
<1>2. RunTypeOK'
  BY DEF RunTypeOK
<1>3. PlaceOK' /\ TasksOnce'
  BY DEF PlaceOK, TasksOnce, InTask, Cmds
<1>4. CS' = CS /\ Members' = Members
  BY DEF CS, Members
<1>5. ClientsOK'
  BY <1>4 DEF ClientsOK, InTask, InRound
<1>6. NothingLeftBehind' /\ FailurePending'
  BY <1>4 DEF NothingLeftBehind, FailurePending, FailureReported, InRound
<1> QED
  BY <1>1, <1>2, <1>3, <1>5, <1>6

\* A command that fails leaves its client behind as the witness that the wait
\* will meet.
LEMMA FinishInv == ASSUME RunInv, NEW c \in Client, Finish(c) PROVE RunInv'
<1>0. /\ exit = "none" /\ proc[c] = "running"
      /\ \/ proc' = [proc EXCEPT ![c] = "ok"] /\ faults' = faults
         \/ proc' = [proc EXCEPT ![c] = "failed"] /\ faults' = faults \cup {"command"}
      /\ UNCHANGED <<connPhase, exit, inputs, pc, place, cur, ctxDone, running, sess,
                     launched, waited, flat, histories>>
  BY DEF Finish, Fault
<1> USE <1>0 DEF inputs, place, histories, RunInv
<1>1. faults' \subseteq FaultKind
  BY DEF FaultKind, ConnInv, ConnTypeOK
<1>2. ConnInv'
  BY <1>1, ConnKeptInv
<1>3. RunTypeOK'
  <2>1. proc' \in [Client -> {"idle", "running", "ok", "failed"}]
    BY DEF RunTypeOK
  <2> QED
    BY <2>1 DEF RunTypeOK
<1>4. PlaceOK' /\ TasksOnce'
  BY DEF PlaceOK, TasksOnce, InTask, Cmds
<1>5. CS' = CS /\ Members' = Members
  BY DEF CS, Members
<1>6. ClientsOK'
  BY <1>5 DEF ClientsOK, InTask, InRound
<1>7. NothingLeftBehind'
  BY DEF NothingLeftBehind, RunTypeOK
<1>8. FailurePending'
  <2>1. pc \in {"launch", "io"} /\ c \in launched \ waited
    BY DEF NothingLeftBehind, ClientsOK
  <2>2. ASSUME "command" \in faults'
        PROVE  \E d \in launched \ waited : proc'[d] = "failed"
    <3>1. CASE proc' = [proc EXCEPT ![c] = "failed"]
      BY <3>1, <2>1 DEF RunTypeOK
    <3>2. CASE proc' = [proc EXCEPT ![c] = "ok"] /\ faults' = faults
      <4>1. PICK d \in launched \ waited : proc[d] = "failed"
        BY <2>2, <3>2 DEF FailurePending
      <4> QED
        BY <3>2, <4>1 DEF RunTypeOK
    <3> QED
      BY <3>1, <3>2
  <2> QED
    BY <1>5, <2>1, <2>2 DEF FailurePending, FailureReported, InRound
<1> QED
  BY <1>2, <1>3, <1>4, <1>6, <1>7, <1>8

\* The output has ended, so nothing runs any more.
LEMMA OutputDoneInv == ASSUME RunInv, OutputDone PROVE RunInv'
<1> USE DEF OutputDone, Alive, connVars, inputs, place, sessions, histories, RunInv
<1>1. ConnInv'
  BY ConnStutterInv
<1>2. RunTypeOK'
  BY DEF RunTypeOK
<1>3. PlaceOK' /\ TasksOnce'
  BY DEF PlaceOK, TasksOnce, InTask, Cmds
<1>4. CS' = CS /\ Members' = Members
  BY DEF CS, Members
<1>5. ClientsOK'
  BY <1>4 DEF ClientsOK, InTask, InRound
<1>6. NothingLeftBehind' /\ FailurePending'
  BY <1>4 DEF NothingLeftBehind, FailurePending, FailureReported, InRound
<1> QED
  BY <1>1, <1>2, <1>3, <1>5, <1>6

\* A client whose command has ended well is waited for.
LEMMA WaitOkInv == ASSUME RunInv, NEW c \in Client, WaitOk(c) PROVE RunInv'
<1>0. /\ exit = "none" /\ pc = "wait" /\ c \in running /\ proc[c] = "ok"
      /\ running' = running \ {c} /\ waited' = waited \cup {c}
      /\ ran' = ran \cup {<<play, cmd, tasks[task].kind, c>>}
      /\ UNCHANGED <<connVars, inputs, pc, place, cur, ctxDone, sess, proc, launched, flat,
                     reached, fetched>>
  BY DEF WaitOk, Waiting, Alive
<1> USE <1>0 DEF inputs, place, RunInv
<1>1. ConnInv'
  BY ConnStutterInv
<1>2. RunTypeOK'
  <2>1. tasks[task] \in Task
    BY TaskFacts DEF PlaceOK, InTask
  <2>2. <<play, cmd, tasks[task].kind, c>> \in Nat \X Nat \X {"script", "local", "run"} \X Client
    BY <2>1 DEF Task, RunTypeOK
  <2>3. ran' \subseteq Nat \X Nat \X {"script", "local", "run"} \X Client
    BY <2>2 DEF RunTypeOK
  <2> QED
    BY <2>3 DEF RunTypeOK
<1>3. PlaceOK' /\ TasksOnce'
  BY DEF PlaceOK, TasksOnce, InTask, Cmds
<1>4. CS' = CS /\ Members' = Members
  BY DEF CS, Members
<1>5. ClientsOK'
  BY <1>4 DEF ClientsOK, InTask, InRound
<1>6. NothingLeftBehind'
  BY DEF NothingLeftBehind
<1>7. FailurePending'
  BY <1>4 DEF connVars, FailurePending, FailureReported, InRound
<1> QED
  BY <1>1, <1>2, <1>3, <1>5, <1>6, <1>7

\* All have been waited for: no failure is pending any more.
LEMMA WaitDoneInv == ASSUME RunInv, WaitDone PROVE RunInv'
<1> USE DEF WaitDone, Alive, connVars, inputs, place, sessions, histories, RunInv
<1>1. ConnInv'
  BY ConnStutterInv
<1>2. RunTypeOK'
  BY DEF RunTypeOK
<1>3. PlaceOK' /\ TasksOnce'
  BY DEF PlaceOK, TasksOnce, InTask, Cmds
<1>4. CS' = CS /\ Members' = Members
  BY DEF CS, Members
<1>5. waited = Members /\ launched = waited
  <2>1. launched \subseteq Members /\ waited \subseteq launched
    BY DEF ClientsOK, InTask
  <2>2. Members \subseteq waited
    BY DEF Members
  <2> QED
    BY <2>1, <2>2
<1>6. ClientsOK'
  BY <1>4, <1>5 DEF ClientsOK, InTask, InRound
<1>7. "command" \notin faults /\ faults \cap {"upload", "dist"} = {}
  BY <1>5 DEF FailurePending, Members
<1>8. NothingLeftBehind' /\ FailurePending'
  BY <1>7 DEF NothingLeftBehind, FailurePending, FailureReported
<1> QED
  BY <1>1, <1>2, <1>3, <1>6, <1>8

\* The downloads.
LEMMA FetchInv == ASSUME RunInv, FetchSkipped \/ FetchOk \/ FetchFails PROVE RunInv'
<1>0. /\ exit = "none" /\ pc = "fetch" /\ cur \in 1 .. Len(CS)
      /\ cur' = cur + 1
      /\ faults' = faults \/ faults' = faults \cup {"fetch"}
      /\ flat' = flat \/ flat' = flat \cup {Cmd.name}
      /\ \/ fetched' = fetched
         \/ fetched' = fetched \cup {<<play, cmd, CS[cur], Suffix(CS[cur], Cmd.name \in flat')>>}
      /\ UNCHANGED <<connPhase, exit, inputs, pc, place, sessions, reached, ran>>
  BY DEF FetchSkipped, FetchOk, FetchFails, MarkFlat, AtFetch, Alive, Fault, connVars, connPhase,
         histories, RunInv, RunTypeOK
<1>00. ctxDone' \in BOOLEAN
  <2>1. ctxDone' = ctxDone \/ ctxDone' = TRUE
    BY DEF FetchSkipped, FetchOk, FetchFails
  <2> QED
    BY <2>1, Zenon DEF RunInv, RunTypeOK
<1> USE <1>0 DEF inputs, place, sessions, RunInv
<1>1. faults' \subseteq FaultKind
  BY DEF FaultKind, ConnInv, ConnTypeOK
<1>2. ConnInv'
  BY <1>1, ConnKeptInv
<1>3. RunTypeOK'
  <2>1. CS[cur] \in Client /\ Cmd \in Command
    BY TaskFacts, CmdFacts DEF PlaceOK, InTask
  <2>2. flat' \subseteq CmdName
    BY <2>1 DEF Command, RunTypeOK
  <2>3. fetched' \subseteq Nat \X Nat \X Client \X SUBSET Name
    <3>1. PICK x : x = Suffix(CS[cur], Cmd.name \in flat')
      OBVIOUS
    <3>2. x \in SUBSET Name
      <4>1. x = {} \/ (CS[cur] \in Entry /\ x = {ClientName[CS[cur]]})
        BY <3>1 DEF Suffix, Remote
      <4> QED
        BY <4>1, ConnectAssumption
    <3>3. play \in Nat /\ cmd \in Nat
      BY DEF RunTypeOK
    <3>4. <<play, cmd, CS[cur], x>> \in Nat \X Nat \X Client \X SUBSET Name
      BY <2>1, <3>2, <3>3
    <3>5. fetched' \subseteq fetched \cup {<<play, cmd, CS[cur], x>>}
      BY <3>1
    <3> QED
      BY <3>4, <3>5 DEF RunTypeOK
  <2> QED
    BY <1>00, <2>2, <2>3 DEF RunTypeOK
<1>4. PlaceOK' /\ TasksOnce'
  BY DEF PlaceOK, TasksOnce, InTask, Cmds
<1>5. CS' = CS /\ Members' = Members
  BY DEF CS, Members
<1>6. ClientsOK'
  BY <1>5 DEF ClientsOK, InTask, InRound
<1>7. NothingLeftBehind' /\ FailurePending'
  BY DEF NothingLeftBehind, FailurePending, FailureReported, InRound
<1> QED
  BY <1>2, <1>3, <1>4, <1>6, <1>7

\* The downloads of a task are over.
LEMMA FetchDoneInv == ASSUME RunInv, FetchDone PROVE RunInv'
<1> USE DEF FetchDone, Alive, connVars, inputs, sessions, histories, RunInv
<1>1. ConnInv'
  BY ConnStutterInv
<1>2. RunTypeOK'
  BY DEF RunTypeOK
<1>3. PlaceOK' /\ TasksOnce'
  BY DEF PlaceOK, TasksOnce, InTask, Cmds
<1>4. ClientsOK'
  BY DEF ClientsOK, InTask, InRound
<1>5. NothingLeftBehind' /\ FailurePending'
  BY DEF NothingLeftBehind, FailurePending, FailureReported, InRound
<1> QED
  BY <1>1, <1>2, <1>3, <1>4, <1>5

\* The end of Run.
LEMMA CloseClientInv == ASSUME RunInv, CloseClient PROVE RunInv'
<1> USE DEF CloseClient, Alive, connVars, inputs, place, histories, RunInv
<1>1. ConnInv'
  BY ConnStutterInv
<1>2. RunTypeOK'
  BY DEF RunTypeOK
<1>3. PlaceOK' /\ TasksOnce'
  BY DEF PlaceOK, TasksOnce, InTask
<1>4. ClientsOK'
  BY DEF ClientsOK, InTask, InRound
<1>5. NothingLeftBehind' /\ FailurePending'
  BY DEF NothingLeftBehind, FailurePending, FailureReported, InRound
<1> QED
  BY <1>1, <1>2, <1>3, <1>4, <1>5

\* Everything that ends the invocation with an error.
LEMMA StopsInv ==
    ASSUME RunInv,
           \/ PlayRefused \/ NoCommands \/ CreateTasksPanics \/ CreateTasksFails \/ NoClients
           \/ RunRejected \/ RunFails \/ BuildFails \/ CloseFails
           \/ \E c \in Client : WaitStopped(c) \/ WaitFailed(c) \/ TubeFails(c)
    PROVE  RunInv'
<1>1. /\ exit' \in {"error", "abort"}
      /\ UNCHANGED <<connPhase, runVars>>
      /\ faults' \subseteq faults \cup
                     {"shellcheck", "filter", "script", "resolve", "reject", "run", "shell", "stage", "close", "tube"}
  BY DEF PlayRefused, RunShellcheck, CheckInitialArgs, MergeVars, NoCommands, CreateTasksPanics, CreateTasksFails, NoClients, RunRejected, RunFails,
         BuildFails, CloseFails, WaitStopped, WaitFailed, TubeFails, Stop, Fault
<1>2. faults' \subseteq FaultKind
  BY <1>1 DEF FaultKind, RunInv, ConnInv, ConnTypeOK
<1> QED
  BY <1>1, <1>2, StopInv

\* Stuttering keeps the invariant.
LEMMA RunStutterInv == ASSUME RunInv, UNCHANGED vars PROVE RunInv'
<1> USE DEF vars, connVars, runVars, RunInv
<1>1. ConnInv'
  BY ConnStutterInv
<1>2. RunTypeOK'
  BY DEF RunTypeOK
<1>3. PlaceOK' /\ TasksOnce'
  BY DEF PlaceOK, TasksOnce, InTask, Cmds
<1>4. CS' = CS /\ Members' = Members
  BY DEF CS, Members
<1>5. ClientsOK'
  BY <1>4 DEF ClientsOK, InTask, InRound
<1>6. NothingLeftBehind' /\ FailurePending'
  BY <1>4 DEF NothingLeftBehind, FailurePending, FailureReported, InRound
<1> QED
  BY <1>1, <1>2, <1>3, <1>5, <1>6

\* Every step keeps the invariant.
LEMMA RunStepInv == ASSUME RunInv, Next PROVE RunInv'
<1>1. CASE MainStep
  BY <1>1, BeginPlayInv, AllPlaysDoneInv, LeavePlayInv, ConnectAcceptedInv, NextCommandInv,
     CommandsDoneInv, BeginTaskInv, TasksDoneInv, SkipCancelledInv, CancelInv, LaunchInv,
     LaunchDoneInv, OutputDoneInv, WaitDoneInv, FetchInv, FetchDoneInv, CloseClientInv, StopsInv
     DEF MainStep, OtherMainStep
<1>2. CASE Connecting
  BY <1>2, ConnectingInv
<1>3. ASSUME NEW c \in Client, Finish(c) \/ WaitReturns(c) PROVE RunInv'
  BY <1>3, FinishInv, WaitOkInv, StopsInv DEF WaitReturns
<1>4. CASE Terminated
  BY <1>4, RunStutterInv DEF Terminated
<1> QED
  BY <1>1, <1>2, <1>3, <1>4 DEF Next

----------------------------------------------------------------------------

\* The invariant holds in every state of every invocation.
THEOREM RunInductive == Spec => []RunInv
<1>1. Init => RunInv
  BY RunInitInv
<1>2. RunInv /\ [Next]_vars => RunInv'
  BY RunStepInv, RunStutterInv
<1> QED
  BY <1>1, <1>2, PTL DEF Spec

\* Type correctness of an invocation.
THEOREM TypeCorrect == Spec => []TypeOK
<1>1. RunInv => TypeOK
  BY DEF RunInv, ConnInv, TypeOK
<1> QED
  BY <1>1, RunInductive, PTL

\* A command runs only on a client the current task has started, and none runs
\* from the wait on, for every playbook and every choice of failures.
THEOREM NothingLeftBehindAlways == Spec => []NothingLeftBehind
<1>1. RunInv => NothingLeftBehind
  BY DEF RunInv
<1> QED
  BY <1>1, RunInductive, PTL

\* No failure of an upload, a dist copy, a command or the rest is forgotten on
\* its way to the exit status.
THEOREM FailureReportedAlways == Spec => []FailureReported
<1>1. RunInv => FailureReported
  BY DEF RunInv, FailurePending
<1> QED
  BY <1>1, RunInductive, PTL

----------------------------------------------------------------------------
(* the invocation implements LockStep *)

\* Outside of a task the abstract round is empty, whatever happens there.
LEMMA BetweenTasks ==
    ASSUME exit = "none", exit' = "none", ~InTask, ~InTask'
    PROVE  UNCHANGED LS!lockVars
BY DEF LS!lockVars

\* Inside a task nothing changes in the abstract round but by a start or a
\* successful wait.
LEMMA InsideTask ==
    ASSUME UNCHANGED <<exit, tasks, task, launched, waited>>, InTask, InTask'
    PROVE  UNCHANGED LS!lockVars
<1>1. CS' = CS /\ Members' = Members
  BY DEF CS, Members
<1> QED
  BY <1>1 DEF LS!lockVars

\* An exit with an error is a failure of the abstract specification.
LEMMA ExitFails ==
    ASSUME exit = "none", exit' \in {"error", "abort"},
           UNCHANGED <<pc, tasks, task, launched, waited>>
    PROVE  LS!Next
<1>1. CS' = CS /\ Members' = Members /\ InTask' = InTask
  BY DEF CS, Members, InTask
<1>2. LS!Fail
  BY <1>1 DEF LS!Fail
<1> QED
  BY <1>2 DEF LS!Next

\* A task that begins is a new round.
LEMMA BeginTaskRound == ASSUME RunInv, BeginTask PROVE LS!Next
<1>1. CS' = CS /\ Members' = Members
  BY DEF BeginTask, place, CS, Members
<1>2. Members \in SUBSET Client
  BY TaskFacts DEF BeginTask
<1>3. LS!NewRound(Members)
  BY <1>1 DEF BeginTask, Alive, connVars, InTask, LS!NewRound
<1> QED
  BY <1>2, <1>3 DEF LS!Next

\* A task that is over ends its round, with everybody passed.
LEMMA FetchDoneRound == ASSUME RunInv, FetchDone PROVE LS!Next
<1>1. waited = Members
  BY DEF FetchDone, Alive, RunInv, ClientsOK
<1>2. LS!NewRound({})
  BY <1>1 DEF FetchDone, Alive, connVars, InTask, LS!NewRound
<1> QED
  BY <1>2 DEF LS!Next

\* InRound a client is a start of the round.
LEMMA LaunchStart == ASSUME RunInv, Launch PROVE LS!Next
<1> DEFINE c == CS[cur]
<1>1. /\ exit = "none" /\ pc = "launch" /\ cur <= Len(CS) /\ c \notin running
      /\ launched' = launched \cup {c}
      /\ UNCHANGED <<exit, pc, tasks, task, waited>>
  BY DEF Launch, AtClient, Alive, Refuses, connVars, place
<1>2. c \in Members /\ c \in Client
  <2>1. cur \in 1 .. Len(CS) /\ CS \in Seq(Client)
    BY <1>1, TaskFacts DEF RunInv, RunTypeOK, PlaceOK, InTask
  <2> QED
    BY <2>1 DEF Members
<1>3. c \notin launched
  BY <1>1 DEF RunInv, ClientsOK, InRound
<1>4. CS' = CS /\ Members' = Members
  BY <1>1 DEF CS, Members
<1> HIDE DEF c
<1>5. LS!Start(c)
  BY <1>1, <1>2, <1>3, <1>4 DEF InTask, LS!Start
<1> QED
  BY <1>2, <1>5 DEF LS!Next

\* A wait that returns nil is a pass of the round.
LEMMA WaitOkPass == ASSUME RunInv, NEW c \in Client, WaitOk(c) PROVE LS!Next
<1>1. /\ exit = "none" /\ pc = "wait" /\ c \in running
      /\ waited' = waited \cup {c}
      /\ UNCHANGED <<exit, pc, tasks, task, launched>>
  BY DEF WaitOk, Waiting, Alive, connVars, place
<1>2. c \in launched \ waited
  BY <1>1 DEF RunInv, ClientsOK, InRound
<1>3. CS' = CS /\ Members' = Members
  BY <1>1 DEF CS, Members
<1>4. LS!Pass(c)
  BY <1>1, <1>2, <1>3 DEF InTask, LS!Pass
<1> QED
  BY <1>4 DEF LS!Next

\* Every step of an invocation is a step of the rounds, or leaves them alone.
LEMMA LockStepStep == ASSUME RunInv, Next PROVE [LS!Next]_(LS!lockVars)
<1>1. CASE \/ BeginPlay \/ ConnectRefused \/ ConnectAccepted \/ NextCommand \/ CommandsDone
           \/ TasksDone \/ CloseClient \/ PlayDone
  <2>1. exit = "none" /\ exit' = "none" /\ ~InTask /\ ~InTask'
    BY <1>1 DEF BeginPlay, StartConnect, ConnectRefused, ConnectAccepted, NextCommand, CommandsDone,
       TasksDone, CloseClient, PlayDone, Alive, connVars, InTask
  <2> QED
    BY <2>1, BetweenTasks
<1>2. CASE \/ SkipCancelled \/ UploadFails \/ DistFails \/ LaunchDone \/ OutputDone \/ WaitDone
           \/ FetchSkipped \/ FetchOk \/ FetchFails
  <2>1. UNCHANGED <<exit, tasks, task, launched, waited>> /\ InTask /\ InTask'
    BY <1>2 DEF SkipCancelled, UploadFails, DistFails, AtClient, LaunchDone, OutputDone, WaitDone,
       FetchSkipped, FetchOk, FetchFails, AtFetch, Alive, connVars, place, sessions, InTask
  <2> QED
    BY <2>1, InsideTask
<1>3. CASE \/ PlayRefused \/ NoCommands \/ CreateTasksPanics \/ CreateTasksFails \/ NoClients
           \/ RunRejected \/ RunFails \/ BuildFails \/ CloseFails
           \/ \E c \in Client : WaitStopped(c) \/ WaitFailed(c) \/ TubeFails(c)
  <2>1. /\ exit = "none" /\ exit' \in {"error", "abort"}
        /\ UNCHANGED <<pc, tasks, task, launched, waited>>
    BY <1>3 DEF PlayRefused, RunShellcheck, CheckInitialArgs, MergeVars, NoCommands, CreateTasksPanics, CreateTasksFails, NoClients, RunRejected, RunFails,
       BuildFails, CloseFails, WaitStopped, WaitFailed, TubeFails, Waiting, AtClient, Alive, Stop,
       runVars
  <2> QED
    BY <2>1, ExitFails
<1>4. CASE AllPlaysDone
  <2>1. LS!Succeed
    BY <1>4 DEF AllPlaysDone, Alive, Stop, runVars, InTask, LS!Succeed
  <2> QED
    BY <2>1 DEF LS!Next
<1>5. CASE Connecting
  <2>1. /\ exit = "none" /\ exit' \in {"none", "error", "abort"}
        /\ UNCHANGED <<pc, tasks, task, launched, waited>> /\ ~InTask
    BY <1>5, ConnectStepFaults DEF Connecting, Alive, runVars, InTask
  <2>2. CASE exit' = "none"
    BY <2>1, <2>2, BetweenTasks DEF InTask
  <2>3. CASE exit' \in {"error", "abort"}
    BY <2>1, <2>3, ExitFails
  <2> QED
    BY <2>1, <2>2, <2>3
<1>6. ASSUME NEW c \in Client, Finish(c) PROVE [LS!Next]_(LS!lockVars)
  <2>1. /\ UNCHANGED <<exit, pc, tasks, task, launched, waited>> /\ exit = "none" /\ proc[c] = "running"
    BY <1>6 DEF Finish, place
  <2>2. InTask /\ InTask'
    BY <2>1 DEF RunInv, NothingLeftBehind, InTask
  <2> QED
    BY <2>1, <2>2, InsideTask
<1>7. CASE Terminated
  <2>1. CS' = CS /\ Members' = Members /\ InTask' = InTask
    BY <1>7 DEF Terminated, vars, runVars, CS, Members, InTask
  <2> QED
    BY <1>7, <2>1 DEF Terminated, vars, connVars, runVars, LS!lockVars
<1> QED
  BY <1>1, <1>2, <1>3, <1>4, <1>5, <1>6, <1>7, BeginTaskRound, FetchDoneRound, LaunchStart, WaitOkPass
     DEF Next, MainStep, OtherMainStep, WaitReturns

\* Stuttering leaves the rounds alone.
LEMMA LockStepStutter == ASSUME UNCHANGED vars PROVE UNCHANGED LS!lockVars
<1>1. CS' = CS /\ Members' = Members /\ InTask' = InTask
  BY DEF vars, runVars, CS, Members, InTask
<1> QED
  BY <1>1 DEF vars, connVars, runVars, LS!lockVars

\* The commands run in lock step, for every playbook: the detailed invocation
\* implements the abstract specification of rounds.
THEOREM LockStepImplemented == Spec => LockStepped
<1>1. Init => LS!Init
  BY DEF Init, InTask, LS!Init
<1>2. RunInv /\ [Next]_vars => [LS!Next]_(LS!lockVars)
  BY LockStepStep, LockStepStutter
<1> QED
  BY <1>1, <1>2, RunInductive, PTL DEF Spec, LockStepped, LS!Spec

----------------------------------------------------------------------------
(* serial commands: how many hosts a task runs on *)

InCommand == pc = "task" \/ InTask

\* A task of command c names at most c.serial hosts, or is its local part.
Fits(c, cs) == cs = <<LocalClient>> \/ Len(cs) <= c.serial

\* The tasks of a serial command fit it as long as they are run.
TasksFit ==
    (InCommand /\ Cmd.serial > 0 /\ ~Cmd.once) =>
        \A t \in 1 .. Len(tasks) : Fits(Cmd, tasks[t].cs)

----------------------------------------------------------------------------
(* the sizes of groups *)

\* Where a group of k begins and ends.
LEMMA Slices ==
    ASSUME NEW k \in Nat \ {0}, NEW g \in Nat \ {0}
    PROVE  k * g \in Nat /\ k * (g - 1) = k * g - k /\ k * (g - 1) \in Nat
<1>1. g - 1 \in Nat /\ k \in Nat
  OBVIOUS
<1>2. k * (g - 1) \in Nat /\ k * g \in Nat
  BY <1>1
<1>3. k * (g - 1) = k * g - k
  BY <1>1
<1> QED
  BY <1>2, <1>3

\* No group of processClientsInGroups is longer than what it is asked for.
LEMMA GroupsFit ==
    ASSUME ConnInv, NEW c \in Command, c.serial > 0, ~c.once
    PROVE  /\ Len(ClientGroups(c)) \in Nat
           /\ \A g \in 1 .. Len(ClientGroups(c)) : Len(ClientGroups(c)[g]) <= c.serial
<1> DEFINE k == c.serial
           gs == (len + k - 1) \div k
<1>1. arr \in Seq(Entry) /\ len \in 0 .. Len(arr) /\ len \in Nat /\ k \in Nat \ {0}
  BY DEF ConnInv, ConnTypeOK, Command
<1>2. gs \in Nat
  <2>1. k \in Nat \ {0} /\ len + k - 1 \in Nat
    BY <1>1
  <2> QED
    BY <2>1
<1>3. ClientGroups(c) =
          [g \in 1 .. gs |-> SubSeq(arr, k * (g - 1) + 1, IF k * g < len THEN k * g ELSE len)]
  BY DEF ClientGroups, processClientsInGroups
<1>4. ASSUME NEW g \in 1 .. gs
      PROVE  Len(SubSeq(arr, k * (g - 1) + 1, IF k * g < len THEN k * g ELSE len)) <= k
  <2>1. g \in Nat /\ k * g \in Nat /\ k * (g - 1) = k * g - k /\ k * (g - 1) \in Nat
    <3>1. g \in Nat \ {0} /\ k \in Nat \ {0}
      BY <1>1, <1>2
    <3> QED
      BY <3>1, Slices
  <2> DEFINE a == k * (g - 1) + 1
             b == IF k * g < len THEN k * g ELSE len
  <2>2. a \in Nat \ {0} /\ b \in 0 .. len /\ b - a + 1 <= k
    <3>1. len \in Nat /\ k \in Nat
      BY <1>1
    <3> QED
      BY <2>1, <3>1
  <2> HIDE DEF a, b
  <2>3. \A i \in a .. b : arr[i] \in Entry
    BY <1>1, <2>2
  <2>4. Len(SubSeq(arr, a, b)) = IF a <= b THEN b - a + 1 ELSE 0
    <3>1. a \in Int /\ b \in Int
      BY <1>1, <2>2
    <3> QED
      BY <3>1, <2>3, SubSeqProperties
  <2>5. Len(SubSeq(arr, a, b)) <= k
    BY <1>1, <2>2, <2>4
  <2> QED
    BY <2>5 DEF a, b
<1> HIDE DEF gs
<1>5. Len(ClientGroups(c)) = gs
  BY <1>2, <1>3
<1>6. ASSUME NEW g \in 1 .. gs PROVE Len(ClientGroups(c)[g]) <= c.serial
  BY <1>3, <1>4
<1> QED
  BY <1>2, <1>5, <1>6

\* So the tasks made from a serial command fit it.
LEMMA TasksOfFit ==
    ASSUME ConnInv, NEW c \in Command, ~TasksPanic(c), c.serial > 0, ~c.once
    PROVE  \A t \in 1 .. Len(TasksOf(c)) : Fits(c, TasksOf(c)[t].cs)
<1> DEFINE S == IF HasScript(c) THEN Spread("script", c) ELSE <<>>
           L == IF c.local THEN << [kind |-> "local", cs |-> <<LocalClient>>] >> ELSE <<>>
           R == IF HasRun(c) THEN Spread("run", c) ELSE <<>>
           FitTask == {t \in Task : Fits(c, t.cs)}
<1>1. ClientGroups(c) \in Seq(Groups) /\ Len(ClientGroups(c)) \in Nat
  BY ClientGroupsOnce
<1>2. ASSUME NEW kind \in {"script", "run"} PROVE Spread(kind, c) \in Seq(FitTask)
  <2>1. \A g \in 1 .. Len(ClientGroups(c)) :
            [kind |-> kind, cs |-> ClientGroups(c)[g]] \in FitTask
    <3>1. TAKE g \in 1 .. Len(ClientGroups(c))
    <3>2. ClientGroups(c)[g] \in Groups
      BY <1>1, <3>1
    <3>3. Len(ClientGroups(c)[g]) <= c.serial
      BY <3>1, GroupsFit
    <3>4. ClientGroups(c)[g] \in Seq(Client)
      BY <3>2 DEF Groups
    <3> QED
      BY <1>2, <3>3, <3>4 DEF Task, Fits
  <2> HIDE DEF FitTask
  <2> QED
    BY <1>1, <2>1 DEF Spread
<1>3. L \in Seq(FitTask)
  <2>1. [kind |-> "local", cs |-> <<LocalClient>>] \in FitTask
    BY DEF Task, Fits, Client
  <2> HIDE DEF FitTask
  <2> QED
    BY <2>1
<1>4. S \in Seq(FitTask) /\ R \in Seq(FitTask)
  <2> HIDE DEF FitTask
  <2> QED
    BY <1>2
<1>5. TasksOf(c) = S \o L \o R
  BY DEF TasksOf
<1>6. TasksOf(c) \in Seq(FitTask)
  <2> HIDE DEF FitTask, S, L, R
  <2> QED
    BY <1>3, <1>4, <1>5
<1>7. ASSUME NEW t \in 1 .. Len(TasksOf(c)) PROVE Fits(c, TasksOf(c)[t].cs)
  <2>1. TasksOf(c)[t] \in FitTask
    BY <1>6
  <2> QED
    BY <2>1
<1> QED
  BY <1>7

----------------------------------------------------------------------------
(* serial *)

\* Steps other than NextCommand leave the tasks of a command alone while it is
\* under way, and begin no command.
LEMMA TasksKept ==
    ASSUME Next, ~NextCommand, InCommand'
    PROVE  InCommand /\ UNCHANGED <<inputs, play, cmd, tasks>>
<1> USE DEF InCommand, InTask, Alive, inputs
<1>1. CASE MainStep
  <2>1. CASE \/ BeginPlay \/ PlayRefused \/ NoCommands \/ AllPlaysDone \/ ConnectRefused
             \/ ConnectAccepted \/ CreateTasksPanics \/ CreateTasksFails \/ CommandsDone
             \/ CloseClient \/ CloseFails \/ PlayDone \/ TasksDone
    BY <2>1 DEF BeginPlay, PlayRefused, NoCommands, AllPlaysDone, ConnectRefused,
         ConnectAccepted, CreateTasksPanics, CreateTasksFails, CommandsDone, CloseClient,
         CloseFails, PlayDone, TasksDone, runVars
  <2>2. CASE \/ Launch \/ BeginTask \/ NoClients \/ SkipCancelled \/ UploadFails \/ DistFails
             \/ RunRejected \/ RunFails \/ BuildFails \/ LaunchDone
    BY <2>2 DEF Launch, BeginTask, NoClients, SkipCancelled, UploadFails, DistFails,
         RunRejected, RunFails, BuildFails, LaunchDone, AtClient, runVars, place
  <2>3. CASE OutputDone \/ WaitDone \/ FetchSkipped \/ FetchOk \/ FetchFails \/ FetchDone
    BY <2>3 DEF OutputDone, WaitDone, FetchSkipped, FetchOk, FetchFails, FetchDone, AtFetch,
         runVars, place
  <2> QED
    BY <1>1, <2>1, <2>2, <2>3 DEF MainStep, OtherMainStep
<1>2. CASE Connecting
  BY <1>2 DEF Connecting, runVars
<1>3. ASSUME NEW c \in Client, Finish(c) \/ WaitReturns(c)
      PROVE  InCommand /\ UNCHANGED <<inputs, play, cmd, tasks>>
  BY <1>3 DEF Finish, WaitReturns, WaitStopped, WaitFailed, TubeFails, WaitOk, Waiting, runVars,
       place, inputs
<1>4. CASE Terminated
  BY <1>4 DEF Terminated, vars, runVars, place
<1> QED
  BY <1>1, <1>2, <1>3, <1>4 DEF Next

LEMMA TasksFitStep == ASSUME RunInv, TasksFit, [Next]_vars PROVE TasksFit'
<1>1. CASE UNCHANGED vars
  BY <1>1 DEF vars, runVars, inputs, place, TasksFit, InCommand, InTask, Fits, Cmd, Cmds
<1>2. CASE NextCommand
  <2>1. Cmd \in Command /\ ConnInv /\ ~TasksPanic(Cmd)
    <3>1. play <= Len(playbook) /\ cmd <= Len(Cmds)
      BY <1>2 DEF NextCommand, RunInv, PlaceOK, Alive
    <3> QED
      BY <1>2, <3>1, CmdFacts DEF NextCommand, RunInv
  <2>2. Cmd' = Cmd /\ tasks' = TasksOf(Cmd)
    BY <1>2 DEF NextCommand, Cmd, Cmds, inputs
  <2> QED
    BY <2>1, <2>2, TasksOfFit DEF TasksFit, Fits
<1>3. CASE Next /\ ~NextCommand
  <2>1. CASE ~InCommand'
    BY <2>1 DEF TasksFit
  <2>2. CASE InCommand'
    BY <1>3, <2>2, TasksKept DEF TasksFit, Fits, Cmd, Cmds, inputs
  <2> QED
    BY <2>1, <2>2
<1> QED
  BY <1>1, <1>2, <1>3

\* The bound follows: what runs is what the task has started.
LEMMA FitBounds == ASSUME RunInv, TasksFit PROVE SerialBound
<1> SUFFICES ASSUME exit = "none", InTask, Cmd.serial > 0, ~Cmd.once
             PROVE  Cardinality({e \in Entry : proc[e] = "running"}) <= Cmd.serial
    BY DEF SerialBound
<1> DEFINE E == {e \in Entry : proc[e] = "running"}
<1>1. task \in 1 .. Len(tasks) /\ CS \in Seq(Client) /\ Len(CS) \in Nat
  BY TaskFacts DEF RunInv, PlaceOK
<1>2. E \subseteq Members
  BY DEF RunInv, NothingLeftBehind, ClientsOK, Client
<1>3. Fits(Cmd, CS)
  BY <1>1 DEF TasksFit, InCommand, CS
<1>4. Cmd.serial \in Nat
  BY CmdFacts DEF RunInv, PlaceOK, Command, InTask
<1>5. CASE CS = <<LocalClient>>
  <2>1. Members = {LocalClient}
    BY <1>5 DEF Members
  <2>2. E = {}
    BY <1>2, <2>1, StackupAssumption
  <2> QED
    BY <1>4, <2>2, FS_EmptySet
<1>6. CASE Len(CS) <= Cmd.serial
  <2>1. [i \in 1 .. Len(CS) |-> CS[i]] \in Surjection(1 .. Len(CS), Members)
    BY DEF Members, Surjection
  <2>2. IsFiniteSet(1 .. Len(CS)) /\ Cardinality(1 .. Len(CS)) = Len(CS)
    <3>1. Len(CS) \in Int /\ 1 \in Int /\ Len(CS) >= 0
      BY <1>1
    <3>2. IsFiniteSet(1 .. Len(CS)) /\ Cardinality(1 .. Len(CS)) =
              IF 1 > Len(CS) THEN 0 ELSE Len(CS) - 1 + 1
      BY <3>1, FS_Interval
    <3> QED
      BY <3>1, <3>2
  <2>3. IsFiniteSet(Members) /\ Cardinality(Members) <= Len(CS)
    BY <2>1, <2>2, FS_Surjection
  <2>4. Cardinality(E) <= Cardinality(Members) /\ IsFiniteSet(E)
    BY <1>2, <2>3, FS_Subset
  <2>5. Cardinality(E) \in Nat /\ Cardinality(Members) \in Nat
    BY <2>3, <2>4, FS_CardinalityType
  <2> QED
    BY <1>1, <1>4, <1>6, <2>3, <2>4, <2>5
<1> QED
  BY <1>3, <1>5, <1>6 DEF Fits

\* However a network is cut into groups, a serial command never runs on more of
\* its hosts at once than it allows (src/usecase/create_tasks.go:231-239).
THEOREM SerialBoundAlways == Spec => []SerialBound
<1>1. Init => TasksFit
  BY DEF Init, TasksFit, InCommand, InTask
<1>2. RunInv /\ TasksFit /\ [Next]_vars => TasksFit'
  BY TasksFitStep
<1>3. RunInv /\ TasksFit => SerialBound
  BY FitBounds
<1> QED
  BY <1>1, <1>2, <1>3, RunInductive, PTL DEF Spec

----------------------------------------------------------------------------
(* what is left running *)

\* A step that ends the invocation stops no command itself, and while commands
\* may be running it is a start that fails.
LEMMA Ending ==
    ASSUME Next, exit' # exit
    PROVE  /\ exit = "none" /\ UNCHANGED proc
           /\ pc \in {"launch", "io"} => faults' \cap {"reject", "run", "shell", "stage"} # {}
<1> USE DEF Alive, Stop, Fault
<1>1. CASE MainStep
  <2>1. CASE \/ BeginPlay \/ PlayRefused \/ NoCommands \/ AllPlaysDone \/ ConnectRefused
             \/ ConnectAccepted \/ CreateTasksPanics \/ CreateTasksFails \/ CommandsDone
             \/ CloseClient \/ CloseFails \/ PlayDone \/ TasksDone \/ NoClients \/ NextCommand
    BY <2>1 DEF BeginPlay, StartConnect, PlayRefused, NoCommands, AllPlaysDone, ConnectRefused,
         ConnectAccepted, CreateTasksPanics, CreateTasksFails, CommandsDone, CloseClient,
         CloseFails, PlayDone, TasksDone, NoClients, NextCommand, runVars, connVars, sessions
  <2>2. CASE Launch \/ BeginTask \/ SkipCancelled \/ UploadFails \/ DistFails \/ LaunchDone
    BY <2>2 DEF Launch, BeginTask, SkipCancelled, UploadFails, DistFails, LaunchDone, connVars
  <2>3. CASE RunRejected \/ RunFails \/ BuildFails
    BY <2>3 DEF RunRejected, RunFails, BuildFails, AtClient, runVars, sessions
  <2>4. CASE OutputDone \/ WaitDone \/ FetchSkipped \/ FetchOk \/ FetchFails \/ FetchDone
    BY <2>4 DEF OutputDone, WaitDone, FetchSkipped, FetchOk, FetchFails, FetchDone, connVars
  <2> QED
    BY <1>1, <2>1, <2>2, <2>3, <2>4 DEF MainStep, OtherMainStep
<1>2. CASE Connecting
  BY <1>2 DEF Connecting, runVars, sessions
<1>3. ASSUME NEW c \in Client, Finish(c) \/ WaitReturns(c)
      PROVE  exit = "none" /\ UNCHANGED proc /\ pc = "wait"
  BY <1>3 DEF Finish, WaitReturns, WaitStopped, WaitFailed, TubeFails, WaitOk, Waiting, runVars,
       sessions, connVars
<1>4. CASE Terminated
  BY <1>4 DEF Terminated, vars, connVars
<1> QED
  BY <1>1, <1>2, <1>3, <1>4 DEF Next

\* After its end nothing happens any more.
LEMMA Ended == ASSUME Next, exit # "none" PROVE UNCHANGED vars
<1> USE DEF Alive
<1>1. ~MainStep
  BY DEF MainStep, OtherMainStep, BeginPlay, PlayRefused, NoCommands, AllPlaysDone,
       ConnectRefused, ConnectAccepted, CreateTasksPanics, CreateTasksFails, CommandsDone,
       CloseClient, CloseFails, PlayDone, TasksDone, NoClients, NextCommand, Launch, BeginTask,
       SkipCancelled, UploadFails, DistFails, LaunchDone, RunRejected, RunFails, BuildFails,
       AtClient, OutputDone, WaitDone, FetchSkipped, FetchOk, FetchFails, FetchDone, AtFetch
<1>2. ~Connecting /\ \A c \in Client : ~Finish(c) /\ ~WaitReturns(c)
  BY DEF Connecting, Finish, WaitReturns, WaitStopped, WaitFailed, TubeFails, WaitOk, Waiting
<1> QED
  BY <1>1, <1>2 DEF Next, Terminated

LEMMA AwaitedStep == ASSUME RunInv, StartedAwaited, [Next]_vars PROVE StartedAwaited'
<1>1. CASE UNCHANGED vars
  BY <1>1 DEF vars, connVars, runVars, sessions, StartedAwaited
<1>2. CASE Next /\ exit # "none"
  BY <1>1, <1>2, Ended
<1>3. CASE Next /\ exit = "none" /\ exit' = exit
  BY <1>3 DEF StartedAwaited
<1>4. CASE Next /\ exit = "none" /\ exit' # exit
  BY <1>4, Ending DEF StartedAwaited, RunInv, NothingLeftBehind
<1> QED
  BY <1>1, <1>2, <1>3, <1>4

\* Whatever connection, upload, dist copy, command, tube or download fails, and
\* on whichever hosts, ssup does not end while a command it started still runs
\* (src/usecase/run.go:220, 251).
THEOREM StartedAwaitedAlways == Spec => []StartedAwaited
<1>1. Init => StartedAwaited
  BY DEF Init, StartedAwaited
<1>2. RunInv /\ StartedAwaited /\ [Next]_vars => StartedAwaited'
  BY AwaitedStep
<1> QED
  BY <1>1, <1>2, RunInductive, PTL DEF Spec
----------------------------------------------------------------------------
(* the order of tasks *)

InPlay == pc \notin {"play", "connect"}

\* The task p[1 .. 3] is the current one, or came before it.
Here(p) == InTask /\ <<p[1], p[2], p[3]>> = <<play, cmd, task>>
Past(p) ==
    \/ p[1] < play
    \/ p[1] = play /\ InPlay /\ p[2] < cmd
    \/ p[1] = play /\ InPlay /\ p[2] = cmd /\ InCommand /\ p[3] < task

\* A task begins with BeginTask and is over with FetchDone.
LEMMA TaskFrame ==
    ASSUME Next
    PROVE  /\ InTask' => \/ BeginTask
                         \/ InTask /\ UNCHANGED <<play, cmd, task, tasks>> /\ launched \subseteq launched'
           /\ InTask /\ ~InTask' => FetchDone
<1> USE DEF Alive, InTask, inputs, place, sessions, AtClient, AtFetch
<1>1. CASE \/ BeginPlay \/ ConnectRefused \/ ConnectAccepted \/ NextCommand \/ CommandsDone
           \/ TasksDone \/ PlayDone \/ CloseClient
  BY <1>1 DEF BeginPlay, ConnectRefused, ConnectAccepted, NextCommand, CommandsDone,
     TasksDone, PlayDone, CloseClient
<1>2. CASE \/ PlayRefused \/ NoCommands \/ AllPlaysDone \/ CreateTasksPanics \/ CreateTasksFails
           \/ NoClients \/ RunRejected \/ RunFails \/ BuildFails \/ CloseFails
  BY <1>2 DEF PlayRefused, NoCommands, AllPlaysDone, CreateTasksPanics, CreateTasksFails,
     NoClients, RunRejected, RunFails, BuildFails, CloseFails, runVars
<1>3. CASE \/ SkipCancelled \/ UploadFails \/ DistFails \/ Launch \/ LaunchDone
           \/ OutputDone \/ WaitDone \/ FetchSkipped \/ FetchOk \/ FetchFails
  BY <1>3 DEF SkipCancelled, UploadFails, DistFails, Launch, LaunchDone, OutputDone,
     WaitDone, FetchSkipped, FetchOk, FetchFails
<1>4. CASE BeginTask \/ FetchDone
  BY <1>4 DEF BeginTask, FetchDone
<1>5. CASE Connecting
  BY <1>5 DEF Connecting, runVars
<1>6. CASE \E c \in Client : Finish(c) \/ WaitReturns(c)
  BY <1>6 DEF Finish, WaitReturns, WaitStopped, WaitFailed, TubeFails, WaitOk, runVars
<1>7. CASE Terminated
  BY <1>7 DEF Terminated, vars, runVars
<1> QED
  BY <1>1, <1>2, <1>3, <1>4, <1>5, <1>6, <1>7 DEF Next, MainStep, OtherMainStep

\* What is past stays past, and what is current stays so until it is over.
LEMMA PlacePasses ==
    ASSUME RunInv, Next, NEW p, p[1] \in Nat, p[2] \in Nat, p[3] \in Nat
    PROVE  /\ Past(p) => Past(p)' /\ ~Here(p)
           /\ Here(p) => Here(p)' \/ (FetchDone /\ Past(p)')
<1> USE DEF Alive, InTask, InPlay, InCommand, Past, Here, inputs, place
<1>1. play \in Nat /\ cmd \in Nat /\ task \in Nat
  BY DEF RunInv, RunTypeOK
<1>2. CASE \/ BeginPlay \/ ConnectRefused \/ ConnectAccepted \/ NextCommand \/ CommandsDone
           \/ TasksDone \/ PlayDone
  <2>1. CASE BeginPlay
    BY <1>1, <2>1 DEF BeginPlay
  <2>5. CASE ConnectRefused \/ PlayDone
    <3>1. ~InTask /\ ~InCommand /\ play' = play + 1
      BY <2>5 DEF ConnectRefused, PlayDone
    <3>2. Past(p) => p[1] < play'
      BY <1>1, <3>1
    <3> QED
      BY <3>1, <3>2
  <2>2. CASE ConnectAccepted
    BY <1>1, <2>2 DEF ConnectAccepted
  <2>3. CASE NextCommand
    BY <1>1, <2>3 DEF NextCommand
  <2>4. CASE CommandsDone \/ TasksDone
    BY <1>1, <2>4 DEF CommandsDone, TasksDone
  <2> QED
    BY <1>2, <2>1, <2>2, <2>3, <2>4, <2>5
<1>3. CASE \/ PlayRefused \/ NoCommands \/ AllPlaysDone \/ CreateTasksPanics \/ CreateTasksFails
           \/ NoClients \/ RunRejected \/ RunFails \/ BuildFails \/ CloseFails
  BY <1>1, <1>3 DEF PlayRefused, NoCommands, AllPlaysDone, CreateTasksPanics, CreateTasksFails,
     NoClients, RunRejected, RunFails, BuildFails, CloseFails, runVars
<1>4. CASE \/ BeginTask \/ SkipCancelled \/ UploadFails \/ DistFails \/ Launch \/ LaunchDone
           \/ OutputDone \/ WaitDone \/ FetchSkipped \/ FetchOk \/ FetchFails \/ CloseClient
  BY <1>1, <1>4 DEF BeginTask, SkipCancelled, UploadFails, DistFails, Launch, LaunchDone, OutputDone,
     WaitDone, FetchSkipped, FetchOk, FetchFails, CloseClient, AtClient, AtFetch
<1>5. CASE FetchDone
  BY <1>1, <1>5 DEF FetchDone
<1>6. CASE Connecting
  BY <1>1, <1>6 DEF Connecting, runVars
<1>7. CASE \E c \in Client : Finish(c) \/ WaitReturns(c)
  BY <1>1, <1>7 DEF Finish, WaitReturns, WaitStopped, WaitFailed, TubeFails, WaitOk, Waiting, runVars
<1>8. CASE Terminated
  BY <1>1, <1>8 DEF Terminated, vars, runVars
<1> QED
  BY <1>2, <1>3, <1>4, <1>5, <1>6, <1>7, <1>8 DEF Next, MainStep, OtherMainStep

----------------------------------------------------------------------------
(* downloads *)

Elems(s) == {s[i] : i \in 1 .. Len(s)}

\* Command i of play p has been cut into tasks.
Begun(p, i) == p < play \/ (p = play /\ InPlay /\ (i < cmd \/ (i = cmd /\ InCommand)))

\* Only the downloads at the end of a task add to the histories of downloads.
LEMMA FetchFrame ==
    ASSUME Next, ~FetchOk, ~FetchFails PROVE UNCHANGED <<playbook, flat, fetched>>
<1>1. CASE MainStep
  <2>1. CASE \/ BeginPlay \/ PlayRefused \/ NoCommands \/ AllPlaysDone \/ ConnectRefused
             \/ ConnectAccepted \/ CreateTasksPanics \/ CreateTasksFails \/ CommandsDone
             \/ CloseClient \/ CloseFails \/ PlayDone \/ TasksDone \/ NoClients \/ NextCommand
    BY <2>1 DEF BeginPlay, PlayRefused, NoCommands, AllPlaysDone, ConnectRefused,
         ConnectAccepted, CreateTasksPanics, CreateTasksFails, CommandsDone, CloseClient,
         CloseFails, PlayDone, TasksDone, NoClients, NextCommand, runVars, histories, inputs
  <2>2. CASE \/ Launch \/ BeginTask \/ SkipCancelled \/ UploadFails \/ DistFails
             \/ RunRejected \/ RunFails \/ BuildFails \/ LaunchDone
             \/ OutputDone \/ WaitDone \/ FetchSkipped \/ FetchDone
    BY <2>2 DEF Launch, BeginTask, SkipCancelled, UploadFails, DistFails, RunRejected, RunFails,
         BuildFails, LaunchDone, OutputDone, WaitDone, FetchSkipped, FetchDone, runVars, histories, inputs
  <2> QED
    BY <1>1, <2>1, <2>2 DEF MainStep, OtherMainStep
<1>2. CASE Connecting
  BY <1>2 DEF Connecting, runVars
<1>3. CASE \E c \in Client : Finish(c) \/ WaitReturns(c)
  BY <1>3 DEF Finish, WaitReturns, WaitStopped, WaitFailed, TubeFails, WaitOk, runVars, histories, inputs
<1>4. CASE Terminated
  BY <1>4 DEF Terminated, vars, runVars
<1> QED
  BY <1>1, <1>2, <1>3, <1>4 DEF Next

\* What has begun stays begun.
LEMMA BegunStays ==
    ASSUME RunInv, Next, exit = "none", exit' = "none", NEW p \in Nat, NEW i \in Nat, Begun(p, i)
    PROVE  Begun(p, i)' /\ UNCHANGED playbook
<1> USE DEF Alive, Stop, InPlay, InCommand, InTask, Begun, inputs, place
<1>1. play \in Nat /\ cmd \in Nat
  BY DEF RunInv, RunTypeOK
<1>2. CASE \/ BeginPlay \/ ConnectRefused \/ ConnectAccepted \/ NextCommand \/ CommandsDone
           \/ TasksDone \/ PlayDone
  BY <1>1, <1>2 DEF BeginPlay, ConnectRefused, ConnectAccepted, NextCommand, CommandsDone,
     TasksDone, PlayDone
<1>3. CASE \/ PlayRefused \/ NoCommands \/ AllPlaysDone \/ CreateTasksPanics \/ CreateTasksFails
           \/ NoClients \/ RunRejected \/ RunFails \/ BuildFails \/ CloseFails
  BY <1>3 DEF PlayRefused, RunShellcheck, CheckInitialArgs, MergeVars, NoCommands, AllPlaysDone,
     CreateTasksPanics, CreateTasksFails, NoClients, RunRejected, RunFails, BuildFails, CloseFails
<1>4. CASE \/ BeginTask \/ SkipCancelled \/ UploadFails \/ DistFails \/ Launch \/ LaunchDone
           \/ OutputDone \/ WaitDone \/ FetchSkipped \/ FetchOk \/ FetchFails \/ FetchDone
           \/ CloseClient
  BY <1>4 DEF BeginTask, SkipCancelled, UploadFails, DistFails, Launch, LaunchDone, OutputDone,
     WaitDone, FetchSkipped, FetchOk, FetchFails, FetchDone, CloseClient, AtClient, AtFetch
<1>5. CASE Connecting
  BY <1>5 DEF Connecting, runVars
<1>6. CASE \E c \in Client : Finish(c) \/ WaitReturns(c)
  BY <1>6 DEF Finish, WaitReturns, WaitStopped, WaitFailed, TubeFails, WaitOk, Waiting, runVars
<1>7. ~Terminated
  BY DEF Terminated
<1> QED
  BY <1>2, <1>3, <1>4, <1>5, <1>6, <1>7 DEF Next, MainStep, OtherMainStep

\* The entry a download adds, and the names it makes flat.
LEMMA Downloads ==
    ASSUME RunInv, FetchOk \/ FetchFails
    PROVE  /\ UNCHANGED <<inputs, pc, play, cmd, tasks, task, exit>>
           /\ InTask /\ cur \in 1 .. Len(CS) /\ task \in 1 .. Len(tasks)
           /\ play \in 1 .. Len(playbook) /\ cmd \in 1 .. Len(Cmds)
           /\ fetched' \subseteq fetched \cup
                             {<<play, cmd, CS[cur], Suffix(CS[cur], Cmd.name \in flat')>>}
           /\ flat' \subseteq flat \cup {Cmd.name}
           /\ Cmd.name \in flat' => Cmd.name \in flat \/ Len(CS) = 1
<1>1. /\ UNCHANGED <<inputs, pc, play, cmd, tasks, task, exit>>
      /\ InTask /\ cur <= Len(CS) /\ pc = "fetch"
  BY DEF FetchOk, FetchFails, AtFetch, Alive, InTask, place, connVars
<1>2. play <= Len(playbook) /\ cmd <= Len(Cmds) /\ task <= Len(tasks)
  BY <1>1 DEF RunInv, PlaceOK
<1>3. /\ play \in 1 .. Len(playbook) /\ cmd \in 1 .. Len(Cmds) /\ task \in 1 .. Len(tasks)
      /\ Len(CS) \in Nat
  BY <1>2, CmdFacts, TaskFacts
<1>4. cur \in 1 .. Len(CS)
  BY <1>1, <1>3 DEF RunInv, RunTypeOK
<1>5. /\ fetched' \subseteq fetched \cup
                        {<<play, cmd, CS[cur], Suffix(CS[cur], Cmd.name \in flat')>>}
      /\ flat' \subseteq flat \cup {Cmd.name}
      /\ Cmd.name \in flat' => Cmd.name \in flat \/ Len(CS) = 1
  BY DEF FetchOk, FetchFails, MarkFlat, histories
<1> QED
  BY <1>1, <1>3, <1>4, <1>5

----------------------------------------------------------------------------
(* Status 0 means done: DoneInv ties the tasks a command is cut into, the   *)
(* hosts the play goes on with and the history of what has run, and carries *)
(* it from task to command to play.                                        *)

\* Every play has hosts.
HasHosts == \A pb \in Playbooks : \A p \in 1 .. Len(pb) : pb[p].net.hosts # {}

\* The clients a part of command c is for.
Share(c) == IF c.once THEN {arr[1]} ELSE Kept

----------------------------------------------------------------------------
(* the tasks of a command reach its clients *)

LEMMA ConcatElems ==
    ASSUME NEW S, NEW s \in Seq(S), NEW u \in Seq(S)
    PROVE  s \o u \in Seq(S) /\ Elems(s \o u) = Elems(s) \cup Elems(u)
<1>1. /\ Len(s) \in Nat /\ Len(u) \in Nat /\ s \o u \in Seq(S)
      /\ Len(s \o u) = Len(s) + Len(u)
      /\ \A i \in 1 .. Len(s) + Len(u) :
            (s \o u)[i] = IF i <= Len(s) THEN s[i] ELSE u[i - Len(s)]
  OBVIOUS
<1>2. ASSUME NEW i \in 1 .. Len(s \o u) PROVE (s \o u)[i] \in Elems(s) \cup Elems(u)
  <2>1. CASE i <= Len(s)
    BY <1>1, <2>1 DEF Elems
  <2>2. CASE i > Len(s)
    <3>1. i - Len(s) \in 1 .. Len(u) /\ (s \o u)[i] = u[i - Len(s)]
      BY <1>1, <2>2
    <3> QED
      BY <3>1 DEF Elems
  <2> QED
    BY <1>1, <2>1, <2>2
<1>3. ASSUME NEW i \in 1 .. Len(s) PROVE s[i] \in Elems(s \o u)
  <2>1. i \in 1 .. Len(s \o u) /\ (s \o u)[i] = s[i]
    BY <1>1
  <2> QED
    BY <2>1 DEF Elems
<1>4. ASSUME NEW i \in 1 .. Len(u) PROVE u[i] \in Elems(s \o u)
  <2>1. i + Len(s) \in 1 .. Len(s \o u) /\ (s \o u)[i + Len(s)] = u[i]
    BY <1>1
  <2> QED
    BY <2>1 DEF Elems
<1> QED
  BY <1>1, <1>2, <1>3, <1>4 DEF Elems

\* The group an index falls into.
LEMMA GroupOf ==
    ASSUME NEW k \in Nat \ {0}, NEW m \in Nat, NEW i \in 1 .. m
    PROVE  \E g \in 1 .. (m + k - 1) \div k : k * (g - 1) + 1 <= i /\ i <= k * g
<1> DEFINE q == (i - 1) \div k
           top == (m + k - 1) \div k
<1>1. q \in Nat /\ k * q <= i - 1 /\ i - 1 < k * q + k
  <2>1. i - 1 \in Nat /\ k \in Nat \ {0}
    OBVIOUS
  <2> QED
    BY <2>1
<1>2. top \in Nat /\ k * top <= m + k - 1 /\ m + k - 1 < k * top + k
  <2>1. m + k - 1 \in Nat /\ k \in Nat \ {0}
    OBVIOUS
  <2> QED
    BY <2>1
<1> HIDE DEF q, top
<1>3. PICK g \in Nat \ {0} : g = q + 1
  BY <1>1
<1>4. g - 1 = q /\ k * (g - 1) = k * q /\ k * g = k * q + k
  <2>1. g - 1 = q
    BY <1>1, <1>3
  <2> QED
    BY <1>1, <1>3, <2>1, Slices
<1>5. g <= top
  <2>1. k * q < k * top
    <3>1. k * q \in Nat /\ k * top \in Nat
      BY <1>1, <1>2
    <3> QED
      BY <1>1, <1>2, <3>1
  <2>2. q < top
    BY <1>1, <1>2, <2>1
  <2> QED
    BY <1>1, <1>2, <1>3, <2>2
<1>6. g \in 1 .. top
  BY <1>2, <1>3, <1>5
<1>7. k * (g - 1) + 1 <= i /\ i <= k * g
  <2>1. k * q \in Nat
    BY <1>1
  <2> QED
    BY <1>1, <1>4, <2>1
<1> QED
  BY <1>6, <1>7 DEF top

\* Every client of the network is in some group, and nothing else is.
LEMMA GroupsCover ==
    ASSUME ConnInv, NEW c \in Command, c.once => len # 0
    PROVE  \A x : (\E g \in Elems(ClientGroups(c)) : x \in Elems(g)) <=> x \in Share(c)
<1>1. arr \in Seq(Entry) /\ len \in 0 .. Len(arr) /\ len \in Nat
  BY DEF ConnInv, ConnTypeOK
<1>2. CASE c.once
  <2>1. ClientGroups(c) = << <<arr[1]>> >>
    BY <1>2 DEF ClientGroups
  <2>2. Elems(ClientGroups(c)) = {<<arr[1]>>} /\ Elems(<<arr[1]>>) = {arr[1]}
    BY <2>1 DEF Elems
  <2> QED
    BY <1>2, <2>2 DEF Share
<1>3. ASSUME NEW a \in Nat \ {0}, NEW b \in 0 .. len
      PROVE  Elems(SubSeq(arr, a, b)) = {arr[i] : i \in a .. b}
  <2>1. \A i \in a .. b : arr[i] \in Entry
    BY <1>1
  <2>2. /\ Len(SubSeq(arr, a, b)) = IF a <= b THEN b - a + 1 ELSE 0
        /\ \A i \in 1 .. b - a + 1 : SubSeq(arr, a, b)[i] = arr[a + i - 1]
    BY <1>1, <2>1, SubSeqProperties
  <2>3. ASSUME NEW i \in a .. b PROVE arr[i] \in Elems(SubSeq(arr, a, b))
    <3>1. i - a + 1 \in 1 .. Len(SubSeq(arr, a, b)) /\ a + (i - a + 1) - 1 = i
      BY <1>1, <2>2
    <3>2. SubSeq(arr, a, b)[i - a + 1] = arr[i]
      BY <1>1, <2>2, <3>1
    <3> QED
      BY <3>1, <3>2 DEF Elems
  <2>4. ASSUME NEW i \in 1 .. Len(SubSeq(arr, a, b))
        PROVE  SubSeq(arr, a, b)[i] \in {arr[j] : j \in a .. b}
    <3>1. i \in 1 .. b - a + 1 /\ a + i - 1 \in a .. b
      BY <1>1, <2>2
    <3> QED
      BY <2>2, <3>1
  <2> QED
    BY <2>3, <2>4 DEF Elems
<1>4. CASE ~c.once /\ c.serial > 0
  <2> DEFINE k == c.serial
             gs == (len + k - 1) \div k
             a(g) == k * (g - 1) + 1
             b(g) == IF k * g < len THEN k * g ELSE len
  <2>1. k \in Nat \ {0} /\ len + k - 1 \in Nat
    BY <1>1, <1>4 DEF Command
  <2>2. gs \in Nat
    BY <2>1
  <2>3. ASSUME NEW g \in 1 .. gs
        PROVE  a(g) \in Nat \ {0} /\ b(g) \in 0 .. len
    <3>1. g \in Nat \ {0} /\ k \in Nat \ {0}
      BY <2>1, <2>2
    <3>2. k * g \in Nat /\ k * (g - 1) \in Nat
      BY <3>1, Slices
    <3> QED
      BY <1>1, <3>2
  <2>4. ClientGroups(c) = [g \in 1 .. gs |-> SubSeq(arr, a(g), b(g))]
    BY <1>4 DEF ClientGroups, processClientsInGroups
  <2>5. ASSUME NEW i \in 1 .. len PROVE \E g \in 1 .. gs : i \in a(g) .. b(g)
    <3>1. PICK g \in 1 .. gs : k * (g - 1) + 1 <= i /\ i <= k * g
      BY <1>1, <2>1, GroupOf
    <3>2. a(g) \in Nat /\ b(g) \in Nat /\ i <= b(g)
      BY <1>1, <2>3, <3>1
    <3> QED
      BY <1>1, <3>1, <3>2
  <2> HIDE DEF gs, a, b
  <2>6. Elems(ClientGroups(c)) = {SubSeq(arr, a(g), b(g)) : g \in 1 .. gs}
    BY <2>2, <2>4 DEF Elems
  <2>7. \A g \in 1 .. gs : Elems(SubSeq(arr, a(g), b(g))) = {arr[i] : i \in a(g) .. b(g)}
    BY <1>3, <2>3
  <2>8. ASSUME NEW g \in 1 .. gs, NEW i \in a(g) .. b(g) PROVE i \in 1 .. len
    BY <1>1, <2>3
  <2>9. ASSUME NEW x, NEW g \in Elems(ClientGroups(c)), x \in Elems(g) PROVE x \in Kept
    <3>1. PICK h \in 1 .. gs : g = SubSeq(arr, a(h), b(h))
      BY <2>6
    <3>2. PICK i \in a(h) .. b(h) : x = arr[i]
      BY <2>7, <2>9, <3>1
    <3> QED
      BY <2>8, <3>2 DEF Kept
  <2>10. ASSUME NEW x \in Kept PROVE \E g \in Elems(ClientGroups(c)) : x \in Elems(g)
    <3>1. PICK i \in 1 .. len : x = arr[i]
      BY DEF Kept
    <3>2. PICK h \in 1 .. gs : i \in a(h) .. b(h)
      BY <2>5
    <3>3. x \in Elems(SubSeq(arr, a(h), b(h)))
      BY <2>7, <3>1, <3>2
    <3> QED
      BY <2>6, <3>3
  <2> QED
    BY <1>4, <2>9, <2>10 DEF Share
<1>5. CASE ~c.once /\ ~(c.serial > 0)
  <2>1. Elems(ClientGroups(c)) = {clients}
    BY <1>5 DEF ClientGroups, Elems
  <2>2. Elems(clients) = {arr[i] : i \in 1 .. len}
    BY <1>1, <1>3 DEF clients
  <2> QED
    BY <1>5, <2>1, <2>2 DEF Share, Kept
<1> QED
  BY <1>2, <1>4, <1>5

\* Some task of this kind names the client.
Names(ts, kind, x) == \E t \in Elems(ts) : t.kind = kind /\ x \in Elems(t.cs)

\* The tasks of a command name, for each of its parts, the clients it is for.
LEMMA TasksReach ==
    ASSUME ConnInv, NEW c \in Command, ~TasksPanic(c)
    PROVE  /\ HasScript(c) => \A x : Names(TasksOf(c), "script", x) <=> x \in Share(c)
           /\ c.local => \A x : Names(TasksOf(c), "local", x) <=> x = LocalClient
           /\ HasRun(c) => \A x : Names(TasksOf(c), "run", x) <=> x \in Share(c)
<1> DEFINE S == IF HasScript(c) THEN Spread("script", c) ELSE <<>>
           L == IF c.local THEN << [kind |-> "local", cs |-> <<LocalClient>>] >> ELSE <<>>
           R == IF HasRun(c) THEN Spread("run", c) ELSE <<>>
<1>1. (HasScript(c) \/ HasRun(c)) => (c.once => len # 0)
  BY DEF TasksPanic
<1>2. S \in Seq(Task) /\ R \in Seq(Task)
  <2>1. \A t : t \in OnceTask => t \in Task
    BY DEF OnceTask
  <2>2. S \in Seq(OnceTask) /\ R \in Seq(OnceTask)
    BY <1>1, SpreadOnce
  <2> HIDE DEF S, R
  <2> QED
    BY <2>1, <2>2
<1>3. L \in Seq(Task)
  <2>1. [kind |-> "local", cs |-> <<LocalClient>>] \in Task
    BY DEF Task, Client
  <2> QED
    BY <2>1
<1>4. ASSUME NEW kind \in {"script", "run"}, c.once => len # 0
      PROVE  /\ \A t \in Elems(Spread(kind, c)) : t.kind = kind
             /\ \A x : (\E t \in Elems(Spread(kind, c)) : x \in Elems(t.cs)) <=> x \in Share(c)
  <2>1. Len(ClientGroups(c)) \in Nat
    BY <1>4, ClientGroupsOnce
  <2>2. Elems(Spread(kind, c)) = {[kind |-> kind, cs |-> g] : g \in Elems(ClientGroups(c))}
    BY <2>1 DEF Spread, Elems
  <2>3. \A x : (\E t \in Elems(Spread(kind, c)) : x \in Elems(t.cs))
               <=> (\E g \in Elems(ClientGroups(c)) : x \in Elems(g))
    <3>1. ASSUME NEW x, NEW t \in Elems(Spread(kind, c)), x \in Elems(t.cs)
          PROVE  \E g \in Elems(ClientGroups(c)) : x \in Elems(g)
      <4>1. PICK g \in Elems(ClientGroups(c)) : t = [kind |-> kind, cs |-> g]
        BY <2>2
      <4> QED
        BY <3>1, <4>1
    <3>2. ASSUME NEW x, NEW g \in Elems(ClientGroups(c)), x \in Elems(g)
          PROVE  \E t \in Elems(Spread(kind, c)) : x \in Elems(t.cs)
      <4>1. [kind |-> kind, cs |-> g] \in Elems(Spread(kind, c))
        BY <2>2
      <4>2. x \in Elems([kind |-> kind, cs |-> g].cs)
        BY <3>2
      <4> QED
        BY <4>1, <4>2
    <3> QED
      BY <3>1, <3>2
  <2>4. \A t \in Elems(Spread(kind, c)) : t.kind = kind
    BY <2>2
  <2> QED
    BY <1>4, <2>3, <2>4, GroupsCover
<1>5. TasksOf(c) = S \o L \o R
  BY DEF TasksOf
<1>6. Elems(<<>>) = {}
  BY DEF Elems
<1>7. /\ \A t \in Elems(S) : t.kind = "script"
      /\ HasScript(c) => \A x : (\E t \in Elems(S) : x \in Elems(t.cs)) <=> x \in Share(c)
  BY <1>1, <1>4, <1>6
<1>8. /\ \A t \in Elems(R) : t.kind = "run"
      /\ HasRun(c) => \A x : (\E t \in Elems(R) : x \in Elems(t.cs)) <=> x \in Share(c)
  BY <1>1, <1>4, <1>6
<1>9. /\ \A t \in Elems(L) : t.kind = "local"
      /\ c.local => \A x : (\E t \in Elems(L) : x \in Elems(t.cs)) <=> x = LocalClient
  <2>1. CASE c.local
    <3>1. Elems(L) = {[kind |-> "local", cs |-> <<LocalClient>>]}
      BY <2>1 DEF Elems
    <3>2. Elems(<<LocalClient>>) = {LocalClient}
      BY DEF Elems
    <3> QED
      BY <3>1, <3>2
  <2>2. CASE ~c.local
    BY <1>6, <2>2
  <2> QED
    BY <2>1, <2>2
<1> HIDE DEF S, L, R
<1>10. Elems(TasksOf(c)) = Elems(S) \cup Elems(L) \cup Elems(R)
  <2> DEFINE SL == S \o L
  <2>1. SL \in Seq(Task) /\ Elems(SL) = Elems(S) \cup Elems(L)
    BY <1>2, <1>3, ConcatElems
  <2>2. TasksOf(c) = SL \o R
    BY <1>5
  <2> HIDE DEF SL
  <2>3. Elems(SL \o R) = Elems(SL) \cup Elems(R)
    BY <1>2, <2>1, ConcatElems
  <2> QED
    BY <2>1, <2>2, <2>3
<1>11. ASSUME NEW x
       PROVE  /\ Names(TasksOf(c), "script", x) <=> \E t \in Elems(S) : x \in Elems(t.cs)
              /\ Names(TasksOf(c), "local", x) <=> \E t \in Elems(L) : x \in Elems(t.cs)
              /\ Names(TasksOf(c), "run", x) <=> \E t \in Elems(R) : x \in Elems(t.cs)
  BY <1>7, <1>8, <1>9, <1>10 DEF Names
<1> QED
  BY <1>7, <1>8, <1>9, <1>11

----------------------------------------------------------------------------
(* the invariant *)

\* What exempts an invocation: a play given up, or one without hosts.
Unconnected == (~force /\ "connect" \in faults) \/ ~HasHosts

\* A host that is down is a failure of the history.
DownTold == \A e \in Entry : conn[e] = "down" => "connect" \in faults

\* The connection phase is that of the current play.
HostsOfPlay == pc = "connect" => hosts = playbook[play].net.hosts

\* What the history of connections and runs says of plays to come and of this.
ReachedSoFar ==
    /\ \A r \in reached : r[1] < play \/ (r[1] = play /\ InPlay)
    /\ InPlay => HostsOf(play) = Kept

RanSoFar ==
    \A r \in ran :
        r[1] < play \/ (r[1] = play /\ InPlay /\ (r[2] < cmd \/ (r[2] = cmd /\ InCommand)))

\* The tasks are those of the command, and the ones that are over, and only
\* they, have run on their clients.
RanHere(kind, x) ==
    \E t \in 1 .. Len(tasks) :
        /\ tasks[t].kind = kind /\ x \in Elems(tasks[t].cs)
        /\ t < task \/ (t = task /\ InTask /\ x \in waited)

TasksSoFar ==
    InCommand =>
        /\ tasks = TasksOf(Cmd) /\ ~TasksPanic(Cmd)
        /\ \A kind \in {"script", "local", "run"}, x \in Client :
               <<play, cmd, kind, x>> \in ran <=> RanHere(kind, x)

\* Commands that are over are covered.
Over(p, i) == p < play \/ (p = play /\ InPlay /\ i < cmd)
CoveredSoFar ==
    ~Unconnected =>
        \A p \in 1 .. Len(playbook) : \A i \in 1 .. Len(playbook[p].cmds) :
            Over(p, i) => Covered(p, i)

Done ==
    /\ DownTold /\ HostsOfPlay
    /\ ReachedSoFar /\ RanSoFar /\ TasksSoFar /\ CoveredSoFar
    /\ pc = "close" => cmd > Len(Cmds)

DoneInv == (exit = "none" => Done) /\ (HasHosts => ExitZeroMeansDone)

----------------------------------------------------------------------------
(* the steps *)

\* A command that is over stays covered while only others run.
LEMMA CoveredStays ==
    ASSUME NEW p, NEW i, Covered(p, i), UNCHANGED playbook,
           \A e : <<p, e>> \in reached' <=> <<p, e>> \in reached,
           \A kind, c : <<p, i, kind, c>> \in ran' <=> <<p, i, kind, c>> \in ran
    PROVE  Covered(p, i)'
<1>1. HostsOf(p)' = HostsOf(p) /\ \A kind : RanOn(p, i, kind)' = RanOn(p, i, kind)
  BY DEF HostsOf, RanOn
<1> QED
  BY <1>1 DEF Covered, Spreads, HasScript, HasRun

\* Steps inside a task, or among the closes, that end nothing.
LEMMA QuietDone ==
    ASSUME Done, faults \subseteq faults', UNCHANGED <<conn, arr, len, inputs, place, waited, reached, ran>>,
           (InTask /\ InTask') \/ (pc = "close" /\ pc' = "close")
    PROVE  Done'
<1> USE DEF Done, inputs, place, InTask, InCommand, InPlay
<1>1. DownTold' /\ HostsOfPlay' /\ (pc' = "close" => cmd' > Len(Cmds'))
  BY DEF DownTold, HostsOfPlay, Cmds
<1>2. ReachedSoFar' /\ RanSoFar'
  BY DEF ReachedSoFar, RanSoFar, HostsOf, Kept
<1>3. Cmd' = Cmd /\ TasksOf(Cmd)' = TasksOf(Cmd) /\ TasksPanic(Cmd)' = TasksPanic(Cmd)
  BY DEF Cmd, Cmds, TasksOf, TasksPanic, Spread, ClientGroups, processClientsInGroups, clients
<1>4. TasksSoFar'
  BY <1>3 DEF TasksSoFar, RanHere
<1>5. CoveredSoFar'
  BY CoveredStays DEF CoveredSoFar, Unconnected, Over
<1> QED
  BY <1>1, <1>2, <1>4, <1>5

LEMMA BeginPlayDone == ASSUME Done, BeginPlay PROVE Done'
<1> USE DEF Done, BeginPlay, StartConnect, Alive, inputs, place, histories, InTask, InCommand, InPlay
<1>1. DownTold' /\ HostsOfPlay' /\ (pc' = "close" => cmd' > Len(Cmds'))
  BY DEF DownTold, HostsOfPlay
<1>2. ReachedSoFar' /\ RanSoFar' /\ TasksSoFar'
  BY DEF ReachedSoFar, RanSoFar, TasksSoFar
<1>3. CoveredSoFar'
  BY CoveredStays DEF CoveredSoFar, Unconnected, Over
<1> QED
  BY <1>1, <1>2, <1>3

\* Only a reported failure makes a host down.
LEMMA ConnectStepDown ==
    ASSUME ConnTypeOK, ConnectStep, DownTold
    PROVE  DownTold' /\ UNCHANGED hosts /\ faults \subseteq faults'
<1> USE DEF DownTold
<1>1. CASE BastionUp \/ BastionDown \/ BastionPanics
  BY <1>1 DEF BastionUp, BastionDown, BastionPanics
<1>2. ASSUME NEW e \in Entry, HostUp(e) \/ HostDown(e) \/ HostUnconfigured(e) \/ InventoryPanics(e)
      PROVE  DownTold' /\ UNCHANGED hosts /\ faults \subseteq faults'
  BY <1>2 DEF HostUp, HostDown, HostUnconfigured, InventoryPanics, ReportFailure, ConnTypeOK
<1>3. CASE Gathered \/ Sweep
  BY <1>3 DEF Gathered, Sweep, SweepMiss, SweepHit, SweepOutOfRange, SweepNextName, SweepEnds
<1> QED
  BY <1>1, <1>2, <1>3 DEF ConnectStep, HostAnswers

LEMMA ConnectingDone == ASSUME RunInv, Done, Connecting PROVE Done'
<1> USE DEF Done, Connecting, Alive, runVars, InTask, InCommand, InPlay
<1>1. DownTold' /\ UNCHANGED hosts /\ faults \subseteq faults'
  BY ConnectStepDown DEF RunInv, ConnInv
<1>2. HostsOfPlay' /\ (pc' = "close" => cmd' > Len(Cmds'))
  BY <1>1 DEF HostsOfPlay
<1>3. ReachedSoFar' /\ RanSoFar' /\ TasksSoFar'
  BY DEF ReachedSoFar, RanSoFar, TasksSoFar
<1>4. CoveredSoFar'
  BY <1>1, CoveredStays DEF CoveredSoFar, Unconnected, Over
<1> QED
  BY <1>1, <1>2, <1>3, <1>4

\* Run only refuses the clients it has when a host could not be connected.
LEMMA ConnectRefusedDone == ASSUME RunInv, Done, ConnectRefused PROVE Done'
<1> USE DEF Done, ConnectRefused, Alive, inputs, sessions, histories, InTask, InCommand, InPlay
<1>1. play \in 1 .. Len(playbook) /\ play \in Nat /\ playbook \in Playbooks
  BY CmdFacts DEF RunInv, PlaceOK, RunTypeOK
<1>2. HasHosts => hosts # {} /\ hosts \subseteq Entry
  BY <1>1 DEF HasHosts, HostsOfPlay, RunInv, ConnInv, ConnTypeOK
<1>3. HasHosts => \E e \in hosts : conn[e] = "down"
  BY <1>2 DEF RunInv, ConnInv, FailureTold, AllAnswered
<1>4. Unconnected'
  BY <1>2, <1>3 DEF DownTold, Unconnected
<1>5. DownTold' /\ HostsOfPlay' /\ (pc' = "close" => cmd' > Len(Cmds'))
  BY DEF DownTold, HostsOfPlay
<1>6. ReachedSoFar' /\ RanSoFar' /\ TasksSoFar'
  <2>1. \A r \in reached : r[1] \in Nat
    BY DEF RunInv, RunTypeOK
  <2>2. \A r \in ran : r[1] \in Nat
    BY DEF RunInv, RunTypeOK
  <2> QED
    BY <1>1, <2>1, <2>2 DEF ReachedSoFar, RanSoFar, TasksSoFar
<1> QED
  BY <1>4, <1>5, <1>6 DEF CoveredSoFar

LEMMA ConnectAcceptedDone == ASSUME RunInv, Done, ConnectAccepted PROVE Done'
<1> USE DEF Done, ConnectAccepted, Alive, connVars, inputs, sessions, InTask, InCommand, InPlay
<1>1. play \in Nat /\ reached' = reached \cup {<<play, e>> : e \in Kept}
  BY DEF RunInv, RunTypeOK
<1>2. DownTold' /\ HostsOfPlay' /\ (pc' = "close" => cmd' > Len(Cmds'))
  BY DEF DownTold, HostsOfPlay
<1>3. ReachedSoFar'
  <2>1. \A r \in reached : r[1] < play
    BY DEF ReachedSoFar
  <2>2. HostsOf(play)' = Kept
    <3>1. \A e \in Entry : <<play, e>> \in reached' <=> e \in Kept
      BY <1>1, <2>1
    <3>2. Kept \subseteq Entry
      BY DEF RunInv, ConnInv, ConnTypeOK, Kept
    <3> QED
      BY <3>1, <3>2 DEF HostsOf
  <2>3. Kept' = Kept
    BY DEF Kept
  <2> QED
    BY <1>1, <2>1, <2>2, <2>3 DEF ReachedSoFar
<1>4. RanSoFar' /\ TasksSoFar'
  BY DEF RanSoFar, TasksSoFar
<1>5. CoveredSoFar'
  <2> SUFFICES ASSUME ~Unconnected, NEW p \in 1 .. Len(playbook), NEW i \in 1 .. Len(playbook[p].cmds),
                      Over(p, i)'
               PROVE  Covered(p, i)'
    BY DEF CoveredSoFar, Unconnected
  <2>1. p < play
    BY DEF Over
  <2>2. Covered(p, i)
    BY <2>1 DEF CoveredSoFar, Over
  <2>3. \A e : <<p, e>> \in reached' <=> <<p, e>> \in reached
    BY <1>1, <2>1
  <2> QED
    BY <2>2, <2>3, CoveredStays
<1> QED
  BY <1>2, <1>3, <1>4, <1>5

LEMMA NextCommandDone == ASSUME RunInv, Done, NextCommand PROVE Done'
<1> USE DEF Done, NextCommand, Alive, connVars, inputs, histories, InTask, InCommand, InPlay
<1>1. DownTold' /\ HostsOfPlay' /\ (pc' = "close" => cmd' > Len(Cmds'))
  BY DEF DownTold, HostsOfPlay
<1>2. ReachedSoFar' /\ RanSoFar'
  BY DEF ReachedSoFar, RanSoFar, HostsOf, Kept
<1>3. TasksSoFar'
  <2>1. Cmd' = Cmd /\ TasksOf(Cmd)' = TasksOf(Cmd) /\ TasksPanic(Cmd)' = TasksPanic(Cmd)
    BY DEF Cmd, Cmds, TasksOf, TasksPanic, Spread, ClientGroups, processClientsInGroups, clients
  <2>2. ASSUME NEW kind, NEW x PROVE <<play, cmd, kind, x>> \notin ran
    BY DEF RanSoFar, RunInv, RunTypeOK
  <2>3. ASSUME NEW kind, NEW x PROVE ~RanHere(kind, x)'
    BY DEF RanHere
  <2> QED
    BY <2>1, <2>2, <2>3 DEF TasksSoFar
<1>4. CoveredSoFar'
  BY CoveredStays DEF CoveredSoFar, Unconnected, Over
<1> QED
  BY <1>1, <1>2, <1>3, <1>4

LEMMA CommandsDoneDone == ASSUME Done, CommandsDone PROVE Done'
<1> USE DEF Done, CommandsDone, Alive, connVars, inputs, place, histories, InTask, InCommand, InPlay
<1>1. DownTold' /\ HostsOfPlay' /\ (pc' = "close" => cmd' > Len(Cmds'))
  BY DEF DownTold, HostsOfPlay, Cmds
<1>2. ReachedSoFar' /\ RanSoFar' /\ TasksSoFar'
  BY DEF ReachedSoFar, RanSoFar, TasksSoFar, HostsOf, Kept
<1>3. CoveredSoFar'
  BY CoveredStays DEF CoveredSoFar, Unconnected, Over
<1> QED
  BY <1>1, <1>2, <1>3

LEMMA BeginTaskDone == ASSUME Done, BeginTask PROVE Done'
<1> USE DEF Done, BeginTask, Alive, connVars, inputs, place, histories, InTask, InCommand, InPlay
<1>1. DownTold' /\ HostsOfPlay' /\ (pc' = "close" => cmd' > Len(Cmds'))
  BY DEF DownTold, HostsOfPlay
<1>2. ReachedSoFar' /\ RanSoFar'
  BY DEF ReachedSoFar, RanSoFar, HostsOf, Kept
<1>3. Cmd' = Cmd /\ TasksOf(Cmd)' = TasksOf(Cmd) /\ TasksPanic(Cmd)' = TasksPanic(Cmd)
  BY DEF Cmd, Cmds, TasksOf, TasksPanic, Spread, ClientGroups, processClientsInGroups, clients
<1>4. TasksSoFar'
  BY <1>3 DEF TasksSoFar, RanHere
<1>5. CoveredSoFar'
  BY CoveredStays DEF CoveredSoFar, Unconnected, Over
<1> QED
  BY <1>1, <1>2, <1>4, <1>5

\* The tasks of a command are over, and with them the command.
LEMMA TasksDoneDone == ASSUME RunInv, Done, TasksDone PROVE Done'
<1> USE DEF Done, TasksDone, Alive, connVars, inputs, histories, sessions, InTask, InCommand, InPlay
<1>1. DownTold' /\ HostsOfPlay' /\ (pc' = "close" => cmd' > Len(Cmds'))
  BY DEF DownTold, HostsOfPlay
<1>2. ReachedSoFar' /\ TasksSoFar'
  BY DEF ReachedSoFar, TasksSoFar, HostsOf, Kept
<1>3. /\ play \in 1 .. Len(playbook) /\ cmd \in 1 .. Len(Cmds) /\ Cmd \in Command
      /\ tasks \in Seq(Task) /\ task \in Nat /\ cmd \in Nat
  BY CmdFacts DEF RunInv, PlaceOK, RunTypeOK
<1>4. RanSoFar'
  BY <1>3 DEF RanSoFar, RunInv, RunTypeOK
<1>5. ASSUME NEW kind \in {"script", "local", "run"}, NEW x \in Client
      PROVE  x \in RanOn(play, cmd, kind) <=> Names(TasksOf(Cmd), kind, x)
  <2>1. x \in RanOn(play, cmd, kind) <=> RanHere(kind, x)
    BY DEF TasksSoFar, RanOn
  <2>2. RanHere(kind, x) <=> Names(tasks, kind, x)
    BY <1>3 DEF RanHere, Names, Elems
  <2> QED
    BY <2>1, <2>2 DEF TasksSoFar
<1>6. Covered(play, cmd)
  <2>1. Kept \subseteq Client /\ HostsOf(play) = Kept /\ \A kind : RanOn(play, cmd, kind) \subseteq Client
    BY DEF RunInv, ConnInv, ConnTypeOK, Kept, Client, ReachedSoFar, RanOn
  <2>2. /\ HasScript(Cmd) => \A x : Names(TasksOf(Cmd), "script", x) <=> x \in Share(Cmd)
        /\ Cmd.local => \A x : Names(TasksOf(Cmd), "local", x) <=> x = LocalClient
        /\ HasRun(Cmd) => \A x : Names(TasksOf(Cmd), "run", x) <=> x \in Share(Cmd)
    BY <1>3, TasksReach DEF TasksSoFar, RunInv
  <2>3. ASSUME NEW kind \in {"script", "run"}, HasScript(Cmd) \/ HasRun(Cmd),
               \A x : Names(TasksOf(Cmd), kind, x) <=> x \in Share(Cmd)
        PROVE  Spreads(play, cmd, kind)
    <3>1. CASE Cmd.once
      <4>1. len # 0 /\ arr[1] \in Kept
        BY <2>3, <3>1 DEF TasksSoFar, TasksPanic, RunInv, ConnInv, ConnTypeOK, Kept
      <4>2. RanOn(play, cmd, kind) = {arr[1]}
        BY <1>5, <2>1, <2>3, <3>1, <4>1 DEF Share
      <4> QED
        BY <2>1, <3>1, <4>1, <4>2 DEF Spreads, Cmd, Cmds
    <3>2. CASE ~Cmd.once
      <4>1. RanOn(play, cmd, kind) = Kept
        BY <1>5, <2>1, <2>3, <3>2 DEF Share
      <4> QED
        BY <2>1, <3>2, <4>1 DEF Spreads, Cmd, Cmds
    <3> QED
      BY <3>1, <3>2
  <2>4. Cmd.local => RanOn(play, cmd, "local") = {LocalClient}
    <3>1. LocalClient \in Client
      BY DEF Client
    <3> QED
      BY <1>5, <2>1, <2>2, <3>1
  <2>5. Cmd = playbook[play].cmds[cmd]
    BY DEF Cmd, Cmds
  <2> QED
    BY <2>2, <2>3, <2>4, <2>5 DEF Covered
<1>7. CoveredSoFar'
  <2> SUFFICES ASSUME ~Unconnected, NEW p \in 1 .. Len(playbook), NEW i \in 1 .. Len(playbook[p].cmds),
                      Over(p, i)'
               PROVE  Covered(p, i)
    BY CoveredStays DEF CoveredSoFar, Unconnected
  <2>1. CASE p = play /\ i = cmd
    BY <1>6, <2>1
  <2>2. CASE ~(p = play /\ i = cmd)
    <3>1. playbook[p].cmds \in Seq(Command)
      <4>1. playbook \in Seq(Play)
        BY StackupAssumption DEF RunInv, RunTypeOK
      <4>2. playbook[p] \in Play
        BY <4>1
      <4> QED
        BY <4>2 DEF Play
    <3>2. i \in Nat
      BY <3>1
    <3> QED
      BY <1>3, <2>2, <3>2 DEF CoveredSoFar, Over
  <2> QED
    BY <2>1, <2>2
<1> QED
  BY <1>1, <1>2, <1>4, <1>7

LEMMA WaitOkDone == ASSUME RunInv, Done, NEW c \in Client, WaitOk(c) PROVE Done'
<1> USE DEF Done, WaitOk, Waiting, Alive, connVars, inputs, place, InTask, InCommand, InPlay
<1>1. DownTold' /\ HostsOfPlay' /\ (pc' = "close" => cmd' > Len(Cmds'))
  BY DEF DownTold, HostsOfPlay
<1>2. /\ play \in Nat /\ cmd \in Nat /\ task \in 1 .. Len(tasks)
      /\ tasks[task].kind \in {"script", "local", "run"} /\ c \in Elems(tasks[task].cs)
  BY TaskFacts DEF RunInv, PlaceOK, RunTypeOK, Task, CS, Elems
<1> DEFINE new == <<play, cmd, tasks[task].kind, c>>
<1>3. ran' = ran \cup {new} /\ waited' = waited \cup {c}
  OBVIOUS
<1>4. ReachedSoFar' /\ RanSoFar'
  BY <1>3 DEF ReachedSoFar, RanSoFar, HostsOf, Kept
<1>5. TasksSoFar'
  <2>1. Cmd' = Cmd /\ TasksOf(Cmd)' = TasksOf(Cmd) /\ TasksPanic(Cmd)' = TasksPanic(Cmd)
    BY DEF Cmd, Cmds, TasksOf, TasksPanic, Spread, ClientGroups, processClientsInGroups, clients
  <2>2. ASSUME NEW kind \in {"script", "local", "run"}, NEW x \in Client
        PROVE  <<play, cmd, kind, x>> \in ran' <=> RanHere(kind, x)'
    <3>1. <<play, cmd, kind, x>> \in ran <=> RanHere(kind, x)
      BY DEF TasksSoFar
    <3>2. RanHere(kind, x)' <=> RanHere(kind, x) \/ (kind = tasks[task].kind /\ x = c)
      BY <1>2 DEF RanHere
    <3>3. <<play, cmd, kind, x>> = new <=> kind = tasks[task].kind /\ x = c
      OBVIOUS
    <3> QED
      BY <1>3, <3>1, <3>2, <3>3
  <2> QED
    BY <2>1, <2>2 DEF TasksSoFar
<1>6. CoveredSoFar'
  <2> SUFFICES ASSUME ~Unconnected, NEW p \in 1 .. Len(playbook), NEW i \in 1 .. Len(playbook[p].cmds),
                      Over(p, i)
               PROVE  Covered(p, i)'
    BY DEF CoveredSoFar, Unconnected, Over
  <2>1. Covered(p, i)
    BY DEF CoveredSoFar
  <2>2. ASSUME NEW kind, NEW x PROVE <<p, i, kind, x>> # new
    BY <1>2 DEF Over
  <2>3. \A kind, x : <<p, i, kind, x>> \in ran' <=> <<p, i, kind, x>> \in ran
    BY <1>3, <2>2
  <2> QED
    BY <2>1, <2>3, CoveredStays
<1> QED
  BY <1>1, <1>4, <1>5, <1>6

LEMMA FetchDoneDone == ASSUME RunInv, Done, FetchDone PROVE Done'
<1> USE DEF Done, FetchDone, Alive, connVars, inputs, histories, sessions, InTask, InCommand, InPlay
<1>1. DownTold' /\ HostsOfPlay' /\ (pc' = "close" => cmd' > Len(Cmds'))
  BY DEF DownTold, HostsOfPlay
<1>2. ReachedSoFar' /\ RanSoFar'
  BY DEF ReachedSoFar, RanSoFar, HostsOf, Kept
<1>3. Cmd' = Cmd /\ TasksOf(Cmd)' = TasksOf(Cmd) /\ TasksPanic(Cmd)' = TasksPanic(Cmd)
  BY DEF Cmd, Cmds, TasksOf, TasksPanic, Spread, ClientGroups, processClientsInGroups, clients
<1>4. waited = Elems(tasks[task].cs) /\ task \in Nat
  BY DEF RunInv, ClientsOK, Members, CS, Elems, RunTypeOK
<1>5. ASSUME NEW kind, NEW x PROVE RanHere(kind, x)' <=> RanHere(kind, x)
  <2>1. \A t \in 1 .. Len(tasks) : t < task + 1 <=> t < task \/ t = task
    BY <1>4
  <2> QED
    BY <1>4, <2>1 DEF RanHere
<1>6. TasksSoFar'
  BY <1>3, <1>5 DEF TasksSoFar
<1>7. CoveredSoFar'
  BY CoveredStays DEF CoveredSoFar, Unconnected, Over
<1> QED
  BY <1>1, <1>2, <1>6, <1>7

LEMMA PlayDoneDone == ASSUME RunInv, Done, PlayDone PROVE Done'
<1> USE DEF Done, PlayDone, Alive, inputs, sessions, histories, InTask, InCommand, InPlay
<1>1. play \in Nat /\ cmd \in Nat /\ playbook \in Seq(Play) /\ cmd > Len(playbook[play].cmds)
  BY StackupAssumption DEF RunInv, RunTypeOK, Cmds
<1>2. DownTold' /\ HostsOfPlay' /\ (pc' = "close" => cmd' > Len(Cmds'))
  BY DEF DownTold, HostsOfPlay
<1>3. ReachedSoFar' /\ RanSoFar' /\ TasksSoFar'
  <2>1. (\A r \in reached : r[1] \in Nat) /\ \A r \in ran : r[1] \in Nat
    BY DEF RunInv, RunTypeOK
  <2> QED
    BY <1>1, <2>1 DEF ReachedSoFar, RanSoFar, TasksSoFar
<1>4. CoveredSoFar'
  <2> SUFFICES ASSUME ~Unconnected, NEW p \in 1 .. Len(playbook), NEW i \in 1 .. Len(playbook[p].cmds),
                      p < play + 1
               PROVE  Covered(p, i)
    BY CoveredStays DEF CoveredSoFar, Unconnected, Over
  <2>1. playbook[p] \in Play
    BY <1>1
  <2>2. playbook[p].cmds \in Seq(Command)
    BY <2>1 DEF Play
  <2>3. p \in Nat /\ i \in Nat /\ (p < play \/ p = play)
    BY <1>1, <2>2
  <2>4. p = play => i < cmd
    BY <1>1, <2>2, <2>3
  <2> QED
    BY <2>3, <2>4 DEF CoveredSoFar, Over
<1> QED
  BY <1>2, <1>3, <1>4

\* The playbook is over: every command of it is.
LEMMA ExitDone == ASSUME RunInv, Done, AllPlaysDone PROVE HasHosts => ExitZeroMeansDone'
<1> USE DEF Done, AllPlaysDone, Alive, Stop, connPhase, runVars
<1>1. play \in Nat /\ playbook \in Seq(Play) /\ \A p \in 1 .. Len(playbook) : p < play
  BY StackupAssumption DEF RunInv, RunTypeOK
<1>2. ~Unconnected => \A p \in 1 .. Len(playbook) : \A i \in 1 .. Len(playbook[p].cmds) : Covered(p, i)
  BY <1>1 DEF CoveredSoFar, Over
<1> QED
  BY <1>2, CoveredStays DEF ExitZeroMeansDone, Unconnected

\* Every other step of a working invocation is quiet, or ends it with an error.
LEMMA DoneStep == ASSUME RunInv, DoneInv, Next PROVE DoneInv'
<1> USE DEF Alive, Stop, Fault
<1>1. CASE exit # "none"
  <2>1. UNCHANGED vars
    BY <1>1, Ended
  <2> QED
    BY <1>1, <2>1, CoveredStays DEF DoneInv, ExitZeroMeansDone, vars, connVars, runVars
<1>2. CASE exit = "none" /\ exit' = "none" /\ Done'
  BY <1>2 DEF DoneInv, ExitZeroMeansDone
<1>3. CASE exit = "none" /\ exit' \in {"error", "abort"}
  BY <1>3 DEF DoneInv, ExitZeroMeansDone
<1>4. CASE exit = "none" /\ AllPlaysDone
  BY <1>4, ExitDone DEF DoneInv, AllPlaysDone
<1>5. CASE exit = "none" /\ \/ BeginPlay \/ ConnectRefused \/ ConnectAccepted \/ NextCommand
                            \/ CommandsDone \/ BeginTask \/ TasksDone \/ FetchDone \/ PlayDone
  <2>1. Done' /\ exit' = exit
    BY <1>5, BeginPlayDone, ConnectRefusedDone, ConnectAcceptedDone, NextCommandDone, CommandsDoneDone,
       BeginTaskDone, TasksDoneDone, FetchDoneDone, PlayDoneDone
       DEF DoneInv, BeginPlay, StartConnect, ConnectRefused, ConnectAccepted, NextCommand,
           CommandsDone, BeginTask, TasksDone, FetchDone, PlayDone, connVars
  <2> QED
    BY <1>2, <1>5, <2>1
<1>6. CASE exit = "none" /\ Connecting
  <2>1. Done' /\ exit' \in {"none", "error", "abort"}
    BY <1>6, ConnectingDone, ConnectStepFaults DEF DoneInv, Connecting
  <2> QED
    BY <1>2, <1>3, <1>6, <2>1
<1>7. CASE exit = "none" /\ \/ SkipCancelled \/ UploadFails \/ DistFails \/ Launch \/ LaunchDone
                            \/ OutputDone \/ WaitDone \/ FetchSkipped \/ FetchOk \/ FetchFails
                            \/ CloseClient
  <2>1. /\ faults \subseteq faults' /\ exit' = exit
        /\ UNCHANGED <<conn, arr, len, inputs, place, waited, reached, ran>>
        /\ (InTask /\ InTask') \/ (pc = "close" /\ pc' = "close")
    BY <1>7 DEF SkipCancelled, UploadFails, DistFails, Launch, LaunchDone, OutputDone, WaitDone,
       FetchSkipped, FetchOk, FetchFails, CloseClient, AtClient, AtFetch, connVars, connPhase, sessions,
       histories, InTask
  <2> QED
    BY <1>2, <1>7, <2>1, QuietDone DEF DoneInv
<1>8. ASSUME NEW c \in Client, exit = "none", Finish(c) PROVE DoneInv'
  <2>1. /\ faults \subseteq faults' /\ exit' = exit
        /\ UNCHANGED <<conn, arr, len, inputs, place, waited, reached, ran>>
        /\ InTask /\ InTask'
    BY <1>8 DEF Finish, connPhase, histories, RunInv, NothingLeftBehind, InTask
  <2> QED
    BY <1>2, <1>8, <2>1, QuietDone DEF DoneInv
<1>9. ASSUME NEW c \in Client, exit = "none", WaitOk(c) PROVE DoneInv'
  <2>1. Done' /\ exit' = exit
    BY <1>9, WaitOkDone DEF DoneInv, WaitOk, connVars
  <2> QED
    BY <1>2, <1>9, <2>1
<1>10. CASE exit = "none" /\ \/ PlayRefused \/ NoCommands \/ CreateTasksPanics \/ CreateTasksFails
                             \/ NoClients \/ RunRejected \/ RunFails \/ BuildFails \/ CloseFails
                             \/ \E c \in Client : WaitStopped(c) \/ WaitFailed(c) \/ TubeFails(c)
  <2>1. exit' \in {"error", "abort"}
    BY <1>10 DEF PlayRefused, RunShellcheck, CheckInitialArgs, MergeVars, NoCommands,
       CreateTasksPanics, CreateTasksFails, NoClients, RunRejected, RunFails, BuildFails, CloseFails,
       WaitStopped, WaitFailed, TubeFails
  <2> QED
    BY <1>3, <1>10, <2>1
<1> QED
  BY <1>1, <1>4, <1>5, <1>6, <1>7, <1>8, <1>9, <1>10
     DEF Next, MainStep, OtherMainStep, WaitReturns, Terminated

LEMMA DoneInit == Init => DoneInv
<1>1. Init => DownTold /\ HostsOfPlay /\ ReachedSoFar /\ RanSoFar /\ TasksSoFar
  BY DEF Init, DownTold, HostsOfPlay, ReachedSoFar, RanSoFar, TasksSoFar, InPlay, InCommand, InTask
<1>2. Init => CoveredSoFar
  <2> SUFFICES ASSUME Init, NEW p \in 1 .. Len(playbook), NEW i PROVE ~Over(p, i)
    BY DEF CoveredSoFar
  <2>1. p \in Nat /\ p >= 1
    BY StackupAssumption DEF Init
  <2> QED
    BY <2>1 DEF Over, Init, InPlay
<1> QED
  BY <1>1, <1>2 DEF DoneInv, Done, Init, ExitZeroMeansDone

LEMMA DoneStutter == ASSUME DoneInv, UNCHANGED vars PROVE DoneInv'
<1> USE DEF vars, connVars, runVars
<1>1. exit = "none" => DownTold' /\ HostsOfPlay' /\ (pc' = "close" => cmd' > Len(Cmds'))
  BY DEF DoneInv, Done, DownTold, HostsOfPlay, Cmds
<1>2. exit = "none" => ReachedSoFar' /\ RanSoFar'
  BY DEF DoneInv, Done, ReachedSoFar, RanSoFar, HostsOf, Kept, InPlay, InCommand, InTask
<1>3. Cmd' = Cmd /\ TasksOf(Cmd)' = TasksOf(Cmd) /\ TasksPanic(Cmd)' = TasksPanic(Cmd)
  BY DEF Cmd, Cmds, TasksOf, TasksPanic, Spread, ClientGroups, processClientsInGroups, clients
<1>4. exit = "none" => TasksSoFar'
  BY <1>3 DEF DoneInv, Done, TasksSoFar, RanHere, InCommand, InTask
<1>5. exit = "none" => CoveredSoFar'
  BY CoveredStays DEF DoneInv, Done, CoveredSoFar, Unconnected, Over, InPlay
<1>6. HasHosts => ExitZeroMeansDone'
  BY CoveredStays DEF DoneInv, ExitZeroMeansDone
<1> QED
  BY <1>1, <1>2, <1>4, <1>5, <1>6 DEF DoneInv, Done

\* Status 0 means done: for every playbook whose plays have hosts, every naming
\* of them and every choice of failures, an invocation that ends with status 0
\* and gave no play up at its connections has run every part of every command
\* on exactly the hosts it was for (cmd/ssup/main.go:91-138,
\* src/usecase/run.go:45-104, src/usecase/create_tasks.go).
THEOREM ExitZeroMeansDoneAlways == ASSUME HasHosts PROVE Spec => []ExitZeroMeansDone
<1>1. RunInv /\ DoneInv /\ [Next]_vars => DoneInv'
  BY DoneStep, DoneStutter
<1>2. DoneInv => ExitZeroMeansDone
  BY DEF DoneInv
<1> QED
  BY <1>1, <1>2, DoneInit, RunInductive, PTL DEF Spec

----------------------------------------------------------------------------
(* Downloads: whatever makes the orders of a command Flat is a part of it   *)
(* that ran on one client alone, and such a part stays what it was.         *)

Kinds == {"script", "local", "run"}

\* A part of command i of play p has run on one client, and no task of the
\* command is to run that part on another.
Single(p, i) ==
    /\ Begun(p, i)
    /\ \E kind \in Kinds, c \in Client :
          /\ RanOn(p, i, kind) = {c}
          /\ (InCommand /\ p = play /\ i = cmd) =>
                 \A t \in 1 .. Len(tasks) : tasks[t].kind = kind => Elems(tasks[t].cs) \subseteq {c}

\* A use of the name, not after play q and command j of it, with a part alone.
NameAlone(nm, q, j) ==
    \E p \in 1 .. q : \E i \in 1 .. Len(playbook[p].cmds) :
        /\ p = q => i <= j
        /\ playbook[p].cmds[i].name = nm /\ Single(p, i)

FlatAlone == \A nm \in flat : \E p \in 1 .. Len(playbook) : \E i \in 1 .. Len(playbook[p].cmds) :
                 playbook[p].cmds[i].name = nm /\ Single(p, i)

\* A path with nothing appended is that of a client on this machine, or alone.
PlainAlone ==
    \A f \in fetched :
        /\ f[4] = {} /\ f[3] \in Remote => NameAlone(CmdOf(f).name, f[1], f[2])
        /\ f[4] # {} => f[3] \in Remote /\ f[4] = {ClientName[f[3]]}

\* While the invocation goes on these imply that downloads are apart.
DownInv == IF exit = "none" THEN FlatAlone /\ PlainAlone ELSE DownloadsApart

\* Of a command that is not cut into groups every task but the local one is for
\* the same clients.
LEMMA TasksAlike ==
    ASSUME ConnInv, NEW c \in Command, ~TasksPanic(c), c.once \/ c.serial = 0
    PROVE  \A t, u \in 1 .. Len(TasksOf(c)) :
               TasksOf(c)[t].kind = TasksOf(c)[u].kind => TasksOf(c)[u].cs = TasksOf(c)[t].cs
<1> DEFINE X == IF c.once THEN <<arr[1]>> ELSE clients
           S == IF HasScript(c) THEN Spread("script", c) ELSE <<>>
           L == IF c.local THEN << [kind |-> "local", cs |-> <<LocalClient>>] >> ELSE <<>>
           R == IF HasRun(c) THEN Spread("run", c) ELSE <<>>
           OfX == {t \in Task : t.cs = IF t.kind = "local" THEN <<LocalClient>> ELSE X}
<1>1. ClientGroups(c) = <<X>>
  BY DEF ClientGroups
<1>2. ASSUME NEW kind \in {"script", "run"}, HasScript(c) \/ HasRun(c)
      PROVE  Spread(kind, c) \in Seq(OfX)
  <2>1. ClientGroups(c) \in Seq(Groups)
    BY <1>2, ClientGroupsOnce DEF TasksPanic
  <2>2. X \in Seq(Client)
    BY <1>1, <2>1 DEF Groups
  <2> HIDE DEF X
  <2>3. [kind |-> kind, cs |-> X] \in OfX
    BY <1>2, <2>2 DEF Task
  <2>4. Spread(kind, c) = [g \in 1 .. 1 |-> [kind |-> kind, cs |-> X]]
    BY <1>1 DEF Spread
  <2> HIDE DEF OfX
  <2> QED
    BY <2>3, <2>4
<1>3. S \in Seq(OfX) /\ R \in Seq(OfX)
  <2> HIDE DEF OfX
  <2> QED
    BY <1>2
<1>4. L \in Seq(OfX)
  <2>1. [kind |-> "local", cs |-> <<LocalClient>>] \in OfX
    BY DEF Task, Client
  <2> HIDE DEF OfX
  <2> QED
    BY <2>1
<1>5. TasksOf(c) = S \o L \o R
  BY DEF TasksOf
<1>6. TasksOf(c) \in Seq(OfX)
  <2> HIDE DEF OfX, S, L, R
  <2> QED
    BY <1>3, <1>4, <1>5
<1>7. ASSUME NEW t \in 1 .. Len(TasksOf(c)) PROVE TasksOf(c)[t] \in OfX
  <2> HIDE DEF OfX
  <2> QED
    BY <1>6
<1> QED
  BY <1>7

\* The task under way, when it is over and has one client, is a part alone, or
\* the local part before it is.
LEMMA AloneNow ==
    ASSUME RunInv, TasksSoFar, InTask, pc = "fetch", task \in 1 .. Len(tasks), Len(CS) = 1
    PROVE  Single(play, cmd)
<1>1. /\ play \in 1 .. Len(playbook) /\ cmd \in 1 .. Len(Cmds) /\ Cmd \in Command /\ ConnInv
      /\ task \in Nat
  BY CmdFacts DEF RunInv, PlaceOK, InTask, RunTypeOK
<1>2. tasks = TasksOf(Cmd) /\ ~TasksPanic(Cmd) /\ InCommand
  BY DEF TasksSoFar, InCommand
<1>3. Begun(play, cmd)
  BY <1>2 DEF Begun, InPlay, InTask
<1>4. waited = Elems(CS) /\ Elems(CS) = {CS[1]}
  BY DEF RunInv, ClientsOK, Members, Elems, InTask
<1>5. /\ tasks[task].kind \in Kinds /\ CS = tasks[task].cs /\ CS[1] \in Client
      /\ \A t \in 1 .. Len(tasks) : \A x \in Elems(tasks[t].cs) : x \in Client
  <2>1. tasks \in Seq(Task)
    BY DEF RunInv, RunTypeOK
  <2>2. ASSUME NEW t \in 1 .. Len(tasks) PROVE tasks[t].kind \in Kinds /\ tasks[t].cs \in Seq(Client)
    <3>1. tasks[t] \in Task
      BY <2>1
    <3> QED
      BY <3>1 DEF Task, Kinds
  <2> QED
    BY <2>2 DEF CS, Elems
<1>6. ASSUME NEW kind \in Kinds, NEW c \in Client, RanHere(kind, c),
             \A t \in 1 .. Len(tasks) : tasks[t].kind = kind => Elems(tasks[t].cs) \subseteq {c}
      PROVE  Single(play, cmd)
  <2>1. \A x \in Client : x \in RanOn(play, cmd, kind) <=> RanHere(kind, x)
    BY <1>2 DEF TasksSoFar, RanOn, Kinds
  <2>2. \A x : RanHere(kind, x) => x = c
    BY <1>6 DEF RanHere
  <2>3. RanOn(play, cmd, kind) = {c}
    BY <1>6, <2>1, <2>2 DEF RanOn
  <2> QED
    BY <1>3, <1>6, <2>3 DEF Single
<1>7. RanHere(tasks[task].kind, CS[1])
  BY <1>4, <1>5 DEF RanHere
<1>8. CASE Cmd.once \/ Cmd.serial = 0
  <2>1. \A t \in 1 .. Len(tasks) : tasks[t].kind = tasks[task].kind => tasks[t].cs = CS
    BY <1>1, <1>2, <1>5, <1>8, TasksAlike
  <2> QED
    BY <1>4, <1>5, <1>6, <1>7, <2>1
<1>9. CASE ~(Cmd.once \/ Cmd.serial = 0)
  <2>1. Cmd.serial > 0 /\ ~Cmd.once
    BY <1>1, <1>9 DEF Command
  <2>2. ~HasScript(Cmd) /\ (HasRun(Cmd) => Cmd.local)
    BY <1>2, <2>1 DEF TasksPanic
  <2>3. \A x : Names(tasks, "local", x) => x = LocalClient
    <3>1. CASE Cmd.local
      BY <1>1, <1>2, <3>1, TasksReach
    <3>2. CASE ~Cmd.local
      <4>1. tasks = <<>>
        BY <1>2, <2>2, <3>2 DEF TasksOf
      <4> QED
        BY <1>1, <4>1
    <3> QED
      BY <3>1, <3>2
  <2>4. Cmd.local
    <3>1. SUFFICES ASSUME ~Cmd.local PROVE FALSE
      OBVIOUS
    <3>2. tasks = <<>>
      BY <1>2, <2>2, <3>1 DEF TasksOf
    <3> QED
      BY <1>1, <3>2
  <2>5. LocalClient \in Client /\ "local" \in Kinds
    BY DEF Client, Kinds
  <2>6. \A t \in 1 .. Len(tasks) : tasks[t].kind = "local" => Elems(tasks[t].cs) \subseteq {LocalClient}
    BY <2>3 DEF Names, Elems
  <2>7. RanHere("local", LocalClient)
    <3>1. tasks[1].kind = "local" /\ tasks[1].cs = <<LocalClient>> /\ 1 \in 1 .. Len(tasks)
      <4> DEFINE one == [kind |-> "local", cs |-> <<LocalClient>>]
                 R == IF HasRun(Cmd) THEN Spread("run", Cmd) ELSE <<>>
      <4>1. tasks = <<one>> \o R
        BY <1>2, <2>2, <2>4 DEF TasksOf
      <4>2. R \in Seq(OnceTask)
        BY <1>1, <2>1, SpreadOnce
      <4>3. one \in Task /\ one.kind = "local" /\ one.cs = <<LocalClient>>
        BY DEF Task, Client
      <4> HIDE DEF one, R
      <4>4. tasks[1] = one
        BY <4>1, <4>2
      <4> QED
        BY <1>1, <4>3, <4>4
    <3>2. CASE task = 1
      BY <1>4, <1>5, <3>1, <3>2 DEF RanHere, Elems
    <3>3. CASE task > 1
      BY <3>1, <3>3 DEF RanHere, Elems
    <3> QED
      BY <1>1, <3>2, <3>3
  <2> QED
    BY <1>6, <2>5, <2>6, <2>7
<1> QED
  BY <1>8, <1>9

\* Only a wait that succeeds adds to the history of runs.
LEMMA RanFrame ==
    ASSUME Next
    PROVE  ran' = ran \/ \E c \in Client : WaitOk(c)
<1>1. CASE MainStep
  <2>1. CASE \/ BeginPlay \/ PlayRefused \/ NoCommands \/ AllPlaysDone \/ ConnectRefused
             \/ ConnectAccepted \/ CreateTasksPanics \/ CreateTasksFails \/ CommandsDone
             \/ CloseClient \/ CloseFails \/ PlayDone \/ TasksDone \/ NoClients \/ NextCommand
    BY <2>1 DEF BeginPlay, PlayRefused, NoCommands, AllPlaysDone, ConnectRefused,
         ConnectAccepted, CreateTasksPanics, CreateTasksFails, CommandsDone, CloseClient,
         CloseFails, PlayDone, TasksDone, NoClients, NextCommand, runVars, histories
  <2>2. CASE \/ Launch \/ BeginTask \/ SkipCancelled \/ UploadFails \/ DistFails
             \/ RunRejected \/ RunFails \/ BuildFails \/ LaunchDone
             \/ OutputDone \/ WaitDone \/ FetchSkipped \/ FetchOk \/ FetchFails \/ FetchDone
    BY <2>2 DEF Launch, BeginTask, SkipCancelled, UploadFails, DistFails, RunRejected, RunFails,
         BuildFails, LaunchDone, OutputDone, WaitDone, FetchSkipped, FetchOk, FetchFails, FetchDone,
         runVars, histories
  <2> QED
    BY <1>1, <2>1, <2>2 DEF MainStep, OtherMainStep
<1>2. CASE Connecting
  BY <1>2 DEF Connecting, runVars
<1>3. ASSUME NEW c \in Client, Finish(c) \/ WaitStopped(c) \/ WaitFailed(c) \/ TubeFails(c)
      PROVE  ran' = ran
  BY <1>3 DEF Finish, WaitStopped, WaitFailed, TubeFails, runVars, histories
<1>4. CASE Terminated
  BY <1>4 DEF Terminated, vars, runVars
<1> QED
  BY <1>1, <1>2, <1>3, <1>4 DEF Next, WaitReturns

\* A part that ran on one client alone stays one.
LEMMA AloneStays ==
    ASSUME RunInv, Next, exit = "none", exit' = "none", NEW p \in Nat, NEW i \in Nat, Single(p, i)
    PROVE  Single(p, i)' /\ UNCHANGED playbook
<1>1. Begun(p, i)' /\ UNCHANGED playbook
  BY BegunStays DEF Single
<1>2. PICK kind \in Kinds, c \in Client :
          /\ RanOn(p, i, kind) = {c}
          /\ (InCommand /\ p = play /\ i = cmd) =>
                 \A t \in 1 .. Len(tasks) : tasks[t].kind = kind => Elems(tasks[t].cs) \subseteq {c}
  BY DEF Single
<1>3. (InCommand /\ p = play /\ i = cmd)' =>
          \A t \in 1 .. Len(tasks') : tasks'[t].kind = kind => Elems(tasks'[t].cs) \subseteq {c}
  <2>1. CASE NextCommand
    <3>1. ~InCommand /\ UNCHANGED <<play, cmd>> /\ play \in Nat /\ cmd \in Nat
      BY <2>1 DEF NextCommand, Alive, InCommand, InTask, RunInv, RunTypeOK
    <3>2. ~(p = play /\ i = cmd)
      BY <3>1 DEF Single, Begun
    <3> QED
      BY <3>1, <3>2
  <2>2. CASE ~NextCommand
    BY <1>2, <2>2, TasksKept
  <2> QED
    BY <2>1, <2>2
<1>4. RanOn(p, i, kind)' = {c}
  <2>1. CASE ran' = ran
    BY <1>2, <2>1 DEF RanOn
  <2>2. ASSUME NEW x \in Client, WaitOk(x) PROVE RanOn(p, i, kind)' = {c}
    <3>1. /\ ran' = ran \cup {<<play, cmd, tasks[task].kind, x>>} /\ InTask
          /\ x \in Elems(tasks[task].cs)
      BY <2>2 DEF WaitOk, Waiting, Alive, InTask, CS, Elems
    <3>2. task \in 1 .. Len(tasks)
      BY <3>1, TaskFacts DEF RunInv, PlaceOK
    <3>3. <<play, cmd, tasks[task].kind, x>> = <<p, i, kind, x>> => x = c
      BY <1>2, <3>1, <3>2 DEF InCommand
    <3> QED
      BY <1>2, <3>1, <3>3 DEF RanOn
  <2> QED
    BY <2>1, <2>2, RanFrame
<1> QED
  BY <1>1, <1>2, <1>3, <1>4 DEF Single

\* So the witnesses of a name stay, too.
LEMMA NameAloneStays ==
    ASSUME RunInv, Next, exit = "none", exit' = "none", UNCHANGED playbook,
           NEW nm, NEW q \in Nat, NEW j \in Nat, NameAlone(nm, q, j)
    PROVE  NameAlone(nm, q, j)'
<1>1. PICK p \in 1 .. q : \E i \in 1 .. Len(playbook[p].cmds) :
          /\ p = q => i <= j
          /\ playbook[p].cmds[i].name = nm /\ Single(p, i)
  BY DEF NameAlone
<1>2. PICK i \in 1 .. Len(playbook[p].cmds) :
          /\ p = q => i <= j
          /\ playbook[p].cmds[i].name = nm /\ Single(p, i)
  BY <1>1
<1>3. p \in Nat /\ i \in Nat
  OBVIOUS
<1>4. Single(p, i)'
  BY <1>2, <1>3, AloneStays
<1> QED
  BY <1>2, <1>4 DEF NameAlone

\* A part of the command in hand has run on one client alone once its orders
\* are Flat.
LEMMA FlatNow ==
    ASSUME RunInv, TasksSoFar, FlatAlone, FetchOk \/ FetchFails, Cmd.name \in flat'
    PROVE  NameAlone(Cmd.name, play, cmd)
<1>1. /\ InTask /\ pc = "fetch" /\ task \in 1 .. Len(tasks)
      /\ play \in 1 .. Len(playbook) /\ cmd \in 1 .. Len(Cmds)
      /\ Cmd.name \in flat \/ Len(CS) = 1
  BY Downloads DEF FetchOk, FetchFails, AtFetch, Alive
<1>2. CASE Len(CS) = 1
  <2>1. Single(play, cmd)
    BY <1>1, <1>2, AloneNow
  <2> QED
    BY <1>1, <2>1 DEF NameAlone, Cmd, Cmds
<1>3. CASE Cmd.name \in flat
  <2>1. PICK p \in 1 .. Len(playbook) : \E i \in 1 .. Len(playbook[p].cmds) :
            playbook[p].cmds[i].name = Cmd.name /\ Single(p, i)
    BY <1>3 DEF FlatAlone
  <2>4. PICK i \in 1 .. Len(playbook[p].cmds) : playbook[p].cmds[i].name = Cmd.name /\ Single(p, i)
    BY <2>1
  <2>2. p < play \/ (p = play /\ i <= cmd)
    BY <1>1, <2>4 DEF Single, Begun
  <2>3. p \in 1 .. play /\ (p = play => i <= cmd)
    BY <1>1, <2>2
  <2> QED
    BY <2>3, <2>4 DEF NameAlone
<1> QED
  BY <1>1, <1>2, <1>3

LEMMA FlatAloneStep ==
    ASSUME RunInv, TasksSoFar, FlatAlone, Next, exit = "none", exit' = "none"
    PROVE  FlatAlone'
<1> SUFFICES ASSUME NEW nm \in flat'
             PROVE  \E p \in 1 .. Len(playbook') : \E i \in 1 .. Len(playbook'[p].cmds) :
                        playbook'[p].cmds[i].name = nm /\ Single(p, i)'
  BY DEF FlatAlone
<1>1. \E p \in 1 .. Len(playbook) : \E i \in 1 .. Len(playbook[p].cmds) :
          playbook[p].cmds[i].name = nm /\ Single(p, i)
  <2>1. CASE nm \in flat
    BY <2>1 DEF FlatAlone
  <2>2. CASE nm \notin flat
    <3>1. FetchOk \/ FetchFails
      BY <2>2, FetchFrame
    <3>2. nm = Cmd.name /\ play \in 1 .. Len(playbook)
      BY <2>2, <3>1, Downloads
    <3>3. NameAlone(nm, play, cmd)
      BY <3>1, <3>2, FlatNow
    <3> QED
      BY <3>2, <3>3 DEF NameAlone
  <2> QED
    BY <2>1, <2>2
<1>2. PICK p \in 1 .. Len(playbook) : \E i \in 1 .. Len(playbook[p].cmds) :
          playbook[p].cmds[i].name = nm /\ Single(p, i)
  BY <1>1
<1>5. PICK i \in 1 .. Len(playbook[p].cmds) : playbook[p].cmds[i].name = nm /\ Single(p, i)
  BY <1>2
<1>3. p \in Nat /\ i \in Nat
  OBVIOUS
<1>4. Single(p, i)' /\ UNCHANGED playbook
  BY <1>3, <1>5, AloneStays
<1> QED
  BY <1>4, <1>5

LEMMA PlainAloneStep ==
    ASSUME RunInv, TasksSoFar, FlatAlone, PlainAlone, Next, exit = "none", exit' = "none"
    PROVE  PlainAlone'
<1>1. ASSUME NEW f \in fetched, UNCHANGED playbook
      PROVE  /\ f[4] = {} /\ f[3] \in Remote => NameAlone(CmdOf(f).name, f[1], f[2])'
             /\ f[4] # {} => f[3] \in Remote /\ f[4] = {ClientName[f[3]]}
  <2>1. f[1] \in Nat /\ f[2] \in Nat
    BY DEF RunInv, RunTypeOK
  <2>2. CASE f[4] = {} /\ f[3] \in Remote
    <3>1. PICK nm : nm = CmdOf(f).name
      OBVIOUS
    <3>2. NameAlone(nm, f[1], f[2])
      BY <2>2, <3>1 DEF PlainAlone
    <3>3. NameAlone(nm, f[1], f[2])'
      BY <1>1, <2>1, <3>2, NameAloneStays
    <3> QED
      BY <1>1, <2>2, <3>1, <3>3 DEF CmdOf, NameAlone
  <2> QED
    BY <2>2 DEF PlainAlone
<1>2. CASE FetchOk \/ FetchFails
  <2> DEFINE new == <<play, cmd, CS[cur], Suffix(CS[cur], Cmd.name \in flat')>>
  <2>1. UNCHANGED playbook /\ fetched' \subseteq fetched \cup {new} /\ play \in Nat /\ cmd \in Nat
    BY <1>2, Downloads DEF inputs, RunInv, RunTypeOK
  <2>2. PICK f : f = new
    OBVIOUS
  <2>3. f[4] # {} => f[3] \in Remote /\ f[4] = {ClientName[f[3]]}
    BY <2>2 DEF Suffix
  <2>4. ASSUME f[4] = {}, f[3] \in Remote PROVE NameAlone(CmdOf(f).name, f[1], f[2])'
    <3>1. Cmd.name \in flat'
      BY <2>2, <2>4 DEF Suffix
    <3>2. PICK nm : nm = Cmd.name
      OBVIOUS
    <3>3. PICK q, j : q = play /\ j = cmd
      OBVIOUS
    <3>4. NameAlone(nm, q, j)
      BY <1>2, <3>1, <3>2, <3>3, FlatNow
    <3>5. NameAlone(nm, q, j)'
      BY <2>1, <3>3, <3>4, NameAloneStays
    <3>6. f[1] = q /\ f[2] = j /\ CmdOf(f).name = nm
      BY <2>2, <3>2, <3>3 DEF CmdOf, Cmd, Cmds
    <3> QED
      BY <2>1, <3>5, <3>6 DEF CmdOf, NameAlone
  <2> HIDE DEF new
  <2>5. \A g \in fetched' : g \in fetched \/ g = f
    BY <2>1, <2>2
  <2> QED
    BY <1>1, <2>1, <2>3, <2>4, <2>5 DEF PlainAlone
<1>3. CASE ~(FetchOk \/ FetchFails)
  BY <1>1, <1>3, FetchFrame DEF PlainAlone
<1> QED
  BY <1>2, <1>3

LEMMA FlatApart == ASSUME FlatAlone, PlainAlone PROVE DownloadsApart
<1> SUFFICES ASSUME NEW f \in fetched, NEW g \in fetched, f[4] = g[4]
             PROVE  \/ {f[3], g[3]} \subseteq Remote /\ ClientName[f[3]] = ClientName[g[3]]
                    \/ \A h \in {f, g} : h[3] \in Remote => UsedAlone(h)
  BY DEF DownloadsApart
<1>1. CASE f[4] # {}
  <2>1. f[3] \in Remote /\ g[3] \in Remote /\ {ClientName[f[3]]} = {ClientName[g[3]]}
    BY <1>1 DEF PlainAlone
  <2> QED
    BY <2>1
<1>2. CASE f[4] = {}
  <2>1. ASSUME NEW h \in {f, g}, h[3] \in Remote PROVE UsedAlone(h)
    <3>1. NameAlone(CmdOf(h).name, h[1], h[2])
      BY <1>2, <2>1 DEF PlainAlone
    <3> QED
      BY <3>1 DEF NameAlone, Single, UsedAlone, Kinds
  <2> QED
    BY <2>1
<1> QED
  BY <1>1, <1>2

LEMMA DownStutter == ASSUME DownInv, UNCHANGED vars PROVE DownInv'
<1> USE DEF vars, connVars, runVars
<1>1. \A p, i : Single(p, i) => Single(p, i)'
  BY DEF Single, Begun, RanOn, InPlay, InCommand, InTask
<1>2. \A f : UsedAlone(f) => UsedAlone(f)'
  BY DEF UsedAlone, CmdOf, RanOn
<1>3. \A nm, q, j : NameAlone(nm, q, j) => NameAlone(nm, q, j)'
  BY <1>1 DEF NameAlone
<1>4. exit = "none" => FlatAlone' /\ PlainAlone'
  BY <1>1, <1>3 DEF DownInv, FlatAlone, PlainAlone, CmdOf
<1>5. exit # "none" => DownloadsApart'
  BY <1>2 DEF DownInv, DownloadsApart, CmdOf
<1> QED
  BY <1>4, <1>5 DEF DownInv

LEMMA DownStep == ASSUME RunInv, DoneInv, DownInv, Next PROVE DownInv'
<1>1. CASE exit # "none"
  BY <1>1, Ended, DownStutter
<1>2. CASE exit = "none" /\ exit' = "none"
  <2>1. FlatAlone /\ PlainAlone /\ TasksSoFar
    BY <1>2 DEF DownInv, DoneInv, Done
  <2>2. FlatAlone' /\ PlainAlone'
    BY <1>2, <2>1, FlatAloneStep, PlainAloneStep
  <2> QED
    BY <1>2, <2>2 DEF DownInv
<1>3. CASE exit = "none" /\ exit' # "none"
  <2>1. ~FetchOk /\ ~FetchFails /\ \A c \in Client : ~WaitOk(c)
    BY <1>3 DEF FetchOk, FetchFails, WaitOk, connVars
  <2>2. UNCHANGED <<playbook, fetched, ran>>
    BY <2>1, FetchFrame, RanFrame
  <2>3. DownloadsApart
    BY <1>3, FlatApart DEF DownInv
  <2>4. DownloadsApart'
    <3>1. \A f : CmdOf(f)' = CmdOf(f)
      BY <2>2 DEF CmdOf
    <3>2. \A p, i, kind : RanOn(p, i, kind)' = RanOn(p, i, kind)
      BY <2>2 DEF RanOn
    <3>3. \A f : UsedAlone(f) => UsedAlone(f)'
      BY <2>2, <3>1, <3>2, Zenon DEF UsedAlone
    <3> QED
      BY <2>2, <2>3, <3>1, <3>3, Zenon DEF DownloadsApart
  <2> QED
    BY <1>3, <2>4 DEF DownInv
<1> QED
  BY <1>1, <1>2, <1>3

\* What a download overwrites: for every playbook, every naming of the hosts,
\* every reuse of a command and every choice of failures, two clients' downloads
\* of one command have one path only if ssup's two clients have one name, or if
\* each remote one of them came after a part of the command had run on one
\* client alone, which made its orders Flat for good (src/usecase/run.go:297-303,
\* src/gateway/ssh/download.go:60-62).
THEOREM DownloadsApartAlways == Spec => []DownloadsApart
<1>1. Init => DownInv
  BY DEF Init, DownInv, FlatAlone, PlainAlone, DownloadsApart
<1>2. RunInv /\ DoneInv /\ [Next]_vars => DoneInv'
  BY DoneStep, DoneStutter
<1>3. RunInv /\ DoneInv /\ DownInv /\ [Next]_vars => DownInv'
  BY DownStep, DownStutter
<1>4. DownInv => DownloadsApart
  BY FlatApart DEF DownInv
<1> QED
  BY <1>1, <1>2, <1>3, <1>4, DoneInit, RunInductive, PTL DEF Spec

=============================================================================
