-------------------------- MODULE TaskInputProofs --------------------------
(***************************************************************************)
(* Standard input of tasks, for every playbook, length of the input and    *)
(* capacity of the pipes: nothing is delivered twice or out of order,      *)
(* status 0 means that the first task with input got all of it, and input  *)
(* alone makes no invocation fail.                                         *)
(***************************************************************************)
EXTENDS TaskInput, StackupProofs

----------------------------------------------------------------------------
(* the inductive invariant of what is delivered *)

PipesPlaced == \A p \in DOMAIN pipes : Past(p) \/ (Here(p) /\ p[4] \in launched)

\* A pipe is open as long as its command runs.
PipesOpen ==
    \A p \in DOMAIN pipes : ~pipes[p].rclosed => Here(p) /\ proc[p[4]] = "running"

\* A client's field holds a pipe of its own, that of the current task if it was
\* started for it.
StdinHeld ==
    /\ \A c \in Client : stdin[c] # NoPipe => stdin[c][4] = c
    /\ InTask => CS # <<>> /\ \A c \in launched : stdin[c] = Own(c)

\* f was made for the current task, or has a pipe of it to write to.
Feeds(f) ==
    /\ pc \in {"io", "wait", "fetch"} /\ Takes
    /\ f.clients = CS /\ f.writers = [k \in 1 .. Len(CS) |-> stdin[CS[k]]]

Writes(f) == \E k \in 1 .. Len(f.writers) : f.writers[k] # NoPipe /\ Here(f.writers[k])

FeederOK(f) ==
    /\ Len(f.clients) = Len(f.writers) /\ Len(f.made) = Len(f.writers)
    /\ f.at \in 1 .. Len(f.writers)
    /\ \A k \in 1 .. Len(f.writers) : f.writers[k] # NoPipe => f.writers[k] \in DOMAIN pipes

FeedersKnown ==
    /\ \A f \in feeders : FeederOK(f) /\ (Writes(f) => Feeds(f))
    /\ \A f, g \in feeders : Writes(f) /\ Writes(g) => f = g

\* What a pipe was given rises, and lies above what earlier tasks were given.
Rising(p) ==
    /\ ~TakesInput(p) => Delivered(p) = <<>>
    /\ pc = "launch" /\ Here(p) => Delivered(p) = <<>>
    /\ \A i \in 1 .. Len(Delivered(p)) : Delivered(p)[i] \in 1 .. taken
    /\ \A i, j \in 1 .. Len(Delivered(p)) : i < j => Delivered(p)[i] < Delivered(p)[j]

Above(p, q) ==
    \A i \in 1 .. Len(Delivered(p)), j \in 1 .. Len(Delivered(q)) :
        Delivered(p)[i] < Delivered(q)[j]

\* All that p was given came before piece k.
Below(p, k) == \A i \in 1 .. Len(Delivered(p)) : Delivered(p)[i] < k

DeliveredRises ==
    /\ \A p \in DOMAIN pipes : Rising(p)
    /\ \A p, q \in DOMAIN pipes : Precedes(p, q) => Above(p, q)

\* The piece a goroutine is writing is new to the pipes still to be given it.
ChunkNew ==
    \A f \in feeders : (f.state = "write" /\ Writes(f)) =>
        /\ f.chunk \in 1 .. taken
        /\ \A p \in DOMAIN pipes : ~Here(p) => Below(p, f.chunk)
        /\ \A k \in f.at .. Len(f.writers) : f.writers[k] # NoPipe => Below(f.writers[k], f.chunk)

\* Until the first task with input is over, there is its goroutine only, which
\* keeps the clients within one piece of each other.
FirstHere == \A p \in Fed : Here(p)
Untouched == feeders = {} /\ taken = 0

InStep(f) ==
    /\ f.state = "read" => \A p \in Fed : Len(Delivered(p)) = taken
    /\ f.state = "write" =>
         /\ f.chunk = taken /\ taken > 0
         /\ \A k \in 1 .. Len(f.writers) : f.writers[k] \in Fed =>
                Len(Delivered(f.writers[k])) = IF k < f.at THEN taken ELSE taken - 1

FirstTask ==
    FirstHere =>
       /\ Untouched \/ (InTask /\ pc # "launch" /\ Takes)
       /\ \A f, g \in feeders : Feeds(f) /\ f = g
       /\ \A f \in feeders : InStep(f)

\* Its commands are given the input from its start.
FromStart(p) ==
    /\ Delivered(p) = [k \in 1 .. Len(Delivered(p)) |-> k]
    /\ \A q \in Fed : TaskOfPipe(q) = TaskOfPipe(p) => Len(Delivered(q)) <= Len(Delivered(p)) + 1

FirstInOrder == \A p \in Fed : FirstFed(p) => FromStart(p)

OrderInv ==
    /\ InputTypeOK /\ PipesPlaced /\ PipesOpen /\ StdinHeld /\ FeedersKnown
    /\ DeliveredRises /\ ChunkNew /\ FirstTask /\ FirstInOrder

----------------------------------------------------------------------------
(* the steps, seen from Stackup *)

\* A step with input is one of the invocation, or the end of it, or none of its.
LEMMA InNextKinds ==
    ASSUME InNext
    PROVE  \/ Next \/ UNCHANGED vars
           \/ /\ exit' \in {"error", "abort"} /\ UNCHANGED <<connPhase, faults, runVars, inVars>>
<1>1. CASE InMainStep
  <2>1. CASE GetSizeFails
    BY <2>1 DEF GetSizeFails, Stop
  <2>2. CASE ~GetSizeFails
    BY <1>1, <2>2 DEF InMainStep, InBeginPlay, InNextCommand, InLaunch, LaunchLoopEnds,
         InOtherStep, Next, MainStep, OtherMainStep
  <2> QED
    BY <2>1, <2>2
<1>2. CASE Connecting /\ UNCHANGED inVars
  BY <1>2 DEF Next
<1>3. ASSUME NEW f \in feeders, Feed(f)
      PROVE  \/ UNCHANGED vars
             \/ /\ exit' \in {"error", "abort"}
                /\ UNCHANGED <<connPhase, faults, runVars, inVars>>
  BY <1>3 DEF Feed, ReadInput, InputEnds, WriteChunk, WriteFails, WritePanics, WriteClose, Stop
<1>4. ASSUME NEW c \in Client, ReadChunk(c) \/ InFinish(c) \/ (WaitReturns(c) /\ UNCHANGED inVars)
      PROVE  Next \/ UNCHANGED vars
  BY <1>4 DEF ReadChunk, InFinish, Next
<1>5. CASE Terminated /\ UNCHANGED inVars
  BY <1>5 DEF Next
<1> QED
  BY <1>1, <1>2, <1>3, <1>4, <1>5 DEF InNext

LEMMA RunKept == ASSUME RunInv, [InNext]_inAll PROVE RunInv'
<1>1. CASE UNCHANGED inAll
  BY <1>1, RunStutterInv DEF inAll
<1>2. CASE InNext
  <2>1. faults \subseteq FaultKind
    BY DEF RunInv, ConnInv, ConnTypeOK
  <2> QED
    BY <1>2, <2>1, InNextKinds, RunStepInv, RunStutterInv, StopInv
<1> QED
  BY <1>1, <1>2

----------------------------------------------------------------------------
(* the steps, seen from the pipes *)

\* Nothing that input is about changes, but for the way from the copies to the
\* wait and on to the downloads.
Quiet ==
    /\ UNCHANGED <<inVars, playbook, play, cmd, task, tasks, launched, proc>>
    /\ pc' = pc \/ <<pc, pc'>> \in {<<"io", "wait">>, <<"wait", "fetch">>}

\* The main goroutine goes to another place: the pipes are of the past then.
Moves ==
    /\ UNCHANGED <<tty, taken, pipes, feeders, playbook>>
    /\ pc' \notin {"io", "wait", "fetch"}
    /\ InTask' => CS' # <<>> /\ launched' = {}
    /\ stdin' \in [Client -> DOMAIN pipes \cup {NoPipe}]
    /\ \A c \in Client : stdin'[c] \in {stdin[c], NoPipe}
    /\ \A p \in DOMAIN pipes : Past(p)' /\ pipes[p].rclosed
    /\ Fed = {} => Untouched

LEMMA PipeFacts ==
    ASSUME InputTypeOK, NEW p \in DOMAIN pipes
    PROVE  /\ p[1] \in Nat /\ p[2] \in Nat /\ p[3] \in Nat /\ p[4] \in Client
           /\ p = <<p[1], p[2], p[3], p[4]>>
           /\ pipes[p].queue \in Seq(Nat) /\ pipes[p].got \in Seq(Nat)
           /\ pipes[p].wclosed \in BOOLEAN /\ pipes[p].rclosed \in BOOLEAN
<1>1. p \in PipeId /\ pipes[p] \in Pipe
  BY DEF InputTypeOK
<1> QED
  BY <1>1 DEF PipeId, Pipe

LEMMA DeliveredSeq ==
    ASSUME InputTypeOK, NEW p \in DOMAIN pipes
    PROVE  Delivered(p) \in Seq(Nat) /\ Len(Delivered(p)) \in Nat
<1>1. pipes[p].queue \in Seq(Nat) /\ pipes[p].got \in Seq(Nat)
  BY PipeFacts
<1>2. Delivered(p) \in Seq(Nat)
  BY <1>1, ConcatProperties DEF Delivered
<1> QED
  BY <1>2

\* The numbers of the place.
LEMMA Numbers == ASSUME RunInv PROVE play \in Nat \ {0} /\ cmd \in Nat \ {0} /\ task \in Nat \ {0}
BY DEF RunInv, RunTypeOK

\* Outside of a task nothing is open, and what a task has left open is gone when
\* its clients were waited for.
LEMMA ClosedOutside ==
    ASSUME RunInv, OrderInv, exit = "none", pc \notin {"launch", "io"}
    PROVE  \A p \in DOMAIN pipes : pipes[p].rclosed
<1> SUFFICES ASSUME NEW p \in DOMAIN pipes, ~pipes[p].rclosed PROVE FALSE
  OBVIOUS
<1>1. proc[p[4]] = "running"
  BY DEF OrderInv, PipesOpen
<1>2. p[4] \in Client
  BY PipeFacts DEF OrderInv
<1> QED
  BY <1>1, <1>2 DEF RunInv, NothingLeftBehind

LEMMA PastOutside ==
    ASSUME OrderInv, ~InTask
    PROVE  \A p \in DOMAIN pipes : Past(p)
BY DEF OrderInv, PipesPlaced, Here

\* The steps of main and of the head and the end of Run.
LEMMA PlayMoves ==
    ASSUME RunInv, OrderInv, UNCHANGED <<tty, taken, pipes, feeders>>,
           \/ BeginPlay /\ stdin' = [c \in Client |-> NoPipe]
           \/ (ConnectRefused \/ ConnectAccepted \/ CommandsDone \/ PlayDone) /\ UNCHANGED stdin
    PROVE  Moves
<1> USE DEF BeginPlay, ConnectRefused, ConnectAccepted, CommandsDone, PlayDone, Alive, inputs, place
<1>1. exit = "none" /\ pc \in {"play", "connect", "command", "close"} /\ ~InTask
  BY DEF InTask
<1>2. UNCHANGED playbook /\ pc' \in {"play", "connect", "command", "close"} /\ ~InTask'
  BY DEF InTask
<1>3. /\ \A c \in Client : stdin'[c] \in {stdin[c], NoPipe}
      /\ stdin' \in [Client -> DOMAIN pipes \cup {NoPipe}]
  BY DEF OrderInv, InputTypeOK
<1>4. \A p \in DOMAIN pipes : Past(p)'
  <2>1. TAKE p \in DOMAIN pipes
  <2>2. p[1] \in Nat /\ play \in Nat /\ Past(p)
    BY <1>1, PastOutside, PipeFacts, Numbers DEF OrderInv
  <2>3. CASE BeginPlay
    BY <2>2, <2>3 DEF Past, InPlay
  <2>4. CASE ConnectRefused \/ PlayDone
    BY <2>2, <2>4 DEF Past, InPlay
  <2>5. CASE ConnectAccepted
    BY <2>2, <2>5 DEF Past, InPlay
  <2>6. CASE CommandsDone
    BY <2>2, <2>6 DEF Past, InPlay, InCommand, InTask
  <2> QED
    BY <2>3, <2>4, <2>5, <2>6
<1>5. \A p \in DOMAIN pipes : pipes[p].rclosed
  BY <1>1, ClosedOutside
<1>6. Fed = {} => Untouched
  BY <1>1 DEF OrderInv, FirstTask, FirstHere
<1> QED
  BY <1>2, <1>3, <1>4, <1>5, <1>6 DEF Moves

\* Those between the tasks of a command.
LEMMA CommandMoves ==
    ASSUME RunInv, OrderInv, UNCHANGED <<tty, taken, pipes, feeders>>,
           \/ NextCommand /\ stdin' = [stdin EXCEPT ![LocalClient] = NoPipe]
           \/ (BeginTask \/ TasksDone) /\ UNCHANGED stdin
    PROVE  Moves
<1> USE DEF NextCommand, BeginTask, TasksDone, Alive, inputs, place
<1>1. exit = "none" /\ pc \in {"command", "task"} /\ ~InTask
  BY DEF InTask
<1>2. UNCHANGED playbook /\ pc' \in {"command", "task", "launch"}
  OBVIOUS
<1>3. /\ \A c \in Client : stdin'[c] \in {stdin[c], NoPipe}
      /\ stdin' \in [Client -> DOMAIN pipes \cup {NoPipe}]
  BY DEF OrderInv, InputTypeOK
<1>4. InTask' => CS' # <<>> /\ launched' = {}
  BY DEF InTask, CS
<1>5. \A p \in DOMAIN pipes : Past(p)'
  <2>1. TAKE p \in DOMAIN pipes
  <2>2. /\ p[1] \in Nat /\ play \in Nat /\ Past(p)
        /\ p[2] \in Nat /\ cmd \in Nat /\ p[3] \in Nat /\ task \in Nat
    BY <1>1, PastOutside, PipeFacts, Numbers DEF OrderInv
  <2>3. CASE NextCommand
    BY <2>2, <2>3 DEF Past, InPlay, InCommand, InTask
  <2>4. CASE BeginTask
    BY <2>2, <2>4 DEF Past, InPlay, InCommand, InTask
  <2>5. CASE TasksDone
    BY <2>2, <2>5 DEF Past, InPlay, InCommand, InTask
  <2> QED
    BY <2>3, <2>4, <2>5
<1>6. \A p \in DOMAIN pipes : pipes[p].rclosed
  BY <1>1, ClosedOutside
<1>7. Fed = {} => Untouched
  BY <1>1 DEF OrderInv, FirstTask, FirstHere
<1> QED
  BY <1>2, <1>3, <1>4, <1>5, <1>6, <1>7 DEF Moves

\* The end of a task: it had a client, which has a pipe.
LEMMA FetchDoneMoves ==
    ASSUME RunInv, OrderInv, UNCHANGED inVars, FetchDone
    PROVE  Moves
<1> USE DEF FetchDone, Alive, inputs, inVars
<1>1. exit = "none" /\ pc = "fetch" /\ InTask /\ ~InTask'
  BY DEF InTask
<1>2. \A p \in DOMAIN pipes : Past(p)'
  <2>1. TAKE p \in DOMAIN pipes
  <2>2. /\ p[1] \in Nat /\ play \in Nat /\ (Past(p) \/ Here(p))
        /\ p[2] \in Nat /\ cmd \in Nat /\ p[3] \in Nat /\ task \in Nat
    BY PipeFacts, Numbers DEF OrderInv, PipesPlaced
  <2>3. CASE Past(p)
    BY <2>2, <2>3 DEF Past, InPlay, InCommand, InTask
  <2>4. CASE Here(p)
    BY <2>2, <2>4 DEF Past, Here, TaskOfPipe, InPlay, InCommand, InTask
  <2> QED
    BY <2>2, <2>3, <2>4
<1>3. \A p \in DOMAIN pipes : pipes[p].rclosed
  BY <1>1, ClosedOutside
<1>4. Fed = {} => Untouched
  <2> SUFFICES ASSUME Fed = {}, ~Untouched PROVE FALSE
    OBVIOUS
  <2>1. Takes
    BY DEF OrderInv, FirstTask, FirstHere
  <2>2. CS # <<>> /\ CS \in Seq(Client) /\ Len(CS) \in Nat
    BY <1>1, TaskFacts DEF OrderInv, StdinHeld, RunInv, PlaceOK
  <2>3. 1 \in 1 .. Len(CS)
    BY <2>2
  <2>4. CS[1] \in Members
    BY <2>3 DEF Members
  <2>5. CS[1] \in launched /\ CS[1] \in Client
    BY <1>1, <2>2, <2>3, <2>4 DEF RunInv, ClientsOK
  <2>6. stdin[CS[1]] = Own(CS[1]) /\ stdin[CS[1]] \in DOMAIN pipes \cup {NoPipe}
    BY <1>1, <2>5 DEF OrderInv, StdinHeld, InputTypeOK
  <2>7. Own(CS[1]) \in DOMAIN pipes
    BY <2>6 DEF Own, NoPipe
  <2>8. TakesInput(Own(CS[1]))
    BY <2>1 DEF TakesInput, Own, Takes, Cmd, Cmds
  <2> QED
    BY <2>7, <2>8 DEF Fed
<1> QED
  BY <1>1, <1>2, <1>3, <1>4 DEF Moves, OrderInv, InputTypeOK

\* The steps that change what is delivered, or who delivers it.
Copies(f) == ReadInput(f) \/ InputEnds(f) \/ WriteChunk(f) \/ WriteFails(f) \/ WriteClose(f)

Delivers ==
    \/ InLaunch \/ LaunchLoopEnds
    \/ \E f \in feeders : exit = "none" /\ Copies(f)
    \/ \E c \in Client : ReadChunk(c) \/ InFinish(c)

LEMMA OtherKinds ==
    ASSUME RunInv, OrderInv, InOtherStep
    PROVE  Quiet \/ Moves
<1> USE DEF InOtherStep
<1>1. CASE \/ PlayRefused \/ NoCommands \/ AllPlaysDone \/ CreateTasksPanics \/ CreateTasksFails
           \/ NoClients \/ RunRejected \/ RunFails \/ BuildFails \/ CloseFails
  BY <1>1 DEF PlayRefused, NoCommands, AllPlaysDone, CreateTasksPanics, CreateTasksFails,
       NoClients, RunRejected, RunFails, BuildFails, CloseFails, runVars, Quiet
<1>2. CASE SkipCancelled \/ UploadFails
  BY <1>2 DEF SkipCancelled, UploadFails, Quiet, inputs, place, sessions
<1>3. CASE OutputDone \/ WaitDone
  BY <1>3 DEF OutputDone, WaitDone, Alive, Quiet, inputs, place, sessions
<1>4. CASE FetchSkipped \/ FetchOk \/ FetchFails \/ CloseClient
  BY <1>4 DEF FetchSkipped, FetchOk, FetchFails, CloseClient, Quiet, inputs, place, sessions
<1>5. CASE ConnectRefused \/ ConnectAccepted \/ CommandsDone \/ PlayDone
  BY <1>5, PlayMoves DEF inVars
<1>6. CASE BeginTask \/ TasksDone
  BY <1>6, CommandMoves DEF inVars
<1>7. CASE FetchDone
  BY <1>7, FetchDoneMoves
<1>8. CASE DistFails \/ LaunchDone
  BY <1>8 DEF DistFails, LaunchDone, AtClient, Alive
<1> QED
  BY <1>1, <1>2, <1>3, <1>4, <1>5, <1>6, <1>7, <1>8 DEF OtherMainStep

\* Every step leaves the pipes alone, leaves them behind, or delivers.
LEMMA PipeKinds ==
    ASSUME RunInv, OrderInv, [InNext]_inAll
    PROVE  Quiet \/ Moves \/ Delivers
<1>1. CASE UNCHANGED inAll
  BY <1>1 DEF inAll, vars, runVars, Quiet
<1>2. CASE InMainStep
  <2>1. CASE InBeginPlay
    BY <2>1, PlayMoves DEF InBeginPlay
  <2>2. CASE InNextCommand
    BY <2>2, CommandMoves DEF InNextCommand
  <2>3. CASE GetSizeFails
    BY <2>3 DEF GetSizeFails, Quiet, runVars, inVars
  <2>4. CASE InOtherStep
    BY <2>4, OtherKinds
  <2> QED
    BY <1>2, <2>1, <2>2, <2>3, <2>4 DEF InMainStep, Delivers
<1>3. CASE Connecting /\ UNCHANGED inVars
  BY <1>3 DEF Connecting, Quiet, runVars
<1>4. ASSUME NEW f \in feeders, Feed(f) PROVE Quiet \/ Delivers
  <2>1. CASE WritePanics(f)
    BY <2>1 DEF WritePanics, Quiet, runVars, inVars
  <2> QED
    BY <1>4, <2>1 DEF Feed, Delivers, Copies
<1>5. ASSUME NEW c \in Client, WaitReturns(c) /\ UNCHANGED inVars PROVE Quiet
  BY <1>5 DEF WaitReturns, WaitStopped, WaitFailed, TubeFails, WaitOk, runVars, Quiet, inputs, place
<1>6. CASE Terminated /\ UNCHANGED inVars
  BY <1>6 DEF Terminated, vars, runVars, Quiet
<1> QED
  BY <1>1, <1>2, <1>3, <1>4, <1>5, <1>6 DEF InNext, Delivers

----------------------------------------------------------------------------
(* steps that deliver nothing *)

\* What is said of the pipes alone stays true while they stay.
LEMMA PipesSame ==
    ASSUME UNCHANGED <<pipes, playbook>>
    PROVE  /\ Fed' = Fed
           /\ \A p : /\ Delivered(p)' = Delivered(p) /\ TakesInput(p)' = TakesInput(p)
                     /\ FirstFed(p)' = FirstFed(p) /\ FromStart(p)' = FromStart(p)
                     /\ \A k : Below(p, k)' = Below(p, k)
           /\ \A p, q : Above(p, q)' = Above(p, q)
BY DEF Fed, Delivered, TakesInput, FirstFed, FromStart, Below, Above

LEMMA QuietOrder == ASSUME OrderInv, Quiet PROVE OrderInv'
<1> USE DEF Quiet
<1>1. UNCHANGED <<pipes, playbook, feeders, stdin, taken, tty>>
  BY DEF inVars
<1>2. /\ InTask' = InTask /\ InPlay' = InPlay /\ InCommand' = InCommand
      /\ (pc = "launch") = (pc' = "launch")
      /\ pc \in {"io", "wait", "fetch"} => pc' \in {"io", "wait", "fetch"}
  BY DEF InTask, InPlay, InCommand
<1>3. CS' = CS /\ Takes' = Takes /\ (\A c : Own(c)' = Own(c))
  BY <1>1 DEF CS, Takes, Cmd, Cmds, Own
<1>4. \A p : Here(p)' = Here(p) /\ Past(p)' = Past(p)
  BY <1>2 DEF Here, Past
<1>5. \A f : Feeds(f) => Feeds(f)'
  BY <1>1, <1>2, <1>3 DEF Feeds
<1>6. \A f : Writes(f)' = Writes(f) /\ FeederOK(f)' = FeederOK(f)
  BY <1>1, <1>4 DEF Writes, FeederOK
<1>7. Fed' = Fed /\ \A p : /\ Delivered(p)' = Delivered(p) /\ TakesInput(p)' = TakesInput(p)
                           /\ FirstFed(p)' = FirstFed(p) /\ FromStart(p)' = FromStart(p)
                           /\ \A k : Below(p, k)' = Below(p, k)
  BY <1>1, PipesSame
<1>8. \A p, q : Above(p, q)' = Above(p, q)
  BY <1>1, PipesSame
<1>9. InputTypeOK'
  BY <1>1 DEF OrderInv, InputTypeOK
<1>10. PipesPlaced' /\ PipesOpen'
  BY <1>1, <1>4 DEF OrderInv, PipesPlaced, PipesOpen
<1>11. StdinHeld'
  BY <1>1, <1>2, <1>3 DEF OrderInv, StdinHeld
<1>12. FeedersKnown'
  BY <1>1, <1>5, <1>6 DEF OrderInv, FeedersKnown
<1>13. DeliveredRises'
  BY <1>1, <1>2, <1>4, <1>7, <1>8 DEF OrderInv, DeliveredRises, Rising
<1>14. ChunkNew'
  BY <1>1, <1>4, <1>6, <1>7 DEF OrderInv, ChunkNew
<1>15. FirstTask'
  <2>1. FirstHere' = FirstHere /\ Untouched' = Untouched
    BY <1>1, <1>4, <1>7 DEF FirstHere, Untouched
  <2>2. \A f : InStep(f)' = InStep(f)
    BY <1>1, <1>7 DEF InStep
  <2> QED
    BY <1>1, <1>2, <1>3, <1>5, <2>1, <2>2 DEF OrderInv, FirstTask
<1>16. FirstInOrder'
  BY <1>7 DEF OrderInv, FirstInOrder
<1> QED
  BY <1>9, <1>10, <1>11, <1>12, <1>13, <1>14, <1>15, <1>16 DEF OrderInv

\* A place cannot be both.
LEMMA PastNotHere ==
    ASSUME RunInv, OrderInv, NEW p \in DOMAIN pipes, Past(p)
    PROVE  ~Here(p)
<1>1. p[1] \in Nat /\ p[2] \in Nat /\ p[3] \in Nat /\ play \in Nat /\ cmd \in Nat /\ task \in Nat
  BY PipeFacts, Numbers DEF OrderInv
<1> QED
  BY <1>1 DEF Past, Here, TaskOfPipe

LEMMA MovesOrder == ASSUME RunInv, RunInv', OrderInv, Moves PROVE OrderInv'
<1>1. UNCHANGED <<pipes, playbook, feeders, taken, tty>>
  BY DEF Moves
<1>2. \A p \in DOMAIN pipes : Past(p)' /\ ~Here(p)' /\ pipes[p].rclosed
  <2>1. TAKE p \in DOMAIN pipes
  <2>2. Past(p)' /\ pipes[p].rclosed
    BY DEF Moves
  <2>3. p[1] \in Nat /\ p[2] \in Nat /\ p[3] \in Nat /\ play' \in Nat /\ cmd' \in Nat /\ task' \in Nat
    BY PipeFacts, Numbers DEF OrderInv, RunInv, RunTypeOK
  <2> QED
    BY <2>2, <2>3 DEF Past, Here, TaskOfPipe
<1>3. \A f \in feeders : FeederOK(f)' /\ ~Writes(f)'
  BY <1>1, <1>2 DEF OrderInv, FeedersKnown, FeederOK, Writes
<1>4. Fed' = Fed /\ \A p : /\ Delivered(p)' = Delivered(p) /\ TakesInput(p)' = TakesInput(p)
                           /\ FirstFed(p)' = FirstFed(p) /\ FromStart(p)' = FromStart(p)
  BY <1>1, PipesSame
<1>5. \A p, q : Above(p, q)' = Above(p, q)
  BY <1>1, PipesSame
<1>6. InputTypeOK'
  <2>1. stdin' \in [Client -> DOMAIN pipes \cup {NoPipe}]
    <3>1. stdin' \in [Client -> DOMAIN pipes' \cup {NoPipe}]
      BY DEF OrderInv, InputTypeOK, Moves
    <3> QED
      BY <1>1, <3>1
  <2> QED
    BY <1>1, <2>1 DEF OrderInv, InputTypeOK
<1>7. PipesPlaced' /\ PipesOpen'
  BY <1>1, <1>2 DEF PipesPlaced, PipesOpen
<1>8. StdinHeld'
  BY DEF OrderInv, StdinHeld, Moves
<1>9. FeedersKnown' /\ ChunkNew'
  BY <1>1, <1>3 DEF FeedersKnown, ChunkNew
<1>10. DeliveredRises'
  BY <1>1, <1>2, <1>4, <1>5 DEF OrderInv, DeliveredRises, Rising
<1>11. FirstTask'
  <2> SUFFICES ASSUME FirstHere' PROVE Untouched'
    BY DEF FirstTask, Untouched
  <2>1. Fed = {}
    BY <1>2, <1>4 DEF FirstHere, Fed
  <2> QED
    BY <1>1, <2>1 DEF Moves, Untouched
<1>12. FirstInOrder'
  BY <1>4 DEF OrderInv, FirstInOrder
<1> QED
  BY <1>6, <1>7, <1>8, <1>9, <1>10, <1>11, <1>12 DEF OrderInv

----------------------------------------------------------------------------
(* the start of a command *)

LEMMA InLaunchFacts ==
    ASSUME RunInv, OrderInv, InLaunch
    PROVE  /\ pc = "launch" /\ InTask /\ cur \in 1 .. Len(CS)
           /\ UNCHANGED <<tty, taken, feeders, playbook, pc, play, cmd, task, tasks>>
           /\ \E c \in Client :
                /\ c = CS[cur] /\ c \notin launched /\ Own(c) \notin DOMAIN pipes /\ Own(c) \in PipeId
                /\ launched' = launched \cup {c}
                /\ proc'[c] = "running" /\ \A d \in Client \ {c} : proc'[d] = proc[d]
                /\ DOMAIN pipes' = DOMAIN pipes \cup {Own(c)}
                /\ pipes' \in [DOMAIN pipes' -> Pipe]
                /\ pipes'[Own(c)] = [queue |-> <<>>, got |-> <<>>, wclosed |-> FALSE, rclosed |-> FALSE]
                /\ \A q \in DOMAIN pipes : pipes'[q] = pipes[q]
                /\ stdin' = [stdin EXCEPT ![c] = Own(c)]
<1> USE DEF InLaunch, Launch, AtClient, Alive, inputs, place
<1>1. pc = "launch" /\ InTask /\ UNCHANGED <<tty, taken, feeders, playbook, pc, play, cmd, task, tasks>>
  BY DEF InTask
<1>2. CS \in Seq(Client) /\ Len(CS) \in Nat /\ Once(CS) /\ cur \in 1 .. Len(CS)
  <2>1. CS \in Seq(Client) /\ Len(CS) \in Nat /\ Once(CS)
    BY <1>1, TaskFacts DEF RunInv, PlaceOK
  <2> QED
    BY <2>1 DEF RunInv, RunTypeOK
<1> DEFINE c == CS[cur]
           new == [queue |-> <<>>, got |-> <<>>, wclosed |-> FALSE, rclosed |-> FALSE]
<1>3. c \in Client /\ c \notin launched
  <2>1. c \in Client
    BY <1>2
  <2>2. launched \subseteq {CS[k] : k \in 1 .. cur - 1}
    BY <1>1 DEF RunInv, ClientsOK
  <2>3. \A k \in 1 .. cur - 1 : k \in 1 .. Len(CS) /\ k # cur
    BY <1>2
  <2> QED
    BY <1>2, <2>1, <2>2, <2>3 DEF Once
<1>4. Own(c) \notin DOMAIN pipes
  <2> SUFFICES ASSUME Own(c) \in DOMAIN pipes PROVE FALSE
    OBVIOUS
  <2>1. ~Past(Own(c))
    BY Numbers DEF Past, Own
  <2>2. Own(c)[4] \in launched
    BY <2>1 DEF OrderInv, PipesPlaced
  <2> QED
    BY <1>3, <2>2 DEF Own
<1>5. Own(c) \in PipeId
  BY <1>3, Numbers DEF Own, PipeId
<1>6. new \in Pipe
  BY DEF Pipe
<1>7. /\ pipes' = [q \in DOMAIN pipes \cup {Own(c)} |-> IF q = Own(c) THEN new ELSE pipes[q]]
      /\ stdin' = [stdin EXCEPT ![c] = Own(c)]
  BY DEF Own
<1>8. launched' = launched \cup {c} /\ proc' = [proc EXCEPT ![c] = "running"]
  OBVIOUS
<1>9. proc'[c] = "running" /\ \A d \in Client \ {c} : proc'[d] = proc[d]
  BY <1>3, <1>8 DEF RunInv, RunTypeOK
<1>10. /\ DOMAIN pipes' = DOMAIN pipes \cup {Own(c)} /\ pipes'[Own(c)] = new
       /\ \A q \in DOMAIN pipes : pipes'[q] = pipes[q]
  BY <1>4, <1>7
<1>11. pipes' \in [DOMAIN pipes' -> Pipe]
  <2>1. \A q \in DOMAIN pipes : pipes[q] \in Pipe
    BY DEF OrderInv, InputTypeOK
  <2> HIDE DEF new, c
  <2> QED
    BY <1>6, <1>7, <1>10, <2>1
<1> HIDE DEF c
<1>12. /\ c \in Client /\ c \notin launched /\ Own(c) \notin DOMAIN pipes /\ Own(c) \in PipeId
       /\ launched' = launched \cup {c}
       /\ proc'[c] = "running" /\ \A d \in Client \ {c} : proc'[d] = proc[d]
       /\ DOMAIN pipes' = DOMAIN pipes \cup {Own(c)}
       /\ pipes' \in [DOMAIN pipes' -> Pipe]
       /\ pipes'[Own(c)] = new
       /\ \A q \in DOMAIN pipes : pipes'[q] = pipes[q]
       /\ stdin' = [stdin EXCEPT ![c] = Own(c)]
  BY <1>3, <1>4, <1>5, <1>7, <1>8, <1>9, <1>10, <1>11
<1>13. c = CS[cur]
  BY DEF c
<1> QED
  BY <1>1, <1>2, <1>12, <1>13

LEMMA InLaunchOrder == ASSUME RunInv, OrderInv, InLaunch PROVE OrderInv'
<1>1. /\ pc = "launch" /\ InTask /\ cur \in 1 .. Len(CS)
      /\ UNCHANGED <<tty, taken, feeders, playbook, pc, play, cmd, task, tasks>>
  BY InLaunchFacts
<1>2. PICK c \in Client :
         /\ c = CS[cur] /\ c \notin launched /\ Own(c) \notin DOMAIN pipes /\ Own(c) \in PipeId
         /\ launched' = launched \cup {c}
         /\ proc'[c] = "running" /\ \A d \in Client \ {c} : proc'[d] = proc[d]
         /\ DOMAIN pipes' = DOMAIN pipes \cup {Own(c)}
         /\ pipes' \in [DOMAIN pipes' -> Pipe]
         /\ pipes'[Own(c)] = [queue |-> <<>>, got |-> <<>>, wclosed |-> FALSE, rclosed |-> FALSE]
         /\ \A q \in DOMAIN pipes : pipes'[q] = pipes[q]
         /\ stdin' = [stdin EXCEPT ![c] = Own(c)]
  BY InLaunchFacts
<1>fresh. PICK fresh : fresh = Own(c)
  OBVIOUS
<1>3. InTask' /\ InPlay' = InPlay /\ InCommand' = InCommand /\ CS' = CS /\ Takes' = Takes
  BY <1>1 DEF InTask, InPlay, InCommand, CS, Takes, Cmd, Cmds
<1>4. (\A d : Own(d)' = Own(d)) /\ \A p : Here(p)' = Here(p) /\ Past(p)' = Past(p)
  BY <1>1, <1>3 DEF Own, Here, Past
<1>5. /\ fresh[4] = c /\ Here(fresh) /\ fresh = <<play, cmd, task, c>>
      /\ fresh[1] \in Nat /\ fresh[2] \in Nat /\ fresh[3] \in Nat
  BY <1>1, <1>fresh, Numbers DEF Own, Here, TaskOfPipe
<1>6. /\ \A p \in DOMAIN pipes : Delivered(p)' = Delivered(p) /\ p # fresh
      /\ Delivered(fresh)' = <<>>
  <2>1. \A p \in DOMAIN pipes : Delivered(p)' = Delivered(p) /\ p # fresh
    BY <1>2, <1>fresh DEF Delivered
  <2>2. Delivered(fresh)' = <<>> \o <<>>
    BY <1>2, <1>4, <1>fresh DEF Delivered
  <2> QED
    BY <2>1, <2>2
<1>7. \A p : TakesInput(p)' = TakesInput(p)
  BY <1>1 DEF TakesInput
<1>8. Fed' \subseteq Fed \cup {fresh} /\ Fed \subseteq Fed' /\ Fed' \cap DOMAIN pipes = Fed
  BY <1>2, <1>7, <1>fresh DEF Fed
<1>9. \A p \in DOMAIN pipes : p[1] \in Nat /\ p[2] \in Nat /\ p[3] \in Nat
  BY PipeFacts DEF OrderInv
<1>10. InputTypeOK'
  <2>1. Len(pipes'[fresh].queue) <= Room /\ DOMAIN pipes' \subseteq PipeId
    <3>1. pipes'[fresh].queue = <<>> /\ Len(<<>>) = 0
      BY <1>2, <1>fresh
    <3> QED
      BY <1>2, <3>1, InputAssumption DEF OrderInv, InputTypeOK
  <2>2. \A p \in DOMAIN pipes' : Len(pipes'[p].queue) <= Room
    BY <1>2, <2>1, <1>fresh DEF OrderInv, InputTypeOK
  <2>3. stdin' \in [Client -> DOMAIN pipes' \cup {NoPipe}]
    BY <1>2 DEF OrderInv, InputTypeOK
  <2> QED
    BY <1>1, <1>2, <2>1, <2>2, <2>3 DEF OrderInv, InputTypeOK
<1>11. PipesPlaced'
  BY <1>2, <1>4, <1>5, <1>fresh DEF OrderInv, PipesPlaced
<1>12. PipesOpen'
  <2> SUFFICES ASSUME NEW p \in DOMAIN pipes', ~pipes'[p].rclosed
               PROVE  Here(p) /\ proc'[p[4]] = "running"
    BY <1>4 DEF PipesOpen
  <2>1. CASE p = fresh
    BY <1>2, <1>5, <1>fresh, <2>1
  <2>2. CASE p \in DOMAIN pipes
    <3>1. Here(p) /\ proc[p[4]] = "running" /\ p[4] \in Client
      BY <1>2, <2>2, PipeFacts DEF OrderInv, PipesOpen
    <3> QED
      BY <1>2, <3>1
  <2> QED
    BY <1>2, <2>1, <2>2, <1>fresh
<1>13. StdinHeld'
  <2>1. \A d \in Client : stdin'[d] = IF d = c THEN fresh ELSE stdin[d]
    BY <1>2, <1>fresh DEF OrderInv, InputTypeOK
  <2>2. CS # <<>> /\ \A d \in launched' : d \in Client /\ stdin'[d] = Own(d)
    <3>1. launched \subseteq Client
      BY DEF RunInv, RunTypeOK
    <3> QED
      BY <1>1, <1>2, <2>1, <3>1, <1>fresh DEF OrderInv, StdinHeld
  <2> QED
    BY <1>3, <1>4, <1>5, <2>1, <2>2 DEF OrderInv, StdinHeld
<1>14. \A f \in feeders : FeederOK(f)' /\ ~Writes(f) /\ ~Writes(f)'
  <2>1. TAKE f \in feeders
  <2>2. FeederOK(f) /\ ~Writes(f)
    BY <1>1 DEF OrderInv, FeedersKnown, Feeds
  <2> QED
    BY <1>2, <1>4, <2>2 DEF FeederOK, Writes
<1>15. FeedersKnown' /\ ChunkNew'
  BY <1>1, <1>14 DEF FeedersKnown, ChunkNew
<1>16. DeliveredRises'
  <2>1. ASSUME NEW p \in DOMAIN pipes' PROVE Rising(p)'
    <3>1. CASE p = fresh
      BY <1>6, <3>1 DEF Rising
    <3>2. CASE p \in DOMAIN pipes
      BY <1>1, <1>4, <1>6, <1>7, <3>2 DEF OrderInv, DeliveredRises, Rising
    <3> QED
      BY <1>2, <3>1, <3>2, <1>fresh
  <2>2. ASSUME NEW p \in DOMAIN pipes', NEW q \in DOMAIN pipes', Precedes(p, q)
        PROVE  Above(p, q)'
    <3>1. CASE p = fresh \/ q = fresh
      BY <1>6, <3>1 DEF Above
    <3>2. CASE p \in DOMAIN pipes /\ q \in DOMAIN pipes
      BY <1>6, <2>2, <3>2 DEF OrderInv, DeliveredRises, Above
    <3> QED
      BY <1>2, <3>1, <3>2, <1>fresh
  <2> QED
    BY <2>1, <2>2 DEF DeliveredRises
<1>17. FirstTask'
  <2> SUFFICES ASSUME FirstHere' PROVE Untouched'
    BY DEF FirstTask, Untouched
  <2>1. FirstHere
    BY <1>4, <1>8 DEF FirstHere
  <2> QED
    BY <1>1, <2>1 DEF OrderInv, FirstTask, Untouched
<1>18. FirstInOrder'
  <2> SUFFICES ASSUME NEW p \in Fed', FirstFed(p)' PROVE FromStart(p)'
    BY DEF FirstInOrder
  <2>1. CASE p = fresh
    <3>1. ASSUME NEW q \in Fed', TaskOfPipe(q) = TaskOfPipe(fresh) PROVE Len(Delivered(q)') = 0
      <4>1. CASE q = fresh
        BY <1>6, <4>1
      <4>2. CASE q \in DOMAIN pipes
        <5>1. Here(q)
          BY <1>5, <3>1 DEF Here, TaskOfPipe
        <5> QED
          BY <1>1, <1>6, <4>2, <5>1 DEF OrderInv, DeliveredRises, Rising
      <4> QED
        BY <1>8, <3>1, <4>1, <4>2 DEF Fed
    <3>2. Delivered(fresh)' = <<>> /\ Len(<<>>) = 0
      BY <1>6
    <3> QED
      BY <2>1, <3>1, <3>2 DEF FromStart
  <2>2. CASE p \in DOMAIN pipes
    <3>1. p \in Fed /\ FirstFed(p)
      BY <1>8, <2>2 DEF FirstFed
    <3>2. FromStart(p) /\ Delivered(p)' = Delivered(p)
      BY <1>6, <2>2, <3>1 DEF OrderInv, FirstInOrder
    <3>3. Len(Delivered(p)) \in Nat
      BY <2>2, DeliveredSeq DEF OrderInv
    <3>4. ASSUME NEW q \in Fed', TaskOfPipe(q) = TaskOfPipe(p)
          PROVE  Len(Delivered(q)') <= Len(Delivered(p)') + 1
      <4>1. CASE q = fresh
        BY <1>6, <3>2, <3>3, <4>1
      <4>2. CASE q \in Fed
        <5>1. q \in DOMAIN pipes
          BY <4>2 DEF Fed
        <5> QED
          BY <1>6, <3>2, <3>4, <4>2, <5>1 DEF FromStart
      <4> QED
        BY <1>8, <4>1, <4>2
    <3> QED
      BY <3>2, <3>4 DEF FromStart
  <2> QED
    BY <1>8, <2>1, <2>2 DEF Fed
<1> QED
  BY <1>10, <1>11, <1>12, <1>13, <1>15, <1>16, <1>17, <1>18 DEF OrderInv

----------------------------------------------------------------------------
(* the start of the copying goroutine *)

\* A goroutine that is made knows the clients of the task and their pipes.
LEMMA NewFeeder ==
    ASSUME RunInv, OrderInv, LaunchLoopEnds
    PROVE  /\ exit = "none" /\ pc = "launch" /\ pc' = "io"
           /\ UNCHANGED <<tty, taken, pipes, stdin, playbook, play, cmd, task, tasks, launched, proc>>
           /\ \/ UNCHANGED feeders
              \/ /\ Takes
                 /\ \E g \in Feeder :
                      /\ feeders' = feeders \cup {g} /\ g.state = "read" /\ FeederOK(g)
                      /\ g.clients = CS /\ g.writers = [k \in 1 .. Len(CS) |-> stdin[CS[k]]]
                      /\ \A k \in 1 .. Len(CS) : g.made[k] = Made(CS[k])
<1> USE DEF LaunchLoopEnds
<1>1. /\ exit = "none" /\ pc = "launch" /\ pc' = "io"
      /\ UNCHANGED <<tty, taken, pipes, stdin, playbook, play, cmd, task, tasks, launched, proc>>
  BY DEF LaunchDone, DistFails, AtClient, Alive, inputs, place, sessions
<1> SUFFICES ASSUME feeders' # feeders
             PROVE  /\ Takes
                    /\ \E g \in Feeder :
                         /\ feeders' = feeders \cup {g} /\ g.state = "read" /\ FeederOK(g)
                         /\ g.clients = CS /\ g.writers = [k \in 1 .. Len(CS) |-> stdin[CS[k]]]
                         /\ \A k \in 1 .. Len(CS) : g.made[k] = Made(CS[k])
  BY <1>1
<1> DEFINE ws == [k \in 1 .. Len(CS) |-> stdin[CS[k]]]
           ms == [k \in 1 .. Len(CS) |-> Made(CS[k])]
           new == [writers |-> ws, clients |-> CS, made |-> ms, chunk |-> 0, at |-> 1,
                   state |-> "read"]
<1>2. Takes /\ feeders' = feeders \cup {new}
  BY DEF HandleTaskInput
<1>3. CS \in Seq(Client) /\ Len(CS) \in Nat /\ CS # <<>>
  <2>1. InTask
    BY <1>1 DEF InTask
  <2> QED
    BY <2>1, TaskFacts DEF RunInv, PlaceOK, OrderInv, StdinHeld
<1>4. 1 \in 1 .. Len(CS)
  BY <1>3
<1>5. \A k \in 1 .. Len(CS) : stdin[CS[k]] \in DOMAIN pipes \cup {NoPipe}
  BY <1>3 DEF OrderInv, InputTypeOK
<1>6. ws \in Seq(PipeId \cup {NoPipe}) /\ Len(ws) = Len(CS)
  <2>1. \A k \in 1 .. Len(CS) : stdin[CS[k]] \in PipeId \cup {NoPipe}
    BY <1>5 DEF OrderInv, InputTypeOK
  <2> QED
    BY <1>3, <2>1
<1>7. ms \in Seq(Seq(Nat)) /\ Len(ms) = Len(CS)
  <2>1. \A k \in 1 .. Len(CS) : Made(CS[k]) \in Seq(Nat)
    <3>1. TAKE k \in 1 .. Len(CS)
    <3>2. <<play, cmd>> \in Seq(Nat) /\ <<play>> \in Seq(Nat)
      BY Numbers
    <3> QED
      BY <3>2 DEF Made
  <2> QED
    BY <1>3, <2>1
<1>8. /\ new.writers = ws /\ new.clients = CS /\ new.made = ms /\ new.at = 1
      /\ new.state = "read"
  OBVIOUS
<1>9. new \in Feeder
  BY <1>3, <1>6, <1>7 DEF Feeder
<1>10. FeederOK(new)
  <2>1. \A k \in 1 .. Len(ws) : ws[k] # NoPipe => ws[k] \in DOMAIN pipes
    BY <1>5, <1>6
  <2> HIDE DEF new
  <2> QED
    BY <1>4, <1>6, <1>7, <1>8, <2>1 DEF FeederOK
<1>11. \A k \in 1 .. Len(CS) : ms[k] = Made(CS[k])
  OBVIOUS
<1> HIDE DEF new
<1>12. /\ new \in Feeder /\ feeders' = feeders \cup {new} /\ new.state = "read" /\ FeederOK(new)
       /\ new.clients = CS /\ new.writers = ws
       /\ \A k \in 1 .. Len(CS) : new.made[k] = Made(CS[k])
  BY <1>2, <1>8, <1>9, <1>10, <1>11
<1> QED
  BY <1>2, <1>12

LEMMA LaunchLoopEndsOrder == ASSUME RunInv, OrderInv, LaunchLoopEnds PROVE OrderInv'
<1>1. /\ exit = "none" /\ pc = "launch" /\ pc' = "io"
      /\ UNCHANGED <<tty, taken, pipes, stdin, playbook, play, cmd, task, tasks, launched, proc>>
  BY NewFeeder
<1>2. InTask /\ InTask' /\ InPlay' = InPlay /\ InCommand' = InCommand /\ CS' = CS /\ Takes' = Takes
  BY <1>1 DEF InTask, InPlay, InCommand, CS, Takes, Cmd, Cmds
<1>3. (\A c : Own(c)' = Own(c)) /\ \A p : Here(p)' = Here(p) /\ Past(p)' = Past(p)
  BY <1>1, <1>2 DEF Own, Here, Past
<1>4. Fed' = Fed /\ \A p : /\ Delivered(p)' = Delivered(p) /\ TakesInput(p)' = TakesInput(p)
                           /\ FirstFed(p)' = FirstFed(p) /\ FromStart(p)' = FromStart(p)
  BY <1>1, PipesSame
<1>5. \A p, q : Above(p, q)' = Above(p, q)
  BY <1>1, PipesSame
<1>6. \A f : FeederOK(f)' = FeederOK(f) /\ Writes(f)' = Writes(f)
  BY <1>1, <1>3 DEF FeederOK, Writes
<1>7. \A f \in feeders : FeederOK(f) /\ ~Writes(f)
  BY <1>1 DEF OrderInv, FeedersKnown, Feeds
<1>8. \/ feeders' = feeders
      \/ Takes /\ \E g \in Feeder :
                     /\ feeders' = feeders \cup {g} /\ g.state = "read" /\ FeederOK(g) /\ Feeds(g)'
  <2>1. ASSUME NEW g \in Feeder, Takes,
               g.clients = CS, g.writers = [k \in 1 .. Len(CS) |-> stdin[CS[k]]]
        PROVE  Feeds(g)'
    BY <1>1, <1>2, <2>1 DEF Feeds
  <2> QED
    BY <2>1, NewFeeder
<1>9. FirstHere' = FirstHere /\ (FirstHere => Untouched)
  BY <1>1, <1>3, <1>4 DEF FirstHere, OrderInv, FirstTask
<1>10. PipesPlaced' /\ PipesOpen' /\ StdinHeld'
  BY <1>1, <1>2, <1>3 DEF OrderInv, PipesPlaced, PipesOpen, StdinHeld
<1>11. DeliveredRises'
  BY <1>1, <1>3, <1>4, <1>5 DEF OrderInv, DeliveredRises, Rising
<1>12. FirstInOrder'
  BY <1>4 DEF OrderInv, FirstInOrder
<1>13. InputTypeOK'
  BY <1>1, <1>8 DEF OrderInv, InputTypeOK
<1>14. CASE feeders' = feeders
  <2>1. FeedersKnown' /\ ChunkNew'
    BY <1>6, <1>7, <1>14 DEF FeedersKnown, ChunkNew
  <2>2. FirstTask'
    BY <1>1, <1>9, <1>14 DEF FirstTask, Untouched
  <2> QED
    BY <1>10, <1>11, <1>12, <1>13, <2>1, <2>2 DEF OrderInv
<1>15. ASSUME NEW g \in Feeder, Takes, feeders' = feeders \cup {g}, g.state = "read", FeederOK(g),
              Feeds(g)'
       PROVE  OrderInv'
  <2>1. FeedersKnown' /\ ChunkNew'
    BY <1>6, <1>7, <1>15 DEF FeedersKnown, ChunkNew
  <2>2. FirstTask'
    <3> SUFFICES ASSUME FirstHere
                 PROVE  (Feeds(g) /\ InStep(g))' /\ feeders' = {g}
      BY <1>1, <1>2, <1>9, <1>15 DEF FirstTask
    <3>1. feeders' = {g} /\ taken' = 0
      BY <1>1, <1>9, <1>15 DEF Untouched
    <3>2. \A p \in Fed : Len(Delivered(p)) = 0
      <4>1. TAKE p \in Fed
      <4>2. Delivered(p) = <<>>
        BY <1>1, <4>1 DEF FirstHere, Fed, OrderInv, DeliveredRises, Rising
      <4> QED
        BY <4>2
    <3> QED
      BY <1>4, <1>15, <3>1, <3>2 DEF InStep
  <2> QED
    BY <1>10, <1>11, <1>12, <1>13, <2>1, <2>2 DEF OrderInv
<1> QED
  BY <1>8, <1>14, <1>15

----------------------------------------------------------------------------
(* steps within a task that deliver nothing *)

\* What has been delivered, and where ssup is, are as they were.
Stays ==
    /\ UNCHANGED <<tty, stdin, playbook, pc, play, cmd, task, tasks, launched>>
    /\ taken' \in taken .. Chunks
    /\ DOMAIN pipes' = DOMAIN pipes
    /\ \A p \in DOMAIN pipes : Delivered(p)' = Delivered(p)

LEMMA StaysPlace ==
    ASSUME UNCHANGED <<stdin, playbook, pc, play, cmd, task, tasks, launched>>,
           DOMAIN pipes' = DOMAIN pipes
    PROVE  /\ InTask' = InTask /\ InPlay' = InPlay /\ InCommand' = InCommand
           /\ CS' = CS /\ Takes' = Takes
           /\ \A c : Own(c)' = Own(c) /\ Made(c)' = Made(c)
           /\ \A p : Here(p)' = Here(p) /\ Past(p)' = Past(p) /\ TakesInput(p)' = TakesInput(p)
           /\ \A f : Feeds(f)' = Feeds(f) /\ Writes(f)' = Writes(f) /\ FeederOK(f)' = FeederOK(f)
           /\ Fed' = Fed /\ FirstHere' = FirstHere
           /\ \A p : FirstFed(p)' = FirstFed(p)
<1>1. /\ InTask' = InTask /\ InPlay' = InPlay /\ InCommand' = InCommand
      /\ CS' = CS /\ Takes' = Takes
  BY DEF InTask, InPlay, InCommand, CS, Takes, Cmd, Cmds
<1>2. \A c : Own(c)' = Own(c) /\ Made(c)' = Made(c)
  BY DEF Own, Made
<1>3. \A p : Here(p)' = Here(p) /\ Past(p)' = Past(p) /\ TakesInput(p)' = TakesInput(p)
  BY <1>1 DEF Here, Past, TakesInput
<1>4. \A f : Feeds(f)' = Feeds(f) /\ Writes(f)' = Writes(f) /\ FeederOK(f)' = FeederOK(f)
  BY <1>1, <1>3 DEF Feeds, Writes, FeederOK
<1>5. Fed' = Fed
  BY <1>3 DEF Fed
<1>6. FirstHere' = FirstHere /\ \A p : FirstFed(p)' = FirstFed(p)
  BY <1>3, <1>5 DEF FirstHere, FirstFed
<1> QED
  BY <1>1, <1>2, <1>3, <1>4, <1>5, <1>6

LEMMA StaysFacts ==
    ASSUME RunInv, OrderInv, Stays
    PROVE  PipesPlaced' /\ StdinHeld' /\ DeliveredRises' /\ FirstInOrder'
<1>1. /\ UNCHANGED <<tty, stdin, playbook, pc, play, cmd, task, tasks, launched>>
      /\ DOMAIN pipes' = DOMAIN pipes
      /\ \A p \in DOMAIN pipes : Delivered(p)' = Delivered(p)
  BY DEF Stays
<1>2. /\ InTask' = InTask /\ CS' = CS
      /\ \A c : Own(c)' = Own(c)
      /\ \A p : Here(p)' = Here(p) /\ Past(p)' = Past(p) /\ TakesInput(p)' = TakesInput(p)
      /\ Fed' = Fed
      /\ \A p : FirstFed(p)' = FirstFed(p)
  BY <1>1, StaysPlace
<1>3. PipesPlaced' /\ StdinHeld'
  BY <1>1, <1>2 DEF OrderInv, PipesPlaced, StdinHeld
<1>4. DeliveredRises'
  <2>1. ASSUME NEW p \in DOMAIN pipes PROVE Rising(p)'
    <3>1. Rising(p) /\ taken \in Nat /\ taken' \in Nat /\ taken <= taken'
      BY InputAssumption DEF OrderInv, DeliveredRises, InputTypeOK, Stays
    <3>2. 1 .. taken \subseteq 1 .. taken'
      BY <3>1
    <3> QED
      BY <1>1, <1>2, <3>1, <3>2 DEF Rising
  <2>2. ASSUME NEW p \in DOMAIN pipes, NEW q \in DOMAIN pipes, Precedes(p, q) PROVE Above(p, q)'
    <3>1. Above(p, q)
      BY <2>2 DEF OrderInv, DeliveredRises
    <3> QED
      BY <1>1, <3>1 DEF Above
  <2> QED
    BY <1>1, <2>1, <2>2 DEF DeliveredRises
<1>5. FirstInOrder'
  <2> SUFFICES ASSUME NEW p \in Fed, FirstFed(p) PROVE FromStart(p)'
    BY <1>2 DEF FirstInOrder
  <2>1. FromStart(p) /\ Fed \subseteq DOMAIN pipes
    BY DEF OrderInv, FirstInOrder, Fed
  <2> QED
    BY <1>1, <1>2, <2>1 DEF FromStart
<1> QED
  BY <1>3, <1>4, <1>5

\* The steps of a command move pieces within its pipe, or close its end.
LEMMA CommandStepOrder ==
    ASSUME RunInv, OrderInv, Stays, InputTypeOK', PipesOpen', UNCHANGED <<feeders, taken>>
    PROVE  OrderInv'
<1>1. /\ UNCHANGED <<tty, stdin, playbook, pc, play, cmd, task, tasks, launched>>
      /\ DOMAIN pipes' = DOMAIN pipes
      /\ \A p \in DOMAIN pipes : Delivered(p)' = Delivered(p)
  BY DEF Stays
<1>2. /\ InTask' = InTask /\ Takes' = Takes
      /\ \A p : Here(p)' = Here(p)
      /\ \A f : Feeds(f)' = Feeds(f) /\ Writes(f)' = Writes(f) /\ FeederOK(f)' = FeederOK(f)
      /\ Fed' = Fed /\ FirstHere' = FirstHere
  BY <1>1, StaysPlace
<1>3. FeedersKnown'
  BY <1>2 DEF OrderInv, FeedersKnown
<1>4. ChunkNew'
  <2> SUFFICES ASSUME NEW f \in feeders, f.state = "write", Writes(f)
               PROVE  /\ f.chunk \in 1 .. taken
                      /\ \A p \in DOMAIN pipes : ~Here(p) => Below(p, f.chunk)'
                      /\ \A k \in f.at .. Len(f.writers) : f.writers[k] # NoPipe =>
                             Below(f.writers[k], f.chunk)'
    BY <1>1, <1>2 DEF ChunkNew
  <2>1. \A p \in DOMAIN pipes : Below(p, f.chunk)' = Below(p, f.chunk)
    BY <1>1 DEF Below
  <2>2. \A k \in f.at .. Len(f.writers) : f.writers[k] # NoPipe => f.writers[k] \in DOMAIN pipes
    <3>1. f \in Feeder /\ FeederOK(f)
      BY DEF OrderInv, InputTypeOK, FeedersKnown
    <3>2. Len(f.writers) \in Nat /\ f.at \in Nat /\ f.at >= 1
      BY <3>1 DEF Feeder, FeederOK
    <3> QED
      BY <3>1, <3>2 DEF FeederOK
  <2> QED
    BY <2>1, <2>2 DEF OrderInv, ChunkNew
<1>5. FirstTask'
  <2>1. \A p \in Fed : Delivered(p)' = Delivered(p)
    BY <1>1 DEF Fed
  <2>2. \A f \in feeders : InStep(f) => InStep(f)'
    BY <1>1, <1>2, <2>1 DEF InStep
  <2> QED
    BY <1>1, <1>2, <2>2 DEF OrderInv, FirstTask, Untouched
<1> QED
  BY <1>3, <1>4, <1>5, StaysFacts DEF OrderInv

\* A piece read is delivered still.
LEMMA ReadShifts ==
    ASSUME NEW g \in Seq(Nat), NEW q \in Seq(Nat), q # <<>>
    PROVE  /\ Append(g, Head(q)) \o Tail(q) = g \o q
           /\ Append(g, Head(q)) \in Seq(Nat) /\ Tail(q) \in Seq(Nat) /\ Len(Tail(q)) < Len(q)
<1>1. Head(q) \in Nat /\ Tail(q) \in Seq(Nat) /\ Len(Tail(q)) = Len(q) - 1
  BY HeadTailProperties
<1>2. Append(g, Head(q)) \in Seq(Nat)
  BY <1>1
<1>3. q = <<Head(q)>> \o Tail(q)
  BY HeadTailProperties
<1>4. Append(g, Head(q)) = g \o <<Head(q)>>
  BY <1>1, AppendIsConcat
<1>5. (g \o <<Head(q)>>) \o Tail(q) = g \o (<<Head(q)>> \o Tail(q))
  BY <1>1, ConcatAssociative
<1> QED
  BY <1>1, <1>2, <1>3, <1>4, <1>5

LEMMA OwnPipe ==
    ASSUME RunInv, OrderInv, exit = "none", NEW c \in Client, proc[c] = "running"
    PROVE  /\ InTask /\ c \in launched /\ pc \in {"launch", "io"}
           /\ stdin[c] = Own(c) /\ Own(c) \in DOMAIN pipes
           /\ Own(c)[4] = c /\ Here(Own(c))
<1>1. InTask /\ c \in launched /\ pc \in {"launch", "io"}
  BY DEF RunInv, NothingLeftBehind, InTask
<1>2. stdin[c] = Own(c) /\ Own(c) # NoPipe
  BY <1>1 DEF OrderInv, StdinHeld, Own, NoPipe
<1>3. Own(c) \in DOMAIN pipes
  BY <1>2 DEF OrderInv, InputTypeOK
<1> QED
  BY <1>1, <1>2, <1>3 DEF Own, Here, TaskOfPipe

LEMMA ReadChunkStays ==
    ASSUME RunInv, OrderInv, NEW c \in Client, ReadChunk(c)
    PROVE  /\ Stays /\ InputTypeOK' /\ PipesOpen' /\ UNCHANGED <<feeders, taken, vars>>
           /\ \A p \in DOMAIN pipes : pipes'[p].wclosed = pipes[p].wclosed
                                      /\ pipes'[p].rclosed = pipes[p].rclosed
                                      /\ (pipes[p].queue = <<>> => pipes'[p].queue = <<>>)
<1> USE DEF ReadChunk
<1>1. Own(c) \in DOMAIN pipes /\ UNCHANGED <<vars, tty, taken, stdin, feeders>>
  BY OwnPipe
<1>2. PICK o \in DOMAIN pipes : o = Own(c)
  BY <1>1
<1> DEFINE q == pipes[o].queue
           g == pipes[o].got
           new == [pipes[o] EXCEPT !.got = Append(g, Head(q)), !.queue = Tail(q)]
<1>3. pipes[o] \in Pipe /\ q \in Seq(Nat) /\ g \in Seq(Nat) /\ q # <<>> /\ Len(q) <= Room
  BY <1>2, PipeFacts DEF OrderInv, InputTypeOK
<1>4. /\ Append(g, Head(q)) \o Tail(q) = g \o q
      /\ Append(g, Head(q)) \in Seq(Nat) /\ Tail(q) \in Seq(Nat) /\ Len(Tail(q)) < Len(q)
  BY <1>3, ReadShifts
<1>5. new \in Pipe /\ new.got = Append(g, Head(q)) /\ new.queue = Tail(q)
      /\ new.wclosed = pipes[o].wclosed /\ new.rclosed = pipes[o].rclosed
  <2> HIDE DEF q, g
  <2> QED
    BY <1>3, <1>4 DEF Pipe
<1>6. pipes' = [pipes EXCEPT ![o] = new]
  BY <1>1, <1>2 DEF OrderInv, InputTypeOK
<1> HIDE DEF new
<1>7. /\ DOMAIN pipes' = DOMAIN pipes /\ pipes'[o] = new
      /\ \A p \in DOMAIN pipes : p # o => pipes'[p] = pipes[p]
      /\ pipes' \in [DOMAIN pipes -> Pipe]
  BY <1>5, <1>6 DEF OrderInv, InputTypeOK
<1>8. \A p \in DOMAIN pipes : Delivered(p)' = Delivered(p)
  <2>1. TAKE p \in DOMAIN pipes
  <2>2. CASE p = o
    BY <1>4, <1>5, <1>7, <2>2 DEF Delivered
  <2>3. CASE p # o
    BY <1>7, <2>3 DEF Delivered
  <2> QED
    BY <2>2, <2>3
<1>9. InputTypeOK'
  <2>1. Len(new.queue) <= Room
    BY <1>3, <1>4, <1>5, InputAssumption
  <2>2. \A p \in DOMAIN pipes' : Len(pipes'[p].queue) <= Room
    BY <1>7, <2>1 DEF OrderInv, InputTypeOK
  <2> QED
    BY <1>1, <1>7, <2>2 DEF OrderInv, InputTypeOK
<1>10. UNCHANGED <<tty, stdin, playbook, pc, play, cmd, task, tasks, launched, proc>>
  BY <1>1 DEF vars, runVars
<1>11. \A p \in DOMAIN pipes : pipes'[p].wclosed = pipes[p].wclosed
                                      /\ pipes'[p].rclosed = pipes[p].rclosed
                                      /\ (pipes[p].queue = <<>> => pipes'[p].queue = <<>>)
  BY <1>3, <1>5, <1>7
<1>12. PipesOpen'
  <2>1. \A p : Here(p)' = Here(p)
    BY <1>7, <1>10, StaysPlace
  <2> QED
    BY <1>7, <1>10, <1>11, <2>1 DEF OrderInv, PipesOpen
<1>13. Stays
  BY <1>1, <1>7, <1>8, <1>10 DEF Stays, OrderInv, InputTypeOK
<1> QED
  BY <1>1, <1>9, <1>11, <1>12, <1>13

LEMMA InFinishStays ==
    ASSUME RunInv, OrderInv, NEW c \in Client, InFinish(c)
    PROVE  /\ Stays /\ InputTypeOK' /\ PipesOpen' /\ UNCHANGED <<feeders, taken>>
           /\ Own(c) \in DOMAIN pipes /\ pipes'[Own(c)].rclosed
           /\ \A p \in DOMAIN pipes : /\ pipes'[p].wclosed = pipes[p].wclosed
                                      /\ pipes'[p].queue = pipes[p].queue
                                      /\ p # Own(c) => pipes'[p] = pipes[p]
<1> USE DEF InFinish
<1>1. /\ Own(c) \in DOMAIN pipes /\ Own(c)[4] = c /\ Here(Own(c))
      /\ UNCHANGED <<tty, taken, stdin, feeders>>
  BY OwnPipe DEF Finish
<1>2. UNCHANGED <<playbook, pc, play, cmd, task, tasks, launched>>
      /\ \A d \in Client \ {c} : proc'[d] = proc[d]
  BY DEF Finish, inputs, place, RunInv, RunTypeOK
<1>3. PICK o \in DOMAIN pipes : o = Own(c)
  BY <1>1
<1> DEFINE new == [pipes[o] EXCEPT !.rclosed = TRUE]
<1>4. pipes[o] \in Pipe
  BY DEF OrderInv, InputTypeOK
<1>5. /\ new \in Pipe /\ new.rclosed /\ new.got = pipes[o].got /\ new.queue = pipes[o].queue
      /\ new.wclosed = pipes[o].wclosed
  BY <1>4 DEF Pipe
<1>6. pipes' = [pipes EXCEPT ![o] = new]
  BY <1>3 DEF OrderInv, InputTypeOK
<1> HIDE DEF new
<1>7. /\ DOMAIN pipes' = DOMAIN pipes /\ pipes'[o] = new
      /\ \A p \in DOMAIN pipes : p # o => pipes'[p] = pipes[p]
      /\ pipes' \in [DOMAIN pipes -> Pipe]
  BY <1>5, <1>6 DEF OrderInv, InputTypeOK
<1>8. \A p \in DOMAIN pipes : /\ pipes'[p].wclosed = pipes[p].wclosed
                              /\ pipes'[p].queue = pipes[p].queue
                              /\ pipes'[p].got = pipes[p].got
  BY <1>5, <1>7
<1>9. \A p \in DOMAIN pipes : Delivered(p)' = Delivered(p)
  BY <1>8 DEF Delivered
<1>10. InputTypeOK'
  BY <1>1, <1>7, <1>8 DEF OrderInv, InputTypeOK
<1>11. PipesOpen'
  <2> SUFFICES ASSUME NEW p \in DOMAIN pipes, ~pipes'[p].rclosed
               PROVE  Here(p)' /\ proc'[p[4]] = "running"
    BY <1>7 DEF PipesOpen
  <2>1. p # o /\ ~pipes[p].rclosed
    BY <1>5, <1>7
  <2>2. Here(p) /\ proc[p[4]] = "running" /\ p[4] \in Client
    BY <2>1, PipeFacts DEF OrderInv, PipesOpen
  <2>3. p[4] # c
    <3>1. p = <<p[1], p[2], p[3], p[4]>>
      BY PipeFacts DEF OrderInv
    <3>2. <<p[1], p[2], p[3]>> = <<play, cmd, task>>
      BY <2>2 DEF Here, TaskOfPipe
    <3> QED
      BY <1>3, <2>1, <3>1, <3>2 DEF Own
  <2>4. Here(p)' = Here(p)
    BY <1>1, <1>2, <1>7, StaysPlace
  <2> QED
    BY <1>2, <2>2, <2>3, <2>4
<1>12. Stays
  BY <1>1, <1>2, <1>7, <1>9 DEF Stays, OrderInv, InputTypeOK
<1> QED
  BY <1>1, <1>3, <1>5, <1>7, <1>8, <1>10, <1>11, <1>12

----------------------------------------------------------------------------
(* the copying goroutine *)

LEMMA FeederFacts ==
    ASSUME OrderInv, NEW f \in feeders
    PROVE  /\ f \in Feeder /\ FeederOK(f)
           /\ Len(f.writers) \in Nat /\ f.at \in 1 .. Len(f.writers) /\ f.at \in Nat /\ f.chunk \in Nat
           /\ f.clients \in Seq(Client) /\ f.clients[f.at] \in Client
           /\ Target(f) # NoPipe => Target(f) \in DOMAIN pipes
<1>1. f \in Feeder /\ FeederOK(f)
  BY DEF OrderInv, InputTypeOK, FeedersKnown
<1>2. Len(f.writers) \in Nat /\ f.clients \in Seq(Client) /\ f.chunk \in Nat
  BY <1>1 DEF Feeder
<1>3. f.at \in 1 .. Len(f.writers) /\ Len(f.clients) = Len(f.writers)
  BY <1>1 DEF FeederOK
<1> QED
  BY <1>1, <1>2, <1>3 DEF Target, FeederOK

\* A goroutine that has gone on, g, was made for the task f was made for.
Successor(f, g) ==
    /\ g \in Feeder /\ g.writers = f.writers /\ g.clients = f.clients /\ g.made = f.made
    /\ g.at \in 1 .. Len(f.writers)

LEMMA SuccessorSame ==
    ASSUME OrderInv, NEW f \in feeders, NEW g, Successor(f, g)
    PROVE  /\ FeederOK(g)
           /\ Feeds(g) = Feeds(f) /\ Writes(g) = Writes(f)
BY FeederFacts DEF Successor, FeederOK, Feeds, Writes

\* What a writing goroutine is about to deliver is new.
NewTo(g) ==
    /\ g.chunk \in 1 .. taken
    /\ \A p \in DOMAIN pipes : ~Here(p) => Below(p, g.chunk)
    /\ \A k \in g.at .. Len(g.writers) : g.writers[k] # NoPipe => Below(g.writers[k], g.chunk)

LEMMA GoesOnOrder ==
    ASSUME RunInv, OrderInv, Stays, InputTypeOK', PipesOpen', NEW f \in feeders, NEW g,
           Successor(f, g), feeders' \subseteq (feeders \ {f}) \cup {g},
           g.state = "write" /\ Writes(g) => NewTo(g)',
           FirstHere => InStep(g)'
    PROVE  OrderInv'
<1>1. /\ UNCHANGED <<tty, stdin, playbook, pc, play, cmd, task, tasks, launched>>
      /\ DOMAIN pipes' = DOMAIN pipes
      /\ \A p \in DOMAIN pipes : Delivered(p)' = Delivered(p)
      /\ taken' \in taken .. Chunks
  BY DEF Stays
<1>2. /\ InTask' = InTask /\ Takes' = Takes
      /\ \A p : Here(p)' = Here(p)
      /\ \A h : Feeds(h)' = Feeds(h) /\ Writes(h)' = Writes(h) /\ FeederOK(h)' = FeederOK(h)
      /\ Fed' = Fed /\ FirstHere' = FirstHere
  BY <1>1, StaysPlace
<1>3. FeederOK(g) /\ Feeds(g) = Feeds(f) /\ Writes(g) = Writes(f)
  BY SuccessorSame
<1>4. FeedersKnown'
  <2>1. ASSUME NEW h \in feeders' PROVE FeederOK(h)' /\ (Writes(h) => Feeds(h))'
    BY <1>2, <1>3 DEF OrderInv, FeedersKnown
  <2>2. ASSUME NEW h \in feeders', NEW e \in feeders', Writes(h)', Writes(e)' PROVE h = e
    BY <1>2, <1>3, <2>2 DEF OrderInv, FeedersKnown
  <2> QED
    BY <2>1, <2>2 DEF FeedersKnown
<1>5. ChunkNew'
  <2> SUFFICES ASSUME NEW h \in feeders', h.state = "write", Writes(h) PROVE NewTo(h)'
    BY <1>2 DEF ChunkNew, NewTo
  <2>1. CASE h = g
    BY <2>1
  <2>2. CASE h \in feeders
    <3>1. /\ h.chunk \in 1 .. taken
          /\ \A p \in DOMAIN pipes : ~Here(p) => Below(p, h.chunk)
          /\ \A k \in h.at .. Len(h.writers) : h.writers[k] # NoPipe =>
                 Below(h.writers[k], h.chunk)
      BY <2>2 DEF OrderInv, ChunkNew
    <3>2. h.chunk \in 1 .. taken'
      <4>1. taken \in Nat /\ Chunks \in Nat
        BY InputAssumption DEF OrderInv, InputTypeOK
      <4> QED
        BY <1>1, <3>1, <4>1
    <3>3. \A p \in DOMAIN pipes : Below(p, h.chunk)' = Below(p, h.chunk)
      BY <1>1 DEF Below
    <3>4. \A k \in h.at .. Len(h.writers) : h.writers[k] # NoPipe => h.writers[k] \in DOMAIN pipes
      <4>1. FeederOK(h) /\ Len(h.writers) \in Nat /\ h.at \in 1 .. Len(h.writers)
        BY <2>2, FeederFacts
      <4> QED
        BY <4>1 DEF FeederOK
    <3> QED
      BY <1>1, <1>2, <3>1, <3>2, <3>3, <3>4 DEF NewTo
  <2> QED
    BY <2>1, <2>2
<1>6. FirstTask'
  <2> SUFFICES ASSUME FirstHere
               PROVE  /\ InTask /\ pc # "launch" /\ Takes
                      /\ \A h \in feeders' : h = g /\ Feeds(g) /\ InStep(g)'
    BY <1>1, <1>2 DEF FirstTask
  <2>1. InTask /\ pc # "launch" /\ Takes /\ Feeds(f) /\ \A h \in feeders : h = f
    BY DEF OrderInv, FirstTask, Untouched
  <2> QED
    BY <1>3, <2>1
<1> QED
  BY <1>4, <1>5, <1>6, StaysFacts DEF OrderInv

LEMMA ReadInputOrder ==
    ASSUME RunInv, OrderInv, NEW f \in feeders, ReadInput(f)
    PROVE  OrderInv'
<1> USE DEF ReadInput, Becomes
<1>1. f \in Feeder /\ FeederOK(f) /\ Len(f.writers) \in Nat /\ f.at \in 1 .. Len(f.writers)
  BY FeederFacts
<1>2. taken \in Nat /\ taken' = taken + 1 /\ taken' <= Chunks /\ Chunks \in Nat
  BY InputAssumption DEF OrderInv, InputTypeOK
<1>3. PICK g : g = [f EXCEPT !.chunk = taken + 1, !.at = 1, !.state = "write"]
  OBVIOUS
<1>4. /\ g \in Feeder /\ g.writers = f.writers /\ g.clients = f.clients /\ g.made = f.made
      /\ g.chunk = taken' /\ g.at = 1 /\ g.state = "write"
  <2>1. taken + 1 \in Nat /\ 1 \in Nat /\ "write" \in {"read", "write", "close"}
    BY <1>2
  <2> HIDE DEF ReadInput
  <2> QED
    BY <1>1, <1>2, <1>3, <2>1 DEF Feeder
<1>5. feeders' = (feeders \ {f}) \cup {g}
  BY <1>3
<1>6. Successor(f, g)
  BY <1>1, <1>4 DEF Successor
<1>7. UNCHANGED <<tty, stdin, pipes, playbook, pc, play, cmd, task, tasks, launched, proc>>
  BY DEF vars, runVars
<1>8. \A p \in DOMAIN pipes : Delivered(p)' = Delivered(p)
  BY <1>7 DEF Delivered
<1>9. Stays
  BY <1>2, <1>7, <1>8 DEF Stays
<1>10. InputTypeOK'
  BY <1>2, <1>4, <1>5, <1>7 DEF OrderInv, InputTypeOK
<1>11. \A p : Here(p)' = Here(p)
  BY <1>7, StaysPlace
<1>12. PipesOpen'
  BY <1>7, <1>11 DEF OrderInv, PipesOpen
<1>13. \A p \in DOMAIN pipes : Below(p, g.chunk)'
  <2>1. TAKE p \in DOMAIN pipes
  <2>2. \A i \in 1 .. Len(Delivered(p)) : Delivered(p)[i] \in 1 .. taken
    BY <2>1 DEF OrderInv, DeliveredRises, Rising
  <2> QED
    BY <1>2, <1>4, <1>8, <2>2 DEF Below
<1>14. NewTo(g)'
  <2>1. g.chunk \in 1 .. taken'
    BY <1>2, <1>4
  <2>2. \A k \in 1 .. Len(g.writers) : g.writers[k] # NoPipe => g.writers[k] \in DOMAIN pipes
    BY <1>1, <1>4 DEF FeederOK
  <2> QED
    BY <1>4, <1>7, <1>13, <2>1, <2>2 DEF NewTo
<1>15. FirstHere => InStep(g)'
  <2> SUFFICES ASSUME FirstHere,
                      NEW k \in 1 .. Len(f.writers), f.writers[k] \in Fed
               PROVE  Len(Delivered(f.writers[k])') = IF k < 1 THEN taken + 1 ELSE taken
    <3>1. Fed' = Fed
      BY <1>7, PipesSame
    <3> QED
      BY <1>2, <1>4, <3>1 DEF InStep
  <2>1. Len(Delivered(f.writers[k])) = taken
    BY DEF OrderInv, FirstTask, InStep
  <2>2. f.writers[k] \in DOMAIN pipes
    BY DEF Fed
  <2> QED
    BY <1>1, <1>8, <2>1, <2>2
<1> QED
  BY <1>5, <1>6, <1>9, <1>10, <1>12, <1>14, <1>15, GoesOnOrder


LEMMA CopyEndsOrder ==
    ASSUME RunInv, OrderInv, NEW f \in feeders, InputEnds(f) \/ WriteFails(f)
    PROVE  OrderInv'
<1> USE DEF InputEnds, WriteFails, Becomes
<1>1. f \in Feeder /\ FeederOK(f) /\ Len(f.writers) \in Nat /\ f.at \in 1 .. Len(f.writers)
  BY FeederFacts
<1>2. PICK g : g = [f EXCEPT !.at = 1, !.state = "close"]
  OBVIOUS
<1>3. /\ g \in Feeder /\ g.writers = f.writers /\ g.clients = f.clients /\ g.made = f.made
      /\ g.at = 1 /\ g.state = "close"
  BY <1>1, <1>2 DEF Feeder
<1>4. feeders' = (feeders \ {f}) \cup {g}
  BY <1>2
<1>5. Successor(f, g)
  BY <1>1, <1>3 DEF Successor
<1>6. UNCHANGED <<tty, taken, stdin, pipes, playbook, pc, play, cmd, task, tasks, launched, proc>>
  BY DEF vars, runVars
<1>7. Stays
  BY <1>6 DEF Stays, Delivered, OrderInv, InputTypeOK
<1>8. InputTypeOK'
  BY <1>3, <1>4, <1>6 DEF OrderInv, InputTypeOK
<1>9. \A p : Here(p)' = Here(p)
  BY <1>6, StaysPlace
<1>10. PipesOpen'
  BY <1>6, <1>9 DEF OrderInv, PipesOpen
<1>11. InStep(g)'
  BY <1>3 DEF InStep
<1> QED
  BY <1>3, <1>4, <1>5, <1>7, <1>8, <1>10, <1>11, GoesOnOrder

LEMMA CloseGoesOn ==
    ASSUME RunInv, OrderInv, NEW f \in feeders, WriteClose(f)
    PROVE  /\ UNCHANGED <<vars, tty, taken, stdin>>
           /\ \E g : /\ Successor(f, g) /\ g.state = "close"
                     /\ feeders' \subseteq (feeders \ {f}) \cup {g}
<1> USE DEF WriteClose, Becomes
<1>1. /\ f \in Feeder /\ FeederOK(f) /\ Len(f.writers) \in Nat /\ f.at \in 1 .. Len(f.writers)
      /\ f.at \in Nat /\ Len(f.clients) = Len(f.writers)
  BY FeederFacts DEF FeederOK
<1>2. CASE f.at < Len(f.clients)
  <2>1. PICK g : g = [f EXCEPT !.at = @ + 1]
    OBVIOUS
  <2>2. /\ g \in Feeder /\ g.writers = f.writers /\ g.clients = f.clients /\ g.made = f.made
        /\ g.at = f.at + 1 /\ g.state = f.state
    <3> HIDE DEF WriteClose
    <3>1. f.at + 1 \in Nat
      BY <1>1
    <3> QED
      BY <1>1, <2>1, <3>1 DEF Feeder
  <2>3. Successor(f, g)
    BY <1>1, <1>2, <2>2 DEF Successor
  <2> QED
    BY <1>2, <2>1, <2>2, <2>3
<1>3. CASE ~(f.at < Len(f.clients))
  <2>1. Successor(f, f)
    BY <1>1 DEF Successor
  <2> QED
    BY <1>3, <2>1
<1> QED
  BY <1>2, <1>3

\* What closing the end of a client's pipe does to the pipes.
LEMMA WriteCloseFacts ==
    ASSUME RunInv, OrderInv, NEW f \in feeders, WriteClose(f)
    PROVE  /\ DOMAIN pipes' = DOMAIN pipes /\ pipes' \in [DOMAIN pipes -> Pipe]
           /\ \A p \in DOMAIN pipes :
                /\ pipes'[p].queue = pipes[p].queue /\ pipes'[p].got = pipes[p].got
                /\ pipes'[p].rclosed = pipes[p].rclosed
                /\ pipes[p].wclosed => pipes'[p].wclosed
                /\ pipes'[p] # pipes[p] =>
                       \E k \in 1 .. Len(f.clients) :
                           p = stdin[f.clients[k]] /\ f.clients[k] \in Client
           /\ UNCHANGED <<vars, tty, taken, stdin>>
           /\ \E g : /\ Successor(f, g) /\ g.state = "close"
                     /\ feeders' \subseteq (feeders \ {f}) \cup {g}
<1> USE DEF WriteClose, Becomes
<1>1. /\ f \in Feeder /\ FeederOK(f) /\ Len(f.writers) \in Nat /\ f.at \in 1 .. Len(f.writers)
      /\ f.at \in Nat /\ f.clients[f.at] \in Client /\ Len(f.clients) = Len(f.writers)
  BY FeederFacts DEF FeederOK
<1>2. PICK c \in Client : c = f.clients[f.at]
  BY <1>1
<1>3. CASE UNCHANGED pipes
  <2>1. DOMAIN pipes' = DOMAIN pipes /\ pipes' \in [DOMAIN pipes -> Pipe]
    BY <1>3 DEF OrderInv, InputTypeOK
  <2> QED
    BY <1>3, <2>1, CloseGoesOn
<1>4. CASE stdin[c] # NoPipe /\ pipes' = [pipes EXCEPT ![stdin[c]].wclosed = TRUE]
  <2>1. PICK o \in DOMAIN pipes : o = stdin[c]
    BY <1>4 DEF OrderInv, InputTypeOK
  <2>2. PICK new : new = [pipes[o] EXCEPT !.wclosed = TRUE]
    OBVIOUS
  <2>3. pipes[o] \in Pipe
    BY DEF OrderInv, InputTypeOK
  <2>4. /\ new \in Pipe /\ new.wclosed /\ new.got = pipes[o].got /\ new.queue = pipes[o].queue
        /\ new.rclosed = pipes[o].rclosed
    BY <2>2, <2>3 DEF Pipe
  <2>5. pipes' = [pipes EXCEPT ![o] = new]
    BY <1>4, <2>1, <2>2 DEF OrderInv, InputTypeOK
  <2>6. /\ DOMAIN pipes' = DOMAIN pipes /\ pipes'[o] = new
        /\ \A p \in DOMAIN pipes : p # o => pipes'[p] = pipes[p]
        /\ pipes' \in [DOMAIN pipes -> Pipe]
    BY <2>4, <2>5 DEF OrderInv, InputTypeOK
  <2>7. \A p \in DOMAIN pipes : pipes'[p] # pipes[p] =>
                       \E k \in 1 .. Len(f.clients) :
                           p = stdin[f.clients[k]] /\ f.clients[k] \in Client
    BY <1>1, <1>2, <2>1, <2>6
  <2>8. \A p \in DOMAIN pipes :
                /\ pipes'[p].queue = pipes[p].queue /\ pipes'[p].got = pipes[p].got
                /\ pipes'[p].rclosed = pipes[p].rclosed
                /\ pipes[p].wclosed => pipes'[p].wclosed
    BY <2>4, <2>6
  <2> QED
    BY <2>6, <2>7, <2>8, CloseGoesOn
<1> QED
  BY <1>2, <1>3, <1>4

LEMMA WriteCloseOrder ==
    ASSUME RunInv, OrderInv, NEW f \in feeders, WriteClose(f)
    PROVE  OrderInv'
<1>1. /\ DOMAIN pipes' = DOMAIN pipes /\ pipes' \in [DOMAIN pipes -> Pipe]
      /\ \A p \in DOMAIN pipes :
           /\ pipes'[p].queue = pipes[p].queue /\ pipes'[p].got = pipes[p].got
           /\ pipes'[p].rclosed = pipes[p].rclosed
      /\ UNCHANGED <<vars, tty, taken, stdin>>
  BY WriteCloseFacts
<1>2. PICK g : /\ Successor(f, g) /\ g.state = "close"
               /\ feeders' \subseteq (feeders \ {f}) \cup {g}
  BY WriteCloseFacts
<1>3. UNCHANGED <<playbook, pc, play, cmd, task, tasks, launched, proc>>
  BY <1>1 DEF vars, runVars
<1>4. Stays
  <2>1. \A p \in DOMAIN pipes : Delivered(p)' = Delivered(p)
    BY <1>1 DEF Delivered
  <2>2. taken' \in taken .. Chunks
    BY <1>1 DEF OrderInv, InputTypeOK
  <2> QED
    BY <1>1, <1>3, <2>1, <2>2 DEF Stays
<1>5. InputTypeOK'
  <2>1. feeders' \subseteq Feeder
    BY <1>2 DEF Successor, OrderInv, InputTypeOK
  <2> QED
    BY <1>1, <2>1 DEF OrderInv, InputTypeOK
<1>6. \A p : Here(p)' = Here(p)
  BY <1>1, <1>3, StaysPlace
<1>7. PipesOpen'
  BY <1>1, <1>3, <1>6 DEF OrderInv, PipesOpen
<1>8. InStep(g)'
  BY <1>2 DEF InStep
<1> QED
  BY <1>2, <1>4, <1>5, <1>7, <1>8, GoesOnOrder


\* The pipes of the current task are those its goroutine writes to, each once.
LEMMA WritersHere ==
    ASSUME RunInv, OrderInv, NEW f \in feeders, Feeds(f)
    PROVE  /\ \A p \in DOMAIN pipes : Here(p) => \E k \in 1 .. Len(f.writers) : f.writers[k] = p
           /\ \A i, k \in 1 .. Len(f.writers) :
                  f.writers[i] # NoPipe /\ f.writers[i] = f.writers[k] => i = k
<1>1. InTask /\ f.clients = CS /\ f.writers = [k \in 1 .. Len(CS) |-> stdin[CS[k]]]
  BY DEF Feeds, InTask
<1>2. CS \in Seq(Client) /\ Len(CS) \in Nat /\ Once(CS)
  BY <1>1, TaskFacts DEF RunInv, PlaceOK
<1>3. Len(f.writers) = Len(CS) /\ \A k \in 1 .. Len(CS) : f.writers[k] = stdin[CS[k]]
  BY <1>1, <1>2
<1>4. ASSUME NEW p \in DOMAIN pipes, Here(p)
      PROVE  \E k \in 1 .. Len(f.writers) : f.writers[k] = p
  <2>1. p[4] \in launched /\ p[4] \in Members
    BY <1>1, <1>4, PastNotHere DEF OrderInv, PipesPlaced, RunInv, ClientsOK
  <2>2. PICK k \in 1 .. Len(CS) : CS[k] = p[4]
    BY <2>1 DEF Members
  <2>3. stdin[p[4]] = Own(p[4])
    BY <1>1, <2>1 DEF OrderInv, StdinHeld
  <2>4. p = Own(p[4])
    <3>1. p = <<p[1], p[2], p[3], p[4]>>
      BY PipeFacts DEF OrderInv
    <3>2. <<p[1], p[2], p[3]>> = <<play, cmd, task>>
      BY <1>4 DEF Here, TaskOfPipe
    <3> QED
      BY <3>1, <3>2 DEF Own
  <2> QED
    BY <1>3, <2>2, <2>3, <2>4
<1>5. ASSUME NEW i \in 1 .. Len(f.writers), NEW k \in 1 .. Len(f.writers),
             f.writers[i] # NoPipe, f.writers[i] = f.writers[k]
      PROVE  i = k
  <2>1. CS[i] \in Client /\ CS[k] \in Client
    BY <1>2, <1>3
  <2>2. CS[i] = CS[k]
    BY <1>3, <1>5, <2>1 DEF OrderInv, StdinHeld
  <2> QED
    BY <1>2, <1>3, <2>2 DEF Once
<1> QED
  BY <1>4, <1>5

\* Nothing comes after a pipe of the current task.
LEMMA HereIsLast ==
    ASSUME RunInv, OrderInv, NEW t \in DOMAIN pipes, Here(t), NEW q \in DOMAIN pipes
    PROVE  /\ ~Precedes(t, q)
           /\ Here(q) => ~Precedes(q, t)
           /\ ~Here(q) => Precedes(q, t)
           /\ Here(q) <=> TaskOfPipe(q) = TaskOfPipe(t)
<1>1. /\ q[1] \in Nat /\ q[2] \in Nat /\ q[3] \in Nat /\ t[1] \in Nat /\ t[2] \in Nat /\ t[3] \in Nat
      /\ play \in Nat /\ cmd \in Nat /\ task \in Nat
  BY PipeFacts, Numbers DEF OrderInv
<1>2. t[1] = play /\ t[2] = cmd /\ t[3] = task
  BY DEF Here, TaskOfPipe
<1>3. Past(q) \/ Here(q)
  BY DEF OrderInv, PipesPlaced
<1>4. Here(q) <=> (q[1] = play /\ q[2] = cmd /\ q[3] = task)
  BY DEF Here, TaskOfPipe
<1>5. TaskOfPipe(q) = TaskOfPipe(t) <=> (q[1] = t[1] /\ q[2] = t[2] /\ q[3] = t[3])
  BY DEF TaskOfPipe
<1> QED
  BY <1>1, <1>2, <1>3, <1>4, <1>5 DEF Past, Precedes

\* The first task with input is the current one, if it has a pipe of that task.
LEMMA FirstIsHere ==
    ASSUME RunInv, OrderInv, NEW p \in Fed, FirstFed(p), Here(p)
    PROVE  FirstHere
BY HereIsLast DEF FirstHere, FirstFed, Fed

LEMMA CountsOn ==
    ASSUME NEW m \in Nat, NEW s, s = [k \in 1 .. m |-> k]
    PROVE  Append(s, m + 1) = [k \in 1 .. m + 1 |-> k]
<1>1. s \in Seq(Nat) /\ Len(s) = m
  OBVIOUS
<1>2. /\ Append(s, m + 1) \in Seq(Nat) /\ Len(Append(s, m + 1)) = m + 1
      /\ \A i \in 1 .. m : Append(s, m + 1)[i] = i
      /\ Append(s, m + 1)[m + 1] = m + 1
  BY <1>1, AppendProperties
<1> DEFINE u == [k \in 1 .. m + 1 |-> k]
<1>3. u \in Seq(Nat) /\ Len(u) = m + 1 /\ \A i \in 1 .. m + 1 : u[i] = i
  OBVIOUS
<1>4. \A i \in 1 .. m + 1 : Append(s, m + 1)[i] = u[i]
  BY <1>2, <1>3
<1> QED
  BY <1>2, <1>3, <1>4, SeqEqual

LEMMA AppendsLast ==
    ASSUME NEW g \in Seq(Nat), NEW q \in Seq(Nat), NEW k \in Nat
    PROVE  g \o Append(q, k) = Append(g \o q, k)
<1>1. <<k>> \in Seq(Nat) /\ g \o q \in Seq(Nat)
  BY ConcatProperties
<1>2. Append(q, k) = q \o <<k>> /\ Append(g \o q, k) = (g \o q) \o <<k>>
  BY <1>1, AppendIsConcat
<1>3. (g \o q) \o <<k>> = g \o (q \o <<k>>)
  BY <1>1, ConcatAssociative
<1> QED
  BY <1>2, <1>3

\* A piece is written to a pipe of the current task, by its goroutine.
LEMMA WriteChunkFacts ==
    ASSUME RunInv, OrderInv, NEW f \in feeders, WriteChunk(f)
    PROVE  \E t \in DOMAIN pipes : \E g :
             /\ t = Target(f) /\ Here(t) /\ Writes(f) /\ Feeds(f) /\ f.state = "write" /\ NewTo(f)
             /\ UNCHANGED <<vars, tty, taken, stdin>>
             /\ DOMAIN pipes' = DOMAIN pipes /\ pipes' \in [DOMAIN pipes -> Pipe]
             /\ Len(pipes'[t].queue) <= Room
             /\ \A p \in DOMAIN pipes : /\ p # t => pipes'[p] = pipes[p]
                                        /\ pipes'[p].wclosed = pipes[p].wclosed
                                        /\ pipes'[p].rclosed = pipes[p].rclosed
             /\ ~pipes[t].rclosed
             /\ Delivered(t)' = Append(Delivered(t), f.chunk)
             /\ Successor(f, g) /\ feeders' = (feeders \ {f}) \cup {g} /\ g.chunk = f.chunk
             /\ IF f.at < Len(f.writers) THEN g.at = f.at + 1 /\ g.state = "write"
                                         ELSE g.state = "read"
<1> USE DEF WriteChunk, Becomes
<1>1. /\ f \in Feeder /\ FeederOK(f) /\ Len(f.writers) \in Nat /\ f.at \in 1 .. Len(f.writers)
      /\ f.at \in Nat /\ f.chunk \in Nat
      /\ Target(f) # NoPipe => Target(f) \in DOMAIN pipes
  BY FeederFacts
<1>2. PICK t \in DOMAIN pipes : t = Target(f)
  BY <1>1
<1>3. ~pipes[t].rclosed /\ Here(t) /\ t # NoPipe
  BY <1>2 DEF Open, OrderInv, PipesOpen
<1>4. Writes(f) /\ Feeds(f) /\ f.state = "write"
  <2>1. Writes(f)
    BY <1>1, <1>2, <1>3 DEF Writes, Target
  <2> QED
    BY <2>1 DEF OrderInv, FeedersKnown
<1>5. NewTo(f)
  BY <1>4 DEF OrderInv, ChunkNew, NewTo
<1>6. UNCHANGED <<vars, tty, taken, stdin>>
  OBVIOUS
<1>7. PICK new : new = [pipes[t] EXCEPT !.queue = Append(@, f.chunk)]
  OBVIOUS
<1>8. pipes[t] \in Pipe /\ pipes[t].queue \in Seq(Nat) /\ pipes[t].got \in Seq(Nat)
  BY PipeFacts DEF OrderInv, InputTypeOK
<1>9. Append(pipes[t].queue, f.chunk) \in Seq(Nat)
      /\ Len(Append(pipes[t].queue, f.chunk)) = Len(pipes[t].queue) + 1
      /\ Len(pipes[t].queue) \in Nat
  BY <1>1, <1>8
<1>10. /\ new \in Pipe /\ new.queue = Append(pipes[t].queue, f.chunk) /\ new.got = pipes[t].got
       /\ new.wclosed = pipes[t].wclosed /\ new.rclosed = pipes[t].rclosed
  <2> HIDE DEF WriteChunk
  <2> QED
    BY <1>7, <1>8, <1>9 DEF Pipe
<1>11. pipes' = [pipes EXCEPT ![t] = new]
  BY <1>2, <1>7 DEF OrderInv, InputTypeOK
<1>12. /\ DOMAIN pipes' = DOMAIN pipes /\ pipes'[t] = new
       /\ \A p \in DOMAIN pipes : p # t => pipes'[p] = pipes[p]
       /\ pipes' \in [DOMAIN pipes -> Pipe]
  BY <1>10, <1>11 DEF OrderInv, InputTypeOK
<1>13. Len(pipes'[t].queue) <= Room
  <2>1. Len(pipes[t].queue) < Room
    BY <1>2
  <2> QED
    BY <1>9, <1>10, <1>12, <2>1, InputAssumption
<1>14. \A p \in DOMAIN pipes : /\ p # t => pipes'[p] = pipes[p]
                               /\ pipes'[p].wclosed = pipes[p].wclosed
                               /\ pipes'[p].rclosed = pipes[p].rclosed
  BY <1>10, <1>12
<1>15. Delivered(t)' = Append(Delivered(t), f.chunk)
  <2> HIDE DEF WriteChunk
  <2>1. pipes[t].got \o Append(pipes[t].queue, f.chunk)
            = Append(pipes[t].got \o pipes[t].queue, f.chunk)
    BY <1>1, <1>8, AppendsLast
  <2>2. Delivered(t)' = pipes[t].got \o Append(pipes[t].queue, f.chunk)
    BY <1>10, <1>12 DEF Delivered
  <2> QED
    BY <2>1, <2>2 DEF Delivered
<1>16. \E g : /\ Successor(f, g) /\ feeders' = (feeders \ {f}) \cup {g} /\ g.chunk = f.chunk
              /\ IF f.at < Len(f.writers) THEN g.at = f.at + 1 /\ g.state = "write"
                                          ELSE g.state = "read"
  <2>1. CASE f.at < Len(f.writers)
    <3>1. PICK g : g = [f EXCEPT !.at = @ + 1]
      OBVIOUS
    <3>2. f.at + 1 \in Nat
      BY <1>1
    <3>3. /\ g \in Feeder /\ g.writers = f.writers /\ g.clients = f.clients /\ g.made = f.made
          /\ g.at = f.at + 1 /\ g.state = f.state /\ g.chunk = f.chunk
      <4> HIDE DEF WriteChunk
      <4> QED
        BY <1>1, <3>1, <3>2 DEF Feeder
    <3>4. Successor(f, g)
      BY <1>1, <2>1, <3>3 DEF Successor
    <3> QED
      BY <1>4, <2>1, <3>1, <3>3, <3>4
  <2>2. CASE ~(f.at < Len(f.writers))
    <3>1. PICK g : g = [f EXCEPT !.state = "read"]
      OBVIOUS
    <3>2. /\ g \in Feeder /\ g.writers = f.writers /\ g.clients = f.clients /\ g.made = f.made
          /\ g.at = f.at /\ g.state = "read" /\ g.chunk = f.chunk
      <4> HIDE DEF WriteChunk
      <4> QED
        BY <1>1, <3>1 DEF Feeder
    <3>3. Successor(f, g)
      BY <1>1, <3>2 DEF Successor
    <3> QED
      BY <2>2, <3>1, <3>2, <3>3
  <2> QED
    BY <2>1, <2>2
<1> QED
  BY <1>2, <1>3, <1>4, <1>5, <1>6, <1>12, <1>13, <1>14, <1>15, <1>16


LEMMA WriteChunkOrder ==
    ASSUME RunInv, OrderInv, NEW f \in feeders, WriteChunk(f)
    PROVE  OrderInv'
<1>1. PICK t, g :
         /\ t \in DOMAIN pipes
         /\ t = Target(f) /\ Here(t) /\ Writes(f) /\ Feeds(f) /\ f.state = "write" /\ NewTo(f)
         /\ UNCHANGED <<vars, tty, taken, stdin>>
         /\ DOMAIN pipes' = DOMAIN pipes /\ pipes' \in [DOMAIN pipes -> Pipe]
         /\ Len(pipes'[t].queue) <= Room
         /\ \A p \in DOMAIN pipes : /\ p # t => pipes'[p] = pipes[p]
                                    /\ pipes'[p].wclosed = pipes[p].wclosed
                                    /\ pipes'[p].rclosed = pipes[p].rclosed
         /\ Delivered(t)' = Append(Delivered(t), f.chunk)
         /\ Successor(f, g) /\ feeders' = (feeders \ {f}) \cup {g} /\ g.chunk = f.chunk
         /\ IF f.at < Len(f.writers) THEN g.at = f.at + 1 /\ g.state = "write"
                                     ELSE g.state = "read"
  BY WriteChunkFacts
<1> t \in DOMAIN pipes
  BY <1>1
<1>2. UNCHANGED <<playbook, pc, play, cmd, task, tasks, launched, proc>>
  BY <1>1 DEF vars, runVars
<1>3. /\ InTask' = InTask /\ CS' = CS /\ Takes' = Takes
      /\ \A c : Own(c)' = Own(c)
      /\ \A p : Here(p)' = Here(p) /\ Past(p)' = Past(p) /\ TakesInput(p)' = TakesInput(p)
      /\ \A h : Feeds(h)' = Feeds(h) /\ Writes(h)' = Writes(h) /\ FeederOK(h)' = FeederOK(h)
      /\ Fed' = Fed /\ FirstHere' = FirstHere
      /\ \A p : FirstFed(p)' = FirstFed(p)
  BY <1>1, <1>2, StaysPlace
<1>4. /\ f \in Feeder /\ FeederOK(f) /\ Len(f.writers) \in Nat /\ f.at \in 1 .. Len(f.writers)
      /\ f.at \in Nat /\ f.chunk \in Nat
  BY FeederFacts
<1>5. FeederOK(g) /\ Feeds(g) = Feeds(f) /\ Writes(g) = Writes(f)
  BY <1>1, SuccessorSame
<1>6. \A k \in 1 .. Len(f.writers) : f.writers[k] = t => k = f.at
  <2>1. f.writers[f.at] = t /\ t # NoPipe
    BY <1>1, PipeFacts DEF Target, OrderInv, NoPipe
  <2> QED
    BY <1>1, <1>4, <2>1, WritersHere
<1>7. \A p \in DOMAIN pipes : p # t => Delivered(p)' = Delivered(p)
  BY <1>1 DEF Delivered
<1>8. Delivered(t) \in Seq(Nat) /\ Len(Delivered(t)) \in Nat
  BY DeliveredSeq DEF OrderInv
<1>9. /\ Len(Delivered(t)') = Len(Delivered(t)) + 1
      /\ Delivered(t)'[Len(Delivered(t)) + 1] = f.chunk
      /\ \A i \in 1 .. Len(Delivered(t)) : Delivered(t)'[i] = Delivered(t)[i]
  BY <1>1, <1>4, <1>8, AppendProperties
<1>10. InputTypeOK'
  BY <1>1, <1>5 DEF OrderInv, InputTypeOK, Successor
<1>11. PipesPlaced' /\ PipesOpen' /\ StdinHeld'
  <2>1. PipesPlaced' /\ StdinHeld'
    BY <1>1, <1>2, <1>3 DEF OrderInv, PipesPlaced, StdinHeld
  <2>2. PipesOpen'
    BY <1>1, <1>2, <1>3 DEF OrderInv, PipesOpen
  <2> QED
    BY <2>1, <2>2
<1>12. FeedersKnown'
  <2>1. ASSUME NEW h \in feeders' PROVE FeederOK(h)' /\ (Writes(h) => Feeds(h))'
    BY <1>1, <1>3, <1>5 DEF OrderInv, FeedersKnown
  <2>2. ASSUME NEW h \in feeders', NEW e \in feeders', Writes(h)', Writes(e)' PROVE h = e
    BY <1>1, <1>3, <1>5, <2>2 DEF OrderInv, FeedersKnown
  <2> QED
    BY <2>1, <2>2 DEF FeedersKnown
<1>13. Below(t, f.chunk)
  <2>1. f.at \in f.at .. Len(f.writers) /\ f.writers[f.at] = t /\ t # NoPipe
    BY <1>1, <1>4, PipeFacts DEF Target, OrderInv, NoPipe
  <2> QED
    BY <1>1, <2>1 DEF NewTo
<1>14. DeliveredRises'
  <2>1. ASSUME NEW p \in DOMAIN pipes PROVE Rising(p)'
    <3>1. CASE p # t
      BY <1>1, <1>2, <1>3, <1>7, <3>1 DEF OrderInv, DeliveredRises, Rising
    <3>2. CASE p = t
      <4>1. Rising(t)
        BY DEF OrderInv, DeliveredRises
      <4>2. TakesInput(t) /\ pc # "launch"
        BY <1>1 DEF Feeds, Here, TaskOfPipe, TakesInput, Takes, Cmd, Cmds
      <4>3. \A i \in 1 .. Len(Delivered(t)') : Delivered(t)'[i] \in 1 .. taken'
        BY <1>1, <1>8, <1>9, <4>1 DEF Rising, NewTo
      <4>4. \A i, j \in 1 .. Len(Delivered(t)') : i < j => Delivered(t)'[i] < Delivered(t)'[j]
        BY <1>8, <1>9, <1>13, <4>1 DEF Rising, Below
      <4> QED
        BY <1>2, <1>3, <3>2, <4>2, <4>3, <4>4 DEF Rising
    <3> QED
      BY <3>1, <3>2
  <2>2. ASSUME NEW p \in DOMAIN pipes, NEW q \in DOMAIN pipes, Precedes(p, q) PROVE Above(p, q)'
    <3>1. Above(p, q)
      BY <2>2 DEF OrderInv, DeliveredRises
    <3>2. p # t
      BY <1>1, <2>2, HereIsLast
    <3>3. CASE q # t
      BY <1>7, <3>1, <3>2, <3>3 DEF Above
    <3>4. CASE q = t
      <4>1. Below(p, f.chunk)
        BY <1>1, <2>2, <3>4, HereIsLast DEF NewTo
      <4>2. \A i \in 1 .. Len(Delivered(p)), j \in 1 .. Len(Delivered(t)') :
                Delivered(p)[i] < Delivered(t)'[j]
        BY <1>8, <1>9, <3>1, <3>4, <4>1 DEF Above, Below
      <4> QED
        BY <1>7, <3>2, <3>4, <4>2 DEF Above
    <3> QED
      BY <3>3, <3>4
  <2> QED
    BY <1>1, <2>1, <2>2 DEF DeliveredRises
<1>15. ChunkNew'
  <2> SUFFICES ASSUME NEW h \in feeders', h.state = "write", Writes(h) PROVE NewTo(h)'
    BY <1>3 DEF ChunkNew, NewTo
  <2>1. h = g
    BY <1>1 DEF OrderInv, FeedersKnown
  <2>2. f.at < Len(f.writers) /\ g.at = f.at + 1 /\ g.writers = f.writers
    BY <1>1, <2>1 DEF Successor
  <2>3. \A p \in DOMAIN pipes : p # t => Below(p, f.chunk)' = Below(p, f.chunk)
    BY <1>7 DEF Below
  <2>4. \A p \in DOMAIN pipes : ~Here(p) => Below(p, f.chunk)'
    BY <1>1, <2>3 DEF NewTo
  <2>5. ASSUME NEW k \in f.at + 1 .. Len(f.writers), f.writers[k] # NoPipe
        PROVE  Below(f.writers[k], f.chunk)'
    <3>1. k \in 1 .. Len(f.writers) /\ k # f.at /\ k \in f.at .. Len(f.writers)
      BY <1>4
    <3>2. f.writers[k] \in DOMAIN pipes /\ f.writers[k] # t
      BY <1>4, <1>6, <2>5, <3>1 DEF FeederOK
    <3>3. Below(f.writers[k], f.chunk)
      BY <1>1, <2>5, <3>1 DEF NewTo
    <3> QED
      BY <2>3, <3>2, <3>3
  <2>6. f.chunk \in 1 .. taken'
    BY <1>1 DEF NewTo
  <2> QED
    BY <1>1, <1>3, <2>1, <2>2, <2>4, <2>5, <2>6 DEF NewTo
<1>16. ASSUME FirstHere
       PROVE  /\ feeders = {f} /\ f.chunk = taken /\ taken \in Nat /\ taken > 0
              /\ Len(Delivered(t)') = taken
              /\ \A k \in 1 .. Len(f.writers) : f.writers[k] \in Fed =>
                     Len(Delivered(f.writers[k])') = IF k <= f.at THEN taken ELSE taken - 1
              /\ \A p \in Fed : \E k \in 1 .. Len(f.writers) : f.writers[k] = p
  <2>1. feeders = {f} /\ InStep(f)
    BY <1>16 DEF OrderInv, FirstTask
  <2>2. f.chunk = taken /\ taken > 0 /\ taken \in Nat
    BY <1>1, <2>1 DEF InStep, OrderInv, InputTypeOK
  <2>3. \A k \in 1 .. Len(f.writers) : f.writers[k] \in Fed =>
            Len(Delivered(f.writers[k])) = IF k < f.at THEN taken ELSE taken - 1
    BY <1>1, <2>1 DEF InStep
  <2>4. t \in Fed /\ f.writers[f.at] = t
    BY <1>1 DEF Feeds, Here, TaskOfPipe, TakesInput, Takes, Cmd, Cmds, Fed, Target
  <2>5. Len(Delivered(t)) = taken - 1
    BY <1>4, <2>3, <2>4
  <2>6. Len(Delivered(t)') = taken
    BY <1>9, <2>2, <2>5
  <2>7. \A p \in Fed : \E k \in 1 .. Len(f.writers) : f.writers[k] = p
    BY <1>1, <1>16, WritersHere DEF FirstHere, Fed
  <2>8. ASSUME NEW k \in 1 .. Len(f.writers), f.writers[k] \in Fed
        PROVE  Len(Delivered(f.writers[k])') = IF k <= f.at THEN taken ELSE taken - 1
    <3>1. CASE f.writers[k] = t
      BY <1>4, <1>6, <2>6, <3>1
    <3>2. CASE f.writers[k] # t
      <4>1. k # f.at /\ f.writers[k] \in DOMAIN pipes
        BY <2>4, <2>8, <3>2 DEF Fed
      <4>2. Delivered(f.writers[k])' = Delivered(f.writers[k])
        BY <1>7, <3>2, <4>1
      <4> QED
        BY <1>4, <2>3, <2>8, <4>1, <4>2
    <3> QED
      BY <3>1, <3>2
  <2> QED
    BY <2>1, <2>2, <2>6, <2>7, <2>8
<1>17. FirstTask'
  <2> SUFFICES ASSUME FirstHere
               PROVE  InTask /\ pc # "launch" /\ Takes /\ feeders' = {g} /\ Feeds(g) /\ InStep(g)'
    BY <1>2, <1>3 DEF FirstTask
  <2>1. InTask /\ pc # "launch" /\ Takes /\ Feeds(g)
    BY <1>1, <1>5 DEF Feeds, InTask
  <2>2. feeders' = {g}
    BY <1>1, <1>16
  <2>3. InStep(g)'
    <3>1. g.writers = f.writers /\ taken' = taken
      BY <1>1 DEF Successor
    <3>2. CASE f.at < Len(f.writers)
      <4>1. \A k \in 1 .. Len(g.writers) : g.writers[k] \in Fed' =>
                Len(Delivered(g.writers[k])') = IF k < g.at THEN taken' ELSE taken' - 1
        BY <1>1, <1>3, <1>4, <1>16, <3>1, <3>2
      <4> QED
        BY <1>1, <1>16, <3>1, <3>2, <4>1 DEF InStep
    <3>3. CASE ~(f.at < Len(f.writers))
      <4>1. \A k \in 1 .. Len(f.writers) : k <= f.at
        BY <1>4, <3>3
      <4>2. \A p \in Fed' : Len(Delivered(p)') = taken'
        BY <1>3, <1>16, <3>1, <4>1
      <4> QED
        BY <1>1, <3>3, <4>2 DEF InStep
    <3> QED
      BY <3>2, <3>3
  <2> QED
    BY <2>1, <2>2, <2>3
<1>18. FirstInOrder'
  <2> SUFFICES ASSUME NEW p \in Fed, FirstFed(p) PROVE FromStart(p)'
    BY <1>3 DEF FirstInOrder
  <2>1. FromStart(p) /\ p \in DOMAIN pipes /\ Fed \subseteq DOMAIN pipes
    BY DEF OrderInv, FirstInOrder, Fed
  <2>2. CASE ~Here(p)
    <3>1. TaskOfPipe(p) # TaskOfPipe(t) /\ p # t
      BY <1>1, <2>1, <2>2, HereIsLast
    <3>2. \A q \in Fed : TaskOfPipe(q) = TaskOfPipe(p) => Delivered(q)' = Delivered(q)
      BY <1>7, <2>1, <3>1
    <3> QED
      BY <1>3, <1>7, <2>1, <3>1, <3>2 DEF FromStart
  <2>3. CASE Here(p)
    <3>1. FirstHere
      BY <2>3, FirstIsHere
    <3>2. \A q \in Fed : Len(Delivered(q)') \in {taken, taken - 1}
      BY <1>16, <3>1
    <3>3. taken \in Nat
      BY <1>16, <3>1
    <3>4. \A q \in Fed : Len(Delivered(q)') <= Len(Delivered(p)') + 1
      BY <3>2, <3>3
    <3>5. Delivered(p)' = [k \in 1 .. Len(Delivered(p)') |-> k]
      <4>1. CASE p # t
        BY <1>7, <2>1, <4>1 DEF FromStart
      <4>2. CASE p = t
        <5>1. Delivered(t) = [k \in 1 .. Len(Delivered(t)) |-> k]
          BY <2>1, <4>2 DEF FromStart
        <5>2. f.chunk = Len(Delivered(t)) + 1
          BY <1>8, <1>9, <1>16, <3>1
        <5>3. Append(Delivered(t), Len(Delivered(t)) + 1) =
                  [k \in 1 .. Len(Delivered(t)) + 1 |-> k]
          BY <1>8, <5>1, CountsOn
        <5> QED
          BY <1>1, <1>9, <4>2, <5>2, <5>3
      <4> QED
        BY <4>1, <4>2
    <3> QED
      BY <1>3, <3>4, <3>5 DEF FromStart
  <2> QED
    BY <2>2, <2>3
<1> QED
  BY <1>10, <1>11, <1>12, <1>14, <1>15, <1>17, <1>18 DEF OrderInv


----------------------------------------------------------------------------

LEMMA OrderInit == InInit => OrderInv
<1> SUFFICES ASSUME InInit PROVE OrderInv
  OBVIOUS
<1> USE DEF InInit
<1>1. DOMAIN pipes = {} /\ pc = "play" /\ ~InTask /\ Untouched /\ feeders = {}
  BY DEF Init, InTask, Untouched
<1>2. InputTypeOK
  BY <1>1, InputAssumption DEF InputTypeOK
<1>3. Fed = {}
  BY <1>1 DEF Fed
<1>4. PipesPlaced /\ PipesOpen /\ StdinHeld /\ FeedersKnown
  BY <1>1 DEF PipesPlaced, PipesOpen, StdinHeld, FeedersKnown
<1>5. DeliveredRises /\ ChunkNew /\ FirstTask /\ FirstInOrder
  BY <1>1, <1>3 DEF DeliveredRises, ChunkNew, FirstTask, FirstInOrder, Untouched
<1> QED
  BY <1>2, <1>4, <1>5 DEF OrderInv

LEMMA OrderStep == ASSUME RunInv, OrderInv, [InNext]_inAll PROVE OrderInv'
<1>1. RunInv'
  BY RunKept
<1>2. CASE Quiet \/ Moves
  BY <1>1, <1>2, QuietOrder, MovesOrder
<1>3. CASE InLaunch \/ LaunchLoopEnds
  BY <1>3, InLaunchOrder, LaunchLoopEndsOrder
<1>4. ASSUME NEW f \in feeders, Copies(f) PROVE OrderInv'
  BY <1>4, ReadInputOrder, CopyEndsOrder, WriteChunkOrder, WriteCloseOrder DEF Copies
<1>5. ASSUME NEW c \in Client, ReadChunk(c) \/ InFinish(c) PROVE OrderInv'
  <2>1. Stays /\ InputTypeOK' /\ PipesOpen' /\ UNCHANGED <<feeders, taken>>
    BY <1>5, ReadChunkStays, InFinishStays
  <2> QED
    BY <2>1, CommandStepOrder
<1> QED
  BY <1>2, <1>3, <1>4, <1>5, PipeKinds DEF Delivers

\* What is known of pipes and goroutines holds in every state of every
\* invocation, those of tasks that are over included (src/usecase/run.go:366-392).
THEOREM OrderInductive == InSpec => [](RunInv /\ OrderInv)
<1>1. InInit => RunInv /\ OrderInv
  BY RunInitInv, OrderInit DEF InInit
<1>2. RunInv /\ OrderInv /\ [InNext]_inAll => (RunInv /\ OrderInv)'
  BY RunKept, OrderStep
<1> QED
  BY <1>1, <1>2, PTL DEF InSpec

\* Pipes, pieces and goroutines are of their types, and no pipe holds more than
\* it has room for.
THEOREM InputTypeCorrect == InSpec => []InputTypeOK
<1>1. OrderInv => InputTypeOK
  BY DEF OrderInv
<1> QED
  BY <1>1, OrderInductive, PTL

\* For every playbook, input and capacity of the pipes, the commands of the
\* first task with input are given it from its start, within a piece of each
\* other, and no piece is ever delivered twice or to two tasks, however many
\* goroutines of earlier tasks still read (src/usecase/run.go:373-390).
THEOREM InputInOrderAlways == InSpec => []InputInOrder
<1>1. OrderInv => InputInOrder
  <2> SUFFICES ASSUME OrderInv PROVE InputInOrder
    OBVIOUS
  <2>1. \A p \in Fed : FirstFed(p) => FromStart(p)
    BY DEF OrderInv, FirstInOrder
  <2>2. ASSUME NEW p \in Fed, NEW q \in Fed, NEW i \in DOMAIN Delivered(p),
               NEW j \in DOMAIN Delivered(q), Precedes(p, q) \/ (p = q /\ i < j)
        PROVE  Delivered(p)[i] < Delivered(q)[j]
    <3>1. p \in DOMAIN pipes /\ q \in DOMAIN pipes
      BY DEF Fed
    <3>2. Delivered(p) \in Seq(Nat) /\ Delivered(q) \in Seq(Nat)
      BY <3>1, DeliveredSeq DEF OrderInv
    <3>3. i \in 1 .. Len(Delivered(p)) /\ j \in 1 .. Len(Delivered(q))
      BY <3>2
    <3>4. CASE Precedes(p, q)
      BY <3>1, <3>3, <3>4 DEF OrderInv, DeliveredRises, Above
    <3>5. CASE p = q /\ i < j
      BY <3>1, <3>3, <3>5 DEF OrderInv, DeliveredRises, Rising
    <3> QED
      BY <2>2, <3>4, <3>5
  <2> QED
    BY <2>1, <2>2 DEF InputInOrder, FromStart
<1> QED
  BY <1>1, OrderInductive, PTL

----------------------------------------------------------------------------
(* the input that was read is whole *)

\* Unless an upload or a dist copy failed, a task was started on all of its
\* clients or, with the context cancelled, on none.
AllStarted ==
    faults \cap {"upload", "dist"} = {} =>
        /\ pc = "launch" => IF ctxDone THEN launched = {}
                            ELSE \A k \in 1 .. cur - 1 : CS[k] \in launched
        /\ pc \in {"io", "wait", "fetch"} => launched = {} \/ launched = Members

\* A pipe of the first task with input, whose commands all read to its end.
Steady(p) ==
    /\ FirstFed(p) /\ playbook[p[1]].cmds[p[2]].name \in Reads
    /\ \A q \in Fed : TaskOfPipe(q) = TaskOfPipe(p) => q[4] \notin Quitters

\* It is closed only after the whole input, and its command ends only then.
Whole(p) ==
    /\ pipes[p].wclosed => Len(Delivered(p)) = Chunks
    /\ pipes[p].rclosed => pipes[p].queue = <<>> /\ pipes[p].wclosed
    /\ FirstHere => \A f \in feeders : f.state = "close" => Len(Delivered(p)) = Chunks

WholeSoFar ==
    faults \subseteq {"connect", "fetch"} => \A p \in Fed : Steady(p) => Whole(p)

OkAtEnd == exit = "ok" => pc = "play"

WholeInv == AllStarted /\ OkAtEnd /\ WholeSoFar

\* No failure is taken back.
LEMMA FaultsGrow == ASSUME [InNext]_inAll PROVE faults \subseteq faults'
<1>1. CASE UNCHANGED inAll
  BY <1>1 DEF inAll, vars, connVars
<1>2. ASSUME Next PROVE faults \subseteq faults'
  <2> USE DEF Fault
  <2>1. CASE \/ BeginPlay \/ PlayRefused \/ NoCommands \/ AllPlaysDone \/ ConnectRefused
             \/ ConnectAccepted \/ CreateTasksPanics \/ CreateTasksFails \/ CommandsDone
             \/ CloseClient \/ CloseFails \/ PlayDone \/ TasksDone \/ NoClients \/ NextCommand
    BY <2>1 DEF BeginPlay, StartConnect, PlayRefused, RunShellcheck, CheckInitialArgs, MergeVars,
         NoCommands, AllPlaysDone, ConnectRefused, ConnectAccepted, CreateTasksPanics,
         CreateTasksFails, CommandsDone, CloseClient, CloseFails, PlayDone, TasksDone, NoClients,
         NextCommand, connVars
  <2>2. CASE Launch \/ BeginTask \/ SkipCancelled \/ UploadFails \/ DistFails \/ LaunchDone
    BY <2>2 DEF Launch, BeginTask, SkipCancelled, UploadFails, DistFails, LaunchDone, connVars
  <2>3. CASE RunRejected \/ RunFails \/ BuildFails
    BY <2>3 DEF RunRejected, RunFails, BuildFails
  <2>4. CASE OutputDone \/ WaitDone \/ FetchSkipped \/ FetchOk \/ FetchFails \/ FetchDone
    BY <2>4 DEF OutputDone, WaitDone, FetchSkipped, FetchOk, FetchFails, FetchDone, connVars
  <2>5. CASE Connecting
    BY <2>5 DEF Connecting, ConnectStep, BastionUp, BastionDown, BastionPanics, HostAnswers,
         HostUp, HostDown, HostUnconfigured, ReportFailure, InventoryPanics, Gathered, Sweep,
         SweepMiss, SweepHit, SweepOutOfRange, SweepNextName, SweepEnds
  <2>6. ASSUME NEW c \in Client, Finish(c) \/ WaitReturns(c) PROVE faults \subseteq faults'
    BY <2>6 DEF Finish, WaitReturns, WaitStopped, WaitFailed, TubeFails, WaitOk, connVars
  <2>7. CASE Terminated
    BY <2>7 DEF Terminated, vars, connVars
  <2> QED
    BY <1>2, <2>1, <2>2, <2>3, <2>4, <2>5, <2>6, <2>7 DEF Next, MainStep, OtherMainStep
<1>3. CASE InNext
  BY <1>2, <1>3, InNextKinds DEF vars, connVars
<1> QED
  BY <1>1, <1>3

LEMMA AllStartedStep == ASSUME RunInv, AllStarted, [InNext]_inAll PROVE AllStarted'
<1>1. ASSUME UNCHANGED runVars PROVE AllStarted'
  BY <1>1, FaultsGrow DEF AllStarted, runVars, Members, CS
<1>2. ASSUME Next PROVE AllStarted'
  <2>0. faults \subseteq faults'
    BY FaultsGrow
  <2>1. CASE \/ PlayRefused \/ NoCommands \/ AllPlaysDone \/ CreateTasksPanics \/ CreateTasksFails
             \/ CloseFails \/ NoClients \/ RunRejected \/ RunFails \/ BuildFails \/ Connecting
    BY <1>1, <2>1 DEF PlayRefused, NoCommands, AllPlaysDone, CreateTasksPanics, CreateTasksFails,
         CloseFails, NoClients, RunRejected, RunFails, BuildFails, Connecting
  <2>2. CASE \/ BeginPlay \/ ConnectRefused \/ ConnectAccepted \/ CommandsDone \/ CloseClient
             \/ PlayDone \/ TasksDone \/ NextCommand \/ FetchDone
    <3>1. pc' \notin {"launch", "io", "wait", "fetch"}
      BY <2>2 DEF BeginPlay, ConnectRefused, ConnectAccepted, CommandsDone, CloseClient,
           PlayDone, TasksDone, NextCommand, FetchDone, Alive
    <3> QED
      BY <3>1 DEF AllStarted
  <2>3. CASE BeginTask
    BY <2>3 DEF BeginTask, AllStarted
  <2>4. CASE UploadFails \/ DistFails
    BY <2>4 DEF UploadFails, DistFails, Fault, AllStarted
  <2>5. CASE SkipCancelled
    BY <2>0, <2>5 DEF SkipCancelled, AtClient, Alive, AllStarted, sessions
  <2>6. CASE Launch
    <3>1. /\ pc = "launch" /\ pc' = pc /\ ~ctxDone /\ ctxDone' = ctxDone /\ UNCHANGED tasks
          /\ UNCHANGED <<task, faults>> /\ cur' = cur + 1 /\ launched' = launched \cup {CS[cur]}
      BY <2>6 DEF Launch, AtClient, Alive, place, connVars
    <3>2. cur \in Nat
      BY DEF RunInv, RunTypeOK
    <3>3. CS' = CS
      BY <3>1 DEF CS
    <3> QED
      BY <3>1, <3>2, <3>3 DEF AllStarted
  <2>7. CASE LaunchDone
    <3>1. pc = "launch" /\ pc' = "io" /\ cur > Len(CS) /\ UNCHANGED <<tasks, task, launched, faults>>
      BY <2>7 DEF LaunchDone, Alive, place, sessions, connVars
    <3>2. cur \in Nat /\ Len(CS) \in Nat /\ launched \subseteq Members
      BY <3>1, TaskFacts DEF RunInv, RunTypeOK, ClientsOK, PlaceOK, InTask
    <3>3. (\A k \in 1 .. cur - 1 : CS[k] \in launched) => launched = Members
      BY <3>1, <3>2 DEF Members
    <3>4. Members' = Members
      BY <3>1 DEF Members, CS
    <3> QED
      BY <3>1, <3>3, <3>4 DEF AllStarted
  <2>8. CASE OutputDone \/ WaitDone \/ FetchSkipped \/ FetchOk \/ FetchFails
    <3>1. /\ pc \in {"io", "wait", "fetch"} /\ pc' \in {"io", "wait", "fetch"}
          /\ UNCHANGED <<tasks, task, launched>>
      BY <2>8 DEF OutputDone, WaitDone, FetchSkipped, FetchOk, FetchFails, AtFetch, Alive, place,
           sessions
    <3>2. Members' = Members
      BY <3>1 DEF Members, CS
    <3> QED
      BY <2>0, <3>1, <3>2 DEF AllStarted
  <2>9. ASSUME NEW c \in Client, Finish(c) \/ WaitReturns(c) PROVE AllStarted'
    <3>1. CASE Finish(c) \/ WaitOk(c)
      <4>1. UNCHANGED <<pc, tasks, task, launched, cur, ctxDone>>
        BY <3>1 DEF Finish, WaitOk, place
      <4>2. Members' = Members /\ CS' = CS
        BY <4>1 DEF Members, CS
      <4> QED
        BY <2>0, <4>1, <4>2 DEF AllStarted
    <3>2. CASE WaitStopped(c) \/ WaitFailed(c) \/ TubeFails(c)
      BY <1>1, <3>2 DEF WaitStopped, WaitFailed, TubeFails
    <3> QED
      BY <2>9, <3>1, <3>2 DEF WaitReturns
  <2>10. CASE Terminated
    BY <1>1, <2>10 DEF Terminated, vars
  <2> QED
    BY <1>2, <2>1, <2>2, <2>3, <2>4, <2>5, <2>6, <2>7, <2>8, <2>9, <2>10
    DEF Next, MainStep, OtherMainStep
<1>3. CASE UNCHANGED inAll
  BY <1>1, <1>3 DEF inAll, vars
<1>4. CASE InNext
  BY <1>1, <1>2, <1>4, InNextKinds DEF vars
<1> QED
  BY <1>3, <1>4

LEMMA OkAtEndStep == ASSUME OkAtEnd, [InNext]_inAll PROVE OkAtEnd'
<1>1. ASSUME UNCHANGED vars PROVE OkAtEnd'
  BY <1>1 DEF OkAtEnd, vars, connVars, runVars
<1>2. ASSUME Next, exit = "none", exit' = "ok" PROVE pc' = "play"
  <2>1. CASE AllPlaysDone
    BY <2>1 DEF AllPlaysDone, Alive, runVars
  <2>2. CASE Connecting
    BY <1>2, <2>2, ConnectStepFaults DEF Connecting
  <2>3. CASE \/ BeginPlay \/ PlayRefused \/ NoCommands \/ ConnectRefused
             \/ ConnectAccepted \/ CreateTasksPanics \/ CreateTasksFails \/ CommandsDone
             \/ CloseClient \/ CloseFails \/ PlayDone \/ TasksDone \/ NoClients \/ NextCommand
    BY <1>2, <2>3 DEF BeginPlay, StartConnect, PlayRefused, RunShellcheck, CheckInitialArgs,
         MergeVars, NoCommands, ConnectRefused, ConnectAccepted, CreateTasksPanics,
         CreateTasksFails, CommandsDone, CloseClient, CloseFails, PlayDone, TasksDone, NoClients,
         NextCommand, connVars, Stop
  <2>4. CASE Launch \/ BeginTask \/ SkipCancelled \/ UploadFails \/ DistFails \/ LaunchDone
    BY <1>2, <2>4 DEF Launch, BeginTask, SkipCancelled, UploadFails, DistFails, LaunchDone, connVars
  <2>5. CASE RunRejected \/ RunFails \/ BuildFails
    BY <1>2, <2>5 DEF RunRejected, RunFails, BuildFails, Stop
  <2>6. CASE OutputDone \/ WaitDone \/ FetchSkipped \/ FetchOk \/ FetchFails \/ FetchDone
    BY <1>2, <2>6 DEF OutputDone, WaitDone, FetchSkipped, FetchOk, FetchFails, FetchDone, connVars
  <2>7. ASSUME NEW c \in Client, Finish(c) \/ WaitReturns(c) PROVE FALSE
    BY <1>2, <2>7 DEF Finish, WaitReturns, WaitStopped, WaitFailed, TubeFails, WaitOk, Stop, connVars
  <2>8. CASE Terminated
    BY <1>2, <2>8 DEF Terminated
  <2> QED
    BY <1>2, <2>1, <2>2, <2>3, <2>4, <2>5, <2>6, <2>7, <2>8 DEF Next, MainStep, OtherMainStep
<1>3. ASSUME Next PROVE OkAtEnd'
  <2>1. CASE exit # "none"
    BY <1>1, <1>3, <2>1, Ended
  <2>2. CASE exit = "none"
    BY <1>2, <1>3, <2>2 DEF OkAtEnd
  <2> QED
    BY <2>1, <2>2
<1> QED
  BY <1>1, <1>3, InNextKinds DEF OkAtEnd, inAll

\* Which pipes are steady depends on the pipes there are only.
LEMMA SteadySame ==
    ASSUME UNCHANGED playbook, DOMAIN pipes' = DOMAIN pipes
    PROVE  Fed' = Fed /\ \A p : Steady(p)' = Steady(p)
<1>1. \A p : TakesInput(p)' = TakesInput(p)
  BY DEF TakesInput
<1>2. Fed' = Fed
  BY <1>1 DEF Fed
<1> QED
  BY <1>2 DEF Steady, FirstFed

LEMMA QuietWhole ==
    ASSUME RunInv, RunInv', OrderInv, OrderInv', WholeInv, [InNext]_inAll, Quiet \/ Moves
    PROVE  WholeSoFar'
<1> SUFFICES ASSUME faults' \subseteq {"connect", "fetch"}, NEW p \in Fed', Steady(p)'
             PROVE  Whole(p)'
  BY DEF WholeSoFar
<1>1. UNCHANGED <<pipes, feeders, playbook>>
  BY DEF Quiet, Moves, inVars
<1>2. Fed' = Fed /\ Steady(p) /\ Delivered(p)' = Delivered(p)
  BY <1>1, SteadySame, PipesSame
<1>3. Whole(p)
  BY <1>2, FaultsGrow DEF WholeInv, WholeSoFar
<1>4. FirstHere' => FirstHere
  <2>1. CASE Quiet
    <3>1. \A q : Here(q)' = Here(q)
      BY <2>1 DEF Quiet, Here, InTask
    <3> QED
      BY <1>2, <3>1 DEF FirstHere
  <2>2. CASE Moves
    <3>1. p \in DOMAIN pipes' /\ Past(p)'
      BY <1>1, <1>2, <2>2 DEF Moves, Fed
    <3>2. ~Here(p)'
      <4>1. p[1] \in Nat /\ p[2] \in Nat /\ p[3] \in Nat
        BY <1>1, <3>1, PipeFacts DEF OrderInv
      <4>2. play' \in Nat /\ cmd' \in Nat /\ task' \in Nat
        BY DEF RunInv, RunTypeOK
      <4> QED
        BY <3>1, <4>1, <4>2 DEF Past, Here, TaskOfPipe
    <3> QED
      BY <3>2 DEF FirstHere
  <2> QED
    BY <2>1, <2>2
<1> QED
  BY <1>1, <1>2, <1>3, <1>4 DEF Whole

LEMMA LaunchWhole ==
    ASSUME RunInv, OrderInv, WholeInv, [InNext]_inAll, InLaunch
    PROVE  WholeSoFar'
<1> SUFFICES ASSUME faults' \subseteq {"connect", "fetch"}, NEW p \in Fed', Steady(p)'
             PROVE  Whole(p)'
  BY DEF WholeSoFar
<1>1. /\ pc = "launch" /\ UNCHANGED <<feeders, playbook, pc, play, cmd, task>>
      /\ \E fresh \in PipeId :
           /\ DOMAIN pipes' = DOMAIN pipes \cup {fresh}
           /\ pipes'[fresh] = [queue |-> <<>>, got |-> <<>>, wclosed |-> FALSE, rclosed |-> FALSE]
           /\ \A q \in DOMAIN pipes : pipes'[q] = pipes[q]
  BY InLaunchFacts
<1>2. PICK fresh \in PipeId :
           /\ DOMAIN pipes' = DOMAIN pipes \cup {fresh}
           /\ pipes'[fresh] = [queue |-> <<>>, got |-> <<>>, wclosed |-> FALSE, rclosed |-> FALSE]
           /\ \A q \in DOMAIN pipes : pipes'[q] = pipes[q]
  BY <1>1
<1>3. \A q : TakesInput(q)' = TakesInput(q) /\ Here(q)' = Here(q)
  BY <1>1 DEF TakesInput, Here, InTask
<1>4. Fed \subseteq Fed' /\ Fed' \cap DOMAIN pipes = Fed
  BY <1>2, <1>3 DEF Fed
<1>5. FirstHere' => feeders' = {}
  BY <1>1, <1>3, <1>4 DEF FirstHere, OrderInv, FirstTask, Untouched
<1>6. CASE p \notin DOMAIN pipes
  <2>1. p = fresh
    BY <1>2, <1>6 DEF Fed
  <2> QED
    BY <1>2, <1>5, <2>1 DEF Whole
<1>7. CASE p \in DOMAIN pipes
  <2>1. p \in Fed /\ Steady(p)
    BY <1>1, <1>4, <1>7 DEF Steady, FirstFed
  <2>2. Whole(p)
    BY <2>1, FaultsGrow DEF WholeInv, WholeSoFar
  <2>3. pipes'[p] = pipes[p] /\ Delivered(p)' = Delivered(p)
    BY <1>2, <1>7 DEF Delivered
  <2> QED
    BY <1>5, <2>2, <2>3 DEF Whole
<1> QED
  BY <1>6, <1>7

LEMMA NewFeederWhole ==
    ASSUME RunInv, OrderInv, WholeInv, [InNext]_inAll, LaunchLoopEnds
    PROVE  WholeSoFar'
<1> SUFFICES ASSUME faults' \subseteq {"connect", "fetch"}, NEW p \in Fed', Steady(p)'
             PROVE  Whole(p)'
  BY DEF WholeSoFar
<1>1. /\ pc = "launch" /\ pc' = "io" /\ UNCHANGED <<pipes, playbook, play, cmd, task>>
      /\ feeders' = feeders \/ \E g : feeders' = feeders \cup {g} /\ g.state = "read"
  BY NewFeeder
<1>2. Fed' = Fed /\ Steady(p) /\ Delivered(p)' = Delivered(p)
  BY <1>1, SteadySame, PipesSame
<1>3. Whole(p)
  BY <1>2, FaultsGrow DEF WholeInv, WholeSoFar
<1>4. FirstHere' => FirstHere
  BY <1>1, <1>2 DEF FirstHere, Here, InTask
<1> QED
  BY <1>1, <1>2, <1>3, <1>4 DEF Whole

\* While the first task is fed, a write fails only if a command ended early.
LEMMA NoWriteFails ==
    ASSUME RunInv, OrderInv, WholeInv, faults \subseteq {"connect", "fetch"}, FirstHere,
           NEW p \in Fed, Steady(p), NEW f \in feeders, WriteFails(f)
    PROVE  FALSE
<1>1. f.state = "write" /\ Target(f) # NoPipe /\ ~Open(Target(f))
  BY DEF WriteFails
<1>2. Feeds(f) /\ InStep(f)
  BY DEF OrderInv, FirstTask
<1>3. /\ f \in Feeder /\ Len(f.writers) \in Nat /\ f.at \in 1 .. Len(f.writers)
      /\ Target(f) \in DOMAIN pipes
  BY <1>1, FeederFacts
<1>4. pc \in {"io", "wait", "fetch"} /\ f.clients = CS
      /\ f.writers = [k \in 1 .. Len(CS) |-> stdin[CS[k]]]
  BY <1>2 DEF Feeds
<1>5. Here(p) /\ p \in DOMAIN pipes
  BY DEF FirstHere, Fed
<1>6. p[4] \in launched
  BY <1>5, PastNotHere DEF OrderInv, PipesPlaced
<1>7. launched = Members
  BY <1>4, <1>6 DEF WholeInv, AllStarted
<1>8. CS \in Seq(Client) /\ Len(CS) \in Nat
  BY <1>5, TaskFacts DEF Here, RunInv, PlaceOK
<1>9. f.at \in 1 .. Len(CS) /\ f.writers[f.at] = stdin[CS[f.at]]
  <2>1. FeederOK(f) /\ Len(f.clients) = Len(f.writers)
    BY FeederFacts DEF FeederOK
  <2> QED
    BY <1>3, <1>4, <2>1
<1>10. CS[f.at] \in launched
  BY <1>7, <1>9 DEF Members
<1>11. Target(f) = Own(CS[f.at])
  BY <1>5, <1>9, <1>10 DEF Target, OrderInv, StdinHeld, Here
<1>12. PICK t : t = Target(f)
  OBVIOUS
<1>13. t \in DOMAIN pipes /\ Here(t)
  BY <1>3, <1>5, <1>11, <1>12 DEF Own, Here, TaskOfPipe
<1>14. TaskOfPipe(t) = TaskOfPipe(p) /\ t[1] = p[1] /\ t[2] = p[2]
  BY <1>5, <1>13 DEF Here, TaskOfPipe
<1>15. t \in Fed
  BY <1>13, <1>14 DEF Fed, TakesInput
<1>16. FirstFed(t)
  BY <1>13, HereIsLast DEF FirstFed, FirstHere, Fed
<1>17. Steady(t)
  BY <1>14, <1>16 DEF Steady
<1>18. Whole(t)
  BY <1>15, <1>17 DEF WholeInv, WholeSoFar
<1>19. Len(Delivered(t)) = Chunks
  BY <1>1, <1>12, <1>13, <1>18, PipeFacts DEF Whole, Open, OrderInv
<1>20. Len(Delivered(t)) = taken - 1
  BY <1>1, <1>2, <1>3, <1>12, <1>15 DEF InStep, Target
<1>21. taken \in 0 .. Chunks /\ Chunks \in Nat
  BY InputAssumption DEF OrderInv, InputTypeOK
<1> QED
  BY <1>19, <1>20, <1>21

LEMMA CopiesWhole ==
    ASSUME RunInv, OrderInv, WholeInv, [InNext]_inAll, NEW f \in feeders, Copies(f)
    PROVE  WholeSoFar'
<1> SUFFICES ASSUME faults' \subseteq {"connect", "fetch"}, NEW p \in Fed', Steady(p)'
             PROVE  Whole(p)'
  BY DEF WholeSoFar
<1>1. UNCHANGED vars
  BY DEF Copies, ReadInput, InputEnds, WriteChunk, WriteFails, WriteClose
<1>2. UNCHANGED <<faults, playbook, pc, play, cmd, task, proc>>
  BY <1>1 DEF vars, connVars, runVars
<1>3. ASSUME DOMAIN pipes' = DOMAIN pipes
      PROVE  /\ p \in Fed /\ Steady(p) /\ Whole(p) /\ p \in DOMAIN pipes
             /\ FirstHere' = FirstHere
  <2>1. p \in Fed /\ Steady(p) /\ Fed' = Fed
    BY <1>2, <1>3, SteadySame
  <2>2. \A q : Here(q)' = Here(q)
    BY <1>2 DEF Here, InTask
  <2> QED
    BY <1>2, <2>1, <2>2 DEF WholeInv, WholeSoFar, FirstHere, Fed
<1>4. CASE ReadInput(f)
  <2>1. UNCHANGED pipes /\ \E g : feeders' = (feeders \ {f}) \cup {g} /\ g.state = "write"
    <3>1. f \in Feeder
      BY FeederFacts
    <3>2. PICK g : g = [f EXCEPT !.chunk = taken + 1, !.at = 1, !.state = "write"]
      OBVIOUS
    <3>3. g.state = "write"
      BY <3>1, <3>2 DEF Feeder
    <3> QED
      BY <1>4, <3>2, <3>3 DEF ReadInput, Becomes
  <2>2. Delivered(p)' = Delivered(p)
    BY <2>1 DEF Delivered
  <2> QED
    BY <1>3, <2>1, <2>2 DEF Whole
<1>5. CASE InputEnds(f)
  <2>1. UNCHANGED pipes /\ f.state = "read" /\ taken = Chunks
    BY <1>5 DEF InputEnds
  <2>2. Delivered(p)' = Delivered(p)
    BY <2>1 DEF Delivered
  <2>3. FirstHere => Len(Delivered(p)) = Chunks
    BY <1>3, <2>1 DEF OrderInv, FirstTask, InStep
  <2> QED
    BY <1>3, <2>1, <2>2, <2>3 DEF Whole
<1>6. CASE WriteFails(f)
  <2>1. UNCHANGED pipes
    BY <1>6 DEF WriteFails
  <2>2. Delivered(p)' = Delivered(p)
    BY <2>1 DEF Delivered
  <2>3. ~FirstHere
    BY <1>2, <1>3, <1>6, <2>1, NoWriteFails
  <2> QED
    BY <1>3, <2>1, <2>2, <2>3 DEF Whole
<1>7. CASE WriteChunk(f)
  <2>1. PICK t, g :
          /\ t \in DOMAIN pipes /\ t = Target(f)
          /\ DOMAIN pipes' = DOMAIN pipes
          /\ \A q \in DOMAIN pipes : /\ q # t => pipes'[q] = pipes[q]
                                     /\ pipes'[q].wclosed = pipes[q].wclosed
                                     /\ pipes'[q].rclosed = pipes[q].rclosed
          /\ ~pipes[t].rclosed
          /\ feeders' = (feeders \ {f}) \cup {g}
          /\ IF f.at < Len(f.writers) THEN g.at = f.at + 1 /\ g.state = "write"
                                      ELSE g.state = "read"
    BY <1>7, WriteChunkFacts
  <2> t \in DOMAIN pipes
    BY <2>1
  <2>2. ~pipes[t].wclosed
    BY <1>7, <2>1 DEF WriteChunk, Open
  <2>3. p \in Fed /\ Whole(p) /\ p \in DOMAIN pipes /\ FirstHere' = FirstHere
    BY <1>3, <2>1
  <2>4. FirstHere' => \A h \in feeders' : h.state # "close"
    BY <2>1, <2>3 DEF OrderInv, FirstTask
  <2>5. CASE p = t
    BY <2>1, <2>2, <2>4, <2>5 DEF Whole
  <2>6. CASE p # t
    <3>1. pipes'[p] = pipes[p]
      BY <2>1, <2>3, <2>6
    <3>2. Delivered(p)' = Delivered(p)
      BY <3>1 DEF Delivered
    <3> QED
      BY <2>3, <2>4, <3>1, <3>2 DEF Whole
  <2> QED
    BY <2>5, <2>6
<1>8. CASE WriteClose(f)
  <2>1. /\ DOMAIN pipes' = DOMAIN pipes
        /\ \A q \in DOMAIN pipes :
             /\ pipes'[q].queue = pipes[q].queue /\ pipes'[q].got = pipes[q].got
             /\ pipes'[q].rclosed = pipes[q].rclosed
             /\ pipes[q].wclosed => pipes'[q].wclosed
    BY <1>8, WriteCloseFacts
  <2>2. p \in Fed /\ Steady(p) /\ Whole(p) /\ p \in DOMAIN pipes /\ FirstHere' = FirstHere
    BY <1>3, <2>1
  <2>3. Delivered(p)' = Delivered(p)
    BY <2>1, <2>2 DEF Delivered
  <2>4. f.state = "close"
    BY <1>8 DEF WriteClose
  <2>5. FirstHere => Len(Delivered(p)) = Chunks
    BY <2>2, <2>4 DEF Whole
  <2>6. ~pipes[p].wclosed => FirstHere
    <3>1. ~pipes[p].wclosed => ~pipes[p].rclosed
      BY <2>2 DEF Whole
    <3>2. ~pipes[p].rclosed => Here(p)
      BY <2>2 DEF OrderInv, PipesOpen
    <3>3. Here(p) => FirstHere
      BY <2>2, FirstIsHere DEF Steady
    <3> QED
      BY <3>1, <3>2, <3>3
  <2>7. (pipes[p].wclosed => Len(Delivered(p)) = Chunks)
    BY <2>2 DEF Whole
  <2>8. pipes'[p].rclosed => pipes'[p].queue = <<>> /\ pipes'[p].wclosed
    BY <2>1, <2>2 DEF Whole
  <2> QED
    BY <2>2, <2>3, <2>5, <2>6, <2>7, <2>8 DEF Whole
<1> QED
  BY <1>4, <1>5, <1>6, <1>7, <1>8 DEF Copies

LEMMA CommandWhole ==
    ASSUME RunInv, OrderInv, WholeInv, [InNext]_inAll, NEW c \in Client, ReadChunk(c) \/ InFinish(c)
    PROVE  WholeSoFar'
<1> SUFFICES ASSUME faults' \subseteq {"connect", "fetch"}, NEW p \in Fed', Steady(p)'
             PROVE  Whole(p)'
  BY DEF WholeSoFar
<1>1. Stays /\ UNCHANGED feeders
  BY ReadChunkStays, InFinishStays
<1>2. UNCHANGED <<stdin, playbook, pc, play, cmd, task, tasks, launched>> /\ DOMAIN pipes' = DOMAIN pipes
  BY <1>1 DEF Stays
<1>3. p \in Fed /\ Steady(p) /\ p \in DOMAIN pipes
  BY <1>2, SteadySame DEF Fed
<1>4. Whole(p)
  BY <1>3, FaultsGrow DEF WholeInv, WholeSoFar
<1>5. FirstHere' = FirstHere /\ Delivered(p)' = Delivered(p)
  BY <1>1, <1>2, <1>3, StaysPlace DEF Stays
<1>6. CASE ReadChunk(c)
  <2>1. /\ pipes'[p].wclosed = pipes[p].wclosed /\ pipes'[p].rclosed = pipes[p].rclosed
        /\ pipes[p].queue = <<>> => pipes'[p].queue = <<>>
    BY <1>3, <1>6, ReadChunkStays
  <2> QED
    BY <1>1, <1>4, <1>5, <2>1 DEF Whole
<1>7. CASE InFinish(c)
  <2>1. /\ pipes'[p].wclosed = pipes[p].wclosed /\ pipes'[p].queue = pipes[p].queue
        /\ p # Own(c) => pipes'[p] = pipes[p]
    BY <1>3, <1>7, InFinishStays
  <2>2. ASSUME p = Own(c) PROVE pipes[p].queue = <<>> /\ pipes[p].wclosed
    <3>1. Reader(c)
      <4>1. p[1] = play /\ p[2] = cmd /\ p[4] = c
        BY <2>2 DEF Own
      <4> QED
        BY <1>3, <4>1 DEF Steady, Reader, Cmd, Cmds
    <3>2. proc'[c] = "ok"
      <4>1. \/ proc' = [proc EXCEPT ![c] = "ok"]
            \/ "command" \in faults'
        BY <1>7 DEF InFinish, Finish, Fault
      <4> QED
        BY <4>1 DEF RunInv, RunTypeOK
    <3> QED
      BY <1>7, <2>2, <3>1, <3>2 DEF InFinish
  <2> QED
    BY <1>1, <1>4, <1>5, <2>1, <2>2 DEF Whole
<1> QED
  BY <1>6, <1>7

LEMMA WholeStep == ASSUME RunInv, OrderInv, WholeInv, [InNext]_inAll PROVE WholeInv'
<1>1. RunInv' /\ OrderInv' /\ AllStarted' /\ OkAtEnd'
  BY RunKept, OrderStep, AllStartedStep, OkAtEndStep DEF WholeInv
<1>2. WholeSoFar'
  BY <1>1, PipeKinds, QuietWhole, LaunchWhole, NewFeederWhole, CopiesWhole, CommandWhole DEF Delivers
<1> QED
  BY <1>1, <1>2 DEF WholeInv

\* In every state of an invocation without a failed start or command, the pipes
\* of the first task with input are closed only after all of it.
THEOREM WholeInductive == InSpec => [](RunInv /\ OrderInv /\ WholeInv)
<1>1. InInit => RunInv /\ OrderInv /\ WholeInv
  <2> SUFFICES ASSUME InInit PROVE WholeInv
    BY RunInitInv, OrderInit DEF InInit
  <2>1. pc = "play" /\ exit = "none" /\ Fed = {}
    BY DEF InInit, Init, Fed
  <2> QED
    BY <2>1 DEF WholeInv, AllStarted, OkAtEnd, WholeSoFar
<1>2. RunInv /\ OrderInv /\ WholeInv /\ [InNext]_inAll => (RunInv /\ OrderInv /\ WholeInv)'
  BY RunKept, OrderStep, WholeStep
<1> QED
  BY <1>1, <1>2, PTL DEF InSpec

\* For every playbook, input and capacity of the pipes, status 0 means that the
\* commands of the first task with input read all of it, if they are readers
\* (src/usecase/run.go:373-390): no piece is lost to a pipe that was closed
\* early, and no command is told of the end of its input before it.
THEOREM InputWholeAlways == InSpec => []InputWhole
<1>1. RunInv /\ OrderInv /\ WholeInv => InputWhole
  <2> SUFFICES ASSUME RunInv, OrderInv, WholeInv, exit = "ok", NEW p \in Fed, Steady(p)
               PROVE  Len(pipes[p].got) = Chunks
    BY DEF InputWhole, Steady
  <2>1. faults \subseteq {"connect", "fetch"}
    BY DEF RunInv, FailurePending, FailureReported
  <2>2. p \in DOMAIN pipes /\ Whole(p)
    BY <2>1 DEF WholeInv, WholeSoFar, Fed
  <2>3. pc = "play"
    BY DEF WholeInv, OkAtEnd
  <2>4. pipes[p].rclosed
    BY <2>2, <2>3 DEF OrderInv, PipesOpen, Here, InTask
  <2>5. pipes[p].queue = <<>> /\ Len(Delivered(p)) = Chunks
    BY <2>2, <2>4 DEF Whole
  <2>6. pipes[p].got \in Seq(Nat)
    BY <2>2, PipeFacts DEF OrderInv
  <2>7. Delivered(p) = pipes[p].got \o <<>>
    BY <2>5 DEF Delivered
  <2>8. pipes[p].got \o <<>> = pipes[p].got
    BY <2>6
  <2> QED
    BY <2>5, <2>7, <2>8
<1> QED
  BY <1>1, WholeInductive, PTL

----------------------------------------------------------------------------
(* input makes no invocation fail *)

FailedTold == \A c \in Client : proc[c] = "failed" => "command" \in faults

\* As long as nothing has failed every play has clients, every task is started
\* on all of its clients, and no goroutine was given a client without a pipe.
Calm ==
    (faults = {} /\ exit = "none") =>
        /\ ~ctxDone
        /\ InPlay => len > 0
        /\ pc \in {"io", "wait", "fetch"} => launched = Members
        /\ \A f \in feeders : \A k \in 1 .. Len(f.writers) : f.writers[k] # NoPipe

CalmInv == DoneInv /\ FailedTold /\ Calm /\ InputFailsNothing

\* What input adds to the ways to stop.
LEMMA InputStops ==
    ASSUME InNext, ~Next, ~UNCHANGED vars
    PROVE  /\ GetSizeFails \/ \E f \in feeders : WritePanics(f)
           /\ exit = "none" /\ exit' \in {"error", "abort"}
           /\ UNCHANGED <<connPhase, faults, runVars, inVars>>
<1>1. CASE InMainStep
  BY <1>1 DEF InMainStep, InBeginPlay, InNextCommand, InLaunch, LaunchLoopEnds, InOtherStep, Next,
       MainStep, OtherMainStep, GetSizeFails, AtClient, Alive, Stop
<1>2. CASE \E f \in feeders : Feed(f)
  BY <1>2 DEF Feed, ReadInput, InputEnds, WriteChunk, WriteFails, WritePanics, WriteClose, Stop
<1>3. CASE ~InMainStep /\ ~\E f \in feeders : Feed(f)
  BY <1>3 DEF InNext, Next, ReadChunk, InFinish
<1> QED
  BY <1>1, <1>2, <1>3

LEMMA TtyKept == ASSUME [InNext]_inAll PROVE UNCHANGED tty
<1>1. CASE InMainStep
  BY <1>1 DEF InMainStep, InBeginPlay, InNextCommand, InLaunch, GetSizeFails, LaunchLoopEnds,
       InOtherStep, inVars
<1>2. CASE \E f \in feeders : Feed(f)
  BY <1>2 DEF Feed, ReadInput, InputEnds, WriteChunk, WriteFails, WritePanics, WriteClose, inVars
<1>3. CASE ~InMainStep /\ ~\E f \in feeders : Feed(f)
  BY <1>3 DEF InNext, ReadChunk, InFinish, inAll, inVars
<1> QED
  BY <1>1, <1>2, <1>3

\* The groups of a network with clients are not empty.
LEMMA GroupsFilled ==
    ASSUME ConnInv, NEW c \in Command, len > 0
    PROVE  \A g \in 1 .. Len(ClientGroups(c)) : ClientGroups(c)[g] # <<>>
<1>1. arr \in Seq(Entry) /\ len \in 0 .. Len(arr) /\ len \in Nat
  BY DEF ConnInv, ConnTypeOK
<1>2. ASSUME NEW a \in Nat \ {0}, NEW b \in 0 .. len, a <= b
      PROVE  SubSeq(arr, a, b) # <<>>
  <2>1. \A i \in a .. b : arr[i] \in Entry
    BY <1>1, <1>2
  <2>2. Len(SubSeq(arr, a, b)) = b - a + 1
    BY <1>1, <1>2, <2>1, SubSeqProperties
  <2>3. Len(<<>>) = 0
    OBVIOUS
  <2> QED
    BY <1>1, <1>2, <2>2, <2>3
<1>3. CASE c.once
  <2>1. ClientGroups(c) = << <<arr[1]>> >> /\ <<arr[1]>> # <<>>
    BY <1>3 DEF ClientGroups
  <2> QED
    BY <2>1
<1>4. CASE ~c.once /\ c.serial > 0
  <2> DEFINE k == c.serial
             gs == (len + k - 1) \div k
  <2>1. k \in Nat \ {0} /\ len + k - 1 \in Nat
    BY <1>1, <1>4 DEF Command
  <2>2. gs \in Nat /\ k * gs <= len + k - 1
    BY <2>1
  <2>3. ClientGroups(c) =
            [g \in 1 .. gs |-> SubSeq(arr, k * (g - 1) + 1, IF k * g < len THEN k * g ELSE len)]
    BY <1>4 DEF ClientGroups, processClientsInGroups
  <2> HIDE DEF gs
  <2>4. ASSUME NEW g \in 1 .. gs
        PROVE  SubSeq(arr, k * (g - 1) + 1, IF k * g < len THEN k * g ELSE len) # <<>>
    <3>1. g \in Nat \ {0} /\ g <= gs
      BY <2>2
    <3>2. k * g \in Nat /\ k * (g - 1) = k * g - k /\ k * (g - 1) \in Nat
      BY <2>1, <3>1, Slices
    <3>3. k * g <= k * gs
      <4>1. gs - g \in Nat /\ k * (gs - g) \in Nat
        BY <2>1, <2>2, <3>1
      <4>2. k * gs = k * g + k * (gs - g)
        BY <2>1, <2>2, <3>1
      <4>3. k * gs \in Nat
        BY <2>1, <2>2
      <4> QED
        BY <3>2, <4>1, <4>2, <4>3
    <3> DEFINE a == k * (g - 1) + 1
               b == IF k * g < len THEN k * g ELSE len
    <3>4. k * gs \in Nat
      BY <2>1, <2>2
    <3>5. a \in Nat \ {0} /\ b \in 0 .. len /\ a <= b
      <4>1. PICK x \in Nat : x = k * g
        BY <3>2
      <4>2. PICK y \in Nat : y = k * gs
        BY <3>4
      <4>3. PICK z \in Nat : z = k * (g - 1)
        BY <3>2
      <4>4. z = x - k /\ x <= y /\ y <= len + k - 1 /\ z \in Nat
        BY <2>2, <3>2, <3>3, <4>1, <4>2, <4>3
      <4>5. a = z + 1 /\ b = IF x < len THEN x ELSE len
        BY <4>1, <4>3
      <4> HIDE DEF a, b, k
      <4> QED
        BY <1>1, <2>1, <4>4, <4>5
    <3> HIDE DEF a, b
    <3>6. SubSeq(arr, a, b) # <<>>
      BY <1>2, <3>5
    <3> QED
      BY <3>6 DEF a, b
  <2> QED
    BY <2>2, <2>3, <2>4
<1>5. CASE ~c.once /\ ~(c.serial > 0)
  <2>1. clients # <<>>
    BY <1>1, <1>2 DEF clients
  <2> QED
    BY <1>5, <2>1 DEF ClientGroups
<1> QED
  BY <1>3, <1>4, <1>5

LEMMA TasksFilled ==
    ASSUME ConnInv, NEW c \in Command, ~TasksPanic(c), len > 0
    PROVE  \A t \in 1 .. Len(TasksOf(c)) : TasksOf(c)[t].cs # <<>>
<1> DEFINE S == IF HasScript(c) THEN Spread("script", c) ELSE <<>>
           L == IF c.local THEN << [kind |-> "local", cs |-> <<LocalClient>>] >> ELSE <<>>
           R == IF HasRun(c) THEN Spread("run", c) ELSE <<>>
           Filled == {t \in Task : t.cs # <<>>}
<1>1. ClientGroups(c) \in Seq(Groups) /\ Len(ClientGroups(c)) \in Nat
  BY ClientGroupsOnce DEF ConnInv, ConnTypeOK
<1>2. ASSUME NEW kind \in {"script", "run"} PROVE Spread(kind, c) \in Seq(Filled)
  <2>1. \A g \in 1 .. Len(ClientGroups(c)) :
            [kind |-> kind, cs |-> ClientGroups(c)[g]] \in Filled
    <3>1. TAKE g \in 1 .. Len(ClientGroups(c))
    <3>2. ClientGroups(c)[g] \in Groups
      BY <1>1, <3>1
    <3>3. ClientGroups(c)[g] # <<>>
      BY <3>1, GroupsFilled
    <3>4. ClientGroups(c)[g] \in Seq(Client)
      BY <3>2 DEF Groups
    <3> QED
      BY <1>2, <3>3, <3>4 DEF Task
  <2> HIDE DEF Filled
  <2> QED
    BY <1>1, <2>1 DEF Spread
<1>3. L \in Seq(Filled)
  <2>1. [kind |-> "local", cs |-> <<LocalClient>>] \in Filled
    BY DEF Task, Client
  <2> HIDE DEF Filled
  <2> QED
    BY <2>1
<1>4. S \in Seq(Filled) /\ R \in Seq(Filled)
  <2> HIDE DEF Filled
  <2> QED
    BY <1>2
<1>5. TasksOf(c) = S \o L \o R
  BY DEF TasksOf
<1>6. TasksOf(c) \in Seq(Filled)
  <2> HIDE DEF Filled, S, L, R
  <2> QED
    BY <1>3, <1>4, <1>5
<1>7. ASSUME NEW t \in 1 .. Len(TasksOf(c)) PROVE TasksOf(c)[t].cs # <<>>
  <2>1. TasksOf(c)[t] \in Filled
    BY <1>6
  <2> QED
    BY <2>1
<1> QED
  BY <1>7

LEMMA DoneKept == ASSUME HasHosts, RunInv, DoneInv, [InNext]_inAll PROVE DoneInv'
<1>1. CASE Next
  BY <1>1, DoneStep
<1>2. CASE UNCHANGED vars
  BY <1>2, DoneStutter
<1>3. CASE exit' \in {"error", "abort"}
  BY <1>3 DEF DoneInv, ExitZeroMeansDone
<1> QED
  BY <1>1, <1>2, <1>3, InNextKinds DEF inAll

LEMMA FailedToldStep == ASSUME RunInv, FailedTold, [InNext]_inAll PROVE FailedTold'
<1>1. faults \subseteq faults'
  BY FaultsGrow
<1>2. proc \in [Client -> {"idle", "running", "ok", "failed"}]
  BY DEF RunInv, RunTypeOK
<1>3. ASSUME UNCHANGED proc PROVE FailedTold'
  BY <1>1, <1>3 DEF FailedTold
<1>4. ASSUME Next PROVE FailedTold'
  <2>1. CASE BeginPlay
    BY <2>1 DEF BeginPlay, FailedTold
  <2>2. CASE NextCommand
    BY <1>1, <1>2, <2>2 DEF NextCommand, FailedTold
  <2>3. CASE Launch
    BY <1>1, <1>2, <2>3 DEF Launch, FailedTold
  <2>4. ASSUME NEW c \in Client, Finish(c) PROVE FailedTold'
    <3>1. CASE proc' = [proc EXCEPT ![c] = "ok"]
      BY <1>1, <1>2, <3>1 DEF FailedTold
    <3>2. CASE "command" \in faults'
      BY <3>2 DEF FailedTold
    <3> QED
      BY <2>4, <3>1, <3>2 DEF Finish, Fault
  <2>5. CASE OtherMainStep
    BY <1>3, <2>5 DEF OtherMainStep, PlayRefused, NoCommands, AllPlaysDone,
         ConnectRefused, ConnectAccepted, CreateTasksPanics, CreateTasksFails, CommandsDone,
         CloseClient, CloseFails, PlayDone, TasksDone, NoClients, BeginTask,
         SkipCancelled, UploadFails, DistFails, LaunchDone, RunRejected, RunFails, BuildFails,
         OutputDone, WaitDone, FetchSkipped, FetchOk, FetchFails, FetchDone, sessions, runVars
  <2>6. CASE Connecting
    BY <1>3, <2>6 DEF Connecting, runVars
  <2>7. ASSUME NEW c \in Client, WaitReturns(c) PROVE FailedTold'
    BY <1>3, <2>7 DEF WaitReturns, WaitStopped, WaitFailed, TubeFails, WaitOk, runVars
  <2>8. CASE Terminated
    BY <1>3, <2>8 DEF Terminated, vars, runVars
  <2> QED
    BY <1>4, <2>1, <2>2, <2>3, <2>4, <2>5, <2>6, <2>7, <2>8 DEF Next, MainStep
<1> QED
  BY <1>3, <1>4, InNextKinds DEF inAll, vars, runVars

\* Where nothing failed, Run goes on with a client.
LEMMA AcceptedSome ==
    ASSUME HasHosts, RunInv, DoneInv, faults = {}, ConnectAccepted
    PROVE  len > 0
<1>1. exit = "none" /\ pc = "connect" /\ cphase = "ready"
  BY DEF ConnectAccepted, Alive
<1>2. play \in 1 .. Len(playbook) /\ playbook \in Playbooks
  BY <1>1, CmdFacts DEF RunInv, PlaceOK, RunTypeOK
<1>3. hosts # {} /\ hosts \subseteq Entry
  BY <1>1, <1>2 DEF HasHosts, DoneInv, Done, HostsOfPlay, RunInv, ConnInv, ConnTypeOK
<1>4. \A e \in hosts : conn[e] = "up"
  BY <1>1, <1>3 DEF DoneInv, Done, DownTold, RunInv, ConnInv, AllAnswered
<1>5. Up \subseteq Kept
  BY <1>1, <1>4 DEF RunInv, ConnInv, LostOnlyByName
<1>6. PICK e \in hosts : e \in Kept
  BY <1>3, <1>4, <1>5 DEF Up
<1>7. len \in Nat
  BY DEF RunInv, ConnInv, ConnTypeOK
<1> QED
  BY <1>6, <1>7 DEF Kept

LEMMA CalmRun ==
    ASSUME HasHosts, RunInv, OrderInv, AllStarted, DoneInv, Calm, Next,
           faults = {}, faults' = {}, exit = "none", exit' = "none"
    PROVE  /\ ~ctxDone'
           /\ InPlay' => len' > 0
           /\ pc' \in {"io", "wait", "fetch"} => launched' = Members'
<1> DEFINE Goal == /\ ~ctxDone'
                   /\ InPlay' => len' > 0
                   /\ pc' \in {"io", "wait", "fetch"} => launched' = Members'
<1>0. /\ ~ctxDone
      /\ InPlay => len > 0
      /\ pc \in {"io", "wait", "fetch"} => launched = Members
  BY DEF Calm
<1>1. ~\/ PlayRefused \/ NoCommands \/ AllPlaysDone \/ CreateTasksPanics \/ CreateTasksFails
       \/ CloseFails \/ NoClients \/ RunRejected \/ RunFails \/ BuildFails
       \/ UploadFails \/ DistFails \/ FetchFails
  BY DEF PlayRefused, RunShellcheck, CheckInitialArgs, MergeVars, NoCommands, AllPlaysDone,
       CreateTasksPanics, CreateTasksFails, CloseFails, NoClients, RunRejected, RunFails,
       BuildFails, UploadFails, DistFails, FetchFails, Fault, Stop
<1>2. CASE BeginPlay
  BY <1>2 DEF BeginPlay, InPlay
<1>3. CASE ConnectRefused \/ PlayDone
  BY <1>0, <1>3 DEF ConnectRefused, PlayDone, InPlay
<1>4. CASE ConnectAccepted
  BY <1>0, <1>4, AcceptedSome DEF ConnectAccepted, connVars
<1>5. CASE \/ CommandsDone \/ TasksDone \/ NextCommand \/ BeginTask \/ SkipCancelled \/ Launch
           \/ FetchDone \/ CloseClient
  <2>1. /\ InPlay /\ pc' \in {"command", "task", "launch", "close"}
        /\ UNCHANGED <<ctxDone, len>>
    BY <1>5 DEF CommandsDone, TasksDone, NextCommand, BeginTask, SkipCancelled, Launch, FetchDone,
         CloseClient, AtClient, Alive, InPlay, connVars
  <2> QED
    BY <1>0, <2>1
<1>6. CASE LaunchDone
  <2>1. /\ pc = "launch" /\ cur > Len(CS) /\ InPlay
        /\ UNCHANGED <<tasks, task, launched, ctxDone, len>>
    BY <1>6 DEF LaunchDone, Alive, place, sessions, connVars, InPlay
  <2>2. cur \in Nat /\ Len(CS) \in Nat /\ launched \subseteq Members
    BY <2>1, TaskFacts DEF RunInv, RunTypeOK, ClientsOK, PlaceOK, InTask
  <2>3. \A k \in 1 .. cur - 1 : CS[k] \in launched
    BY <1>0, <2>1 DEF AllStarted
  <2>4. launched = Members
    BY <2>1, <2>2, <2>3 DEF Members
  <2>5. Members' = Members
    BY <2>1 DEF Members, CS
  <2> QED
    BY <1>0, <2>1, <2>4, <2>5
<1>7. CASE OutputDone \/ WaitDone \/ FetchSkipped \/ FetchOk
  <2>1. /\ pc \in {"io", "wait", "fetch"} /\ InPlay
        /\ UNCHANGED <<tasks, task, launched, ctxDone, len>>
    BY <1>7 DEF OutputDone, WaitDone, FetchSkipped, FetchOk, AtFetch, Alive, place, sessions,
         connVars, InPlay
  <2>2. Members' = Members
    BY <2>1 DEF Members, CS
  <2> QED
    BY <1>0, <2>1, <2>2
<1>8. CASE Connecting
  BY <1>0, <1>8 DEF Connecting, Alive, runVars, InPlay
<1>9. ASSUME NEW c \in Client, Finish(c) \/ WaitOk(c) PROVE Goal
  <2>1. UNCHANGED <<pc, tasks, task, launched, ctxDone, len>>
    BY <1>9 DEF Finish, WaitOk, place, connVars, connPhase
  <2>2. Members' = Members /\ InPlay' = InPlay
    BY <2>1 DEF Members, CS, InPlay
  <2> QED
    BY <1>0, <2>1, <2>2
<1>10. ASSUME NEW c \in Client, WaitStopped(c) \/ WaitFailed(c) \/ TubeFails(c) PROVE FALSE
  BY <1>10 DEF WaitStopped, WaitFailed, TubeFails, Stop
<1>11. ~Terminated
  BY DEF Terminated
<1> QED
  BY <1>1, <1>2, <1>3, <1>4, <1>5, <1>6, <1>7, <1>8, <1>9, <1>10, <1>11
  DEF Next, MainStep, OtherMainStep, WaitReturns

LEMMA CopiesWriters ==
    ASSUME RunInv, OrderInv, NEW f \in feeders, Copies(f), NEW h \in feeders'
    PROVE  \E e \in feeders : h.writers = e.writers
<1>1. f \in Feeder
  BY FeederFacts
<1>2. CASE ReadInput(f)
  <2>1. PICK g : g = [f EXCEPT !.chunk = taken + 1, !.at = 1, !.state = "write"]
    OBVIOUS
  <2>2. g.writers = f.writers
    BY <1>1, <2>1 DEF Feeder
  <2> QED
    BY <1>2, <2>1, <2>2 DEF ReadInput, Becomes
<1>3. CASE InputEnds(f) \/ WriteFails(f)
  <2>1. PICK g : g = [f EXCEPT !.at = 1, !.state = "close"]
    OBVIOUS
  <2>2. g.writers = f.writers
    BY <1>1, <2>1 DEF Feeder
  <2> QED
    BY <1>3, <2>1, <2>2 DEF InputEnds, WriteFails, Becomes
<1>4. CASE WriteChunk(f)
  <2>1. \E g : g.writers = f.writers /\ feeders' = (feeders \ {f}) \cup {g}
    BY <1>4, WriteChunkFacts DEF Successor
  <2> QED
    BY <2>1
<1>5. CASE WriteClose(f)
  <2>1. \E g : g.writers = f.writers /\ feeders' \subseteq (feeders \ {f}) \cup {g}
    BY <1>5, WriteCloseFacts DEF Successor
  <2> QED
    BY <2>1
<1> QED
  BY <1>2, <1>3, <1>4, <1>5 DEF Copies

LEMMA CalmStep ==
    ASSUME HasHosts, RunInv, OrderInv, AllStarted, DoneInv, Calm, [InNext]_inAll
    PROVE  Calm'
<1> SUFFICES ASSUME faults' = {}, exit' = "none"
             PROVE  /\ ~ctxDone'
                    /\ InPlay' => len' > 0
                    /\ pc' \in {"io", "wait", "fetch"} => launched' = Members'
                    /\ \A f \in feeders' : \A k \in 1 .. Len(f.writers) : f.writers[k] # NoPipe
  BY DEF Calm
<1>1. faults = {}
  BY FaultsGrow
<1>2. Next \/ UNCHANGED vars
  BY InputStops DEF inAll
<1>3. exit = "none"
  <2>1. CASE UNCHANGED vars
    BY <2>1 DEF vars, connVars
  <2>2. CASE Next
    <3>1. exit # "none" => exit' = exit
      BY <2>2, Ended DEF vars, connVars
    <3> QED
      BY <3>1
  <2> QED
    BY <1>2, <2>1, <2>2
<1>4. /\ ~ctxDone'
      /\ InPlay' => len' > 0
      /\ pc' \in {"io", "wait", "fetch"} => launched' = Members'
  <2>1. CASE Next
    BY <1>1, <1>3, <2>1, CalmRun
  <2>2. CASE UNCHANGED vars
    BY <1>1, <1>3, <2>2 DEF Calm, vars, connVars, runVars, InPlay, Members, CS
  <2> QED
    BY <1>2, <2>1, <2>2
<1>5. ASSUME NEW f \in feeders', NEW k \in 1 .. Len(f.writers) PROVE f.writers[k] # NoPipe
  <2>1. \A e \in feeders : \A i \in 1 .. Len(e.writers) : e.writers[i] # NoPipe
    BY <1>1, <1>3 DEF Calm
  <2>2. CASE Quiet \/ Moves \/ InLaunch
    BY <2>1, <2>2, InLaunchFacts DEF Quiet, Moves, inVars
  <2>3. CASE LaunchLoopEnds
    <3>1. /\ pc = "launch" /\ pc' = "io" /\ UNCHANGED <<tasks, task, launched>>
          /\ f \notin feeders => f.writers = [i \in 1 .. Len(CS) |-> stdin[CS[i]]]
      BY <2>3, NewFeeder
    <3>2. launched = Members
      BY <1>4, <3>1 DEF Members, CS
    <3>3. CS \in Seq(Client) /\ Len(CS) \in Nat
      BY <3>1, TaskFacts DEF RunInv, PlaceOK, InTask
    <3>4. f \notin feeders => k \in 1 .. Len(CS) /\ f.writers[k] = stdin[CS[k]]
      BY <3>1, <3>3
    <3>5. \A c \in launched : stdin[c] = Own(c)
      BY <3>1 DEF OrderInv, StdinHeld, InTask
    <3>6. \A c : Own(c) # NoPipe
      BY DEF Own, NoPipe
    <3> QED
      BY <2>1, <3>2, <3>4, <3>5, <3>6 DEF Members
  <2>4. ASSUME NEW e \in feeders, Copies(e) PROVE f.writers[k] # NoPipe
    BY <2>1, <2>4, CopiesWriters
  <2>5. ASSUME NEW c \in Client, ReadChunk(c) \/ InFinish(c) PROVE f.writers[k] # NoPipe
    BY <2>1, <2>5 DEF ReadChunk, InFinish
  <2> QED
    BY <2>2, <2>3, <2>4, <2>5, PipeKinds DEF Delivers
<1> QED
  BY <1>4, <1>5

\* Where an invocation may end badly though nothing failed.
BadlyMade ==
    \/ pc = "play" /\ Cmds = <<>>
    \/ pc = "command" /\ TasksPanic(Cmd)
    \/ pc = "launch" /\ ~tty /\ NeedsTerminal(CS[cur])

LEMMA BadlyMadeSame == ASSUME UNCHANGED <<connPhase, runVars, tty>> PROVE BadlyMade' = BadlyMade
<1>1. UNCHANGED <<playbook, play, cmd, tasks, task, cur, pc, len>>
  BY DEF connPhase, runVars
<1>2. Cmds' = Cmds /\ Cmd' = Cmd /\ CS' = CS
  BY <1>1 DEF Cmds, Cmd, CS
<1>3. TasksPanic(Cmd)' = TasksPanic(Cmd) /\ NeedsTerminal(CS[cur])' = NeedsTerminal(CS[cur])
  BY <1>1, <1>2 DEF TasksPanic, NeedsTerminal, Takes
<1> QED
  BY <1>1, <1>2, <1>3 DEF BadlyMade

LEMMA StepBadlyMade ==
    ASSUME RunInv, DoneInv, FailedTold, Calm, Next, exit = "none",
           faults = {}, faults' = {}, exit' \in {"error", "abort"}
    PROVE  BadlyMade /\ UNCHANGED <<connPhase, runVars>>
<1> USE DEF Stop, Fault
<1>1. CASE NoCommands \/ CreateTasksPanics
  BY <1>1 DEF NoCommands, CreateTasksPanics, Alive, BadlyMade
<1>2. CASE NoClients
  <2>1. pc = "task" /\ task <= Len(tasks) /\ CS = <<>>
    BY <1>2 DEF NoClients, Alive
  <2>2. tasks = TasksOf(Cmd) /\ ~TasksPanic(Cmd) /\ len > 0
    BY <2>1 DEF DoneInv, Done, TasksSoFar, InCommand, InPlay, Calm
  <2>3. Cmd \in Command /\ task \in 1 .. Len(tasks)
    BY <2>1, CmdFacts, TaskFacts DEF RunInv, PlaceOK
  <2>4. CS # <<>>
    BY <2>2, <2>3, TasksFilled DEF CS, RunInv
  <2> QED
    BY <2>1, <2>4
<1>3. ASSUME NEW c \in Client, WaitStopped(c) PROVE FALSE
  <2>1. pc = "wait" /\ c \in Members /\ c \notin waited /\ c \notin running
    BY <1>3 DEF WaitStopped, Waiting, Alive, Members
  <2>2. launched = Members
    BY <2>1 DEF Calm
  <2> QED
    BY <2>1, <2>2 DEF RunInv, ClientsOK, InRound
<1>4. ASSUME NEW c \in Client, WaitFailed(c) PROVE FALSE
  BY <1>4 DEF WaitFailed, FailedTold
<1>5. ASSUME Connecting PROVE FALSE
  <2>1. CASE BastionUp \/ BastionDown \/ BastionPanics
    BY <2>1 DEF BastionUp, BastionDown, BastionPanics
  <2>2. ASSUME NEW e \in Entry, HostAnswers(e) PROVE FALSE
    BY <2>2 DEF HostAnswers, HostUp, HostDown, HostUnconfigured, ReportFailure, InventoryPanics
  <2>3. CASE Gathered \/ SweepMiss \/ SweepHit \/ SweepNextName \/ SweepEnds
    BY <2>3 DEF Gathered, SweepMiss, SweepHit, SweepNextName, SweepEnds
  <2>4. CASE SweepOutOfRange
    <3>1. cphase = "sweep" /\ at <= Len(failed)
      BY <2>4 DEF SweepOutOfRange, Sweeping
    <3>2. at \in 1 .. Len(failed)
      BY <3>1 DEF RunInv, ConnInv, ConnTypeOK
    <3>3. PICK e \in hosts : conn[e] = "down"
      BY <3>1, <3>2 DEF RunInv, ConnInv, NamesFailed
    <3>4. e \in Entry
      BY <3>3 DEF RunInv, ConnInv, ConnTypeOK
    <3> QED
      BY <3>3, <3>4 DEF DoneInv, Done, DownTold
  <2> QED
    BY <1>5, <2>1, <2>2, <2>3, <2>4 DEF Connecting, ConnectStep, Sweep
<1>6. ~\/ PlayRefused \/ CreateTasksFails \/ CloseFails \/ RunRejected \/ RunFails \/ BuildFails
       \/ UploadFails \/ DistFails \/ FetchFails \/ \E c \in Client : TubeFails(c)
  BY DEF PlayRefused, RunShellcheck, CheckInitialArgs, MergeVars, CreateTasksFails, CloseFails,
       RunRejected, RunFails, BuildFails, UploadFails, DistFails, FetchFails, TubeFails
<1>7. ~\/ BeginPlay \/ AllPlaysDone \/ ConnectRefused \/ ConnectAccepted \/ CommandsDone
       \/ CloseClient \/ PlayDone \/ TasksDone \/ NextCommand
  BY DEF BeginPlay, StartConnect, AllPlaysDone, ConnectRefused, ConnectAccepted, CommandsDone,
       CloseClient, PlayDone, TasksDone, NextCommand, connVars
<1>8. ~\/ Launch \/ BeginTask \/ SkipCancelled \/ LaunchDone
       \/ OutputDone \/ WaitDone \/ FetchSkipped \/ FetchOk \/ FetchDone
  BY DEF Launch, BeginTask, SkipCancelled, LaunchDone, OutputDone, WaitDone, FetchSkipped,
       FetchOk, FetchDone, connVars
<1>9. ~\E c \in Client : Finish(c) \/ WaitOk(c)
  BY DEF Finish, WaitOk, connVars
<1>10. ~Terminated
  BY DEF Terminated
<1> QED
  BY <1>1, <1>2, <1>3, <1>4, <1>5, <1>6, <1>7, <1>8, <1>9, <1>10
  DEF Next, MainStep, OtherMainStep, WaitReturns

LEMMA FailsNothingStep ==
    ASSUME RunInv, OrderInv, CalmInv, [InNext]_inAll
    PROVE  InputFailsNothing'
<1> SUFFICES ASSUME faults' = {}, exit' \in {"error", "abort"} PROVE BadlyMade'
  BY DEF InputFailsNothing, BadlyMade
<1>1. faults = {} /\ UNCHANGED tty
  BY FaultsGrow, TtyKept
<1>2. CASE UNCHANGED vars
  <2>1. BadlyMade
    BY <1>1, <1>2 DEF CalmInv, InputFailsNothing, BadlyMade, vars, connVars
  <2> QED
    BY <1>1, <1>2, <2>1, BadlyMadeSame DEF vars, connVars, connPhase, sweepVars
<1>3. CASE Next /\ exit = "none"
  <2>1. BadlyMade /\ UNCHANGED <<connPhase, runVars>>
    BY <1>1, <1>3, StepBadlyMade DEF CalmInv
  <2> QED
    BY <1>1, <2>1, BadlyMadeSame
<1>4. CASE Next /\ exit # "none"
  BY <1>2, <1>4, Ended
<1>5. CASE InNext /\ ~Next /\ ~UNCHANGED vars
  <2>1. /\ GetSizeFails \/ \E f \in feeders : WritePanics(f)
        /\ exit = "none" /\ UNCHANGED <<connPhase, runVars>>
    BY <1>5, InputStops
  <2>2. CASE GetSizeFails
    <3>1. BadlyMade
      BY <2>2 DEF GetSizeFails, AtClient, Alive, BadlyMade
    <3> QED
      BY <1>1, <2>1, <3>1, BadlyMadeSame
  <2>3. ASSUME NEW f \in feeders, WritePanics(f) PROVE FALSE
    <3>1. f.at \in 1 .. Len(f.writers) /\ f.writers[f.at] = NoPipe
      BY <2>3, FeederFacts DEF WritePanics, Target
    <3> QED
      BY <1>1, <2>1, <3>1 DEF CalmInv, Calm
  <2> QED
    BY <2>1, <2>2, <2>3
<1> QED
  BY <1>2, <1>3, <1>4, <1>5 DEF inAll

\* For every playbook whose plays have hosts, every input and every capacity of
\* the pipes: with no failure of the environment an invocation ends badly only
\* at a command list or a command that is badly made, or where a remote command
\* with input has no terminal; the goroutine of handleTaskInput never writes to
\* a client without a pipe (src/usecase/run.go:272, 366-392).
THEOREM InputFailsNothingAlways == ASSUME HasHosts PROVE InSpec => []InputFailsNothing
<1>1. InInit => CalmInv
  <2> SUFFICES ASSUME InInit PROVE CalmInv
    OBVIOUS
  <2>1. DoneInv
    BY DoneInit DEF InInit
  <2>2. FailedTold
    BY DEF FailedTold, InInit, Init
  <2>3. Calm /\ InputFailsNothing
    BY DEF Calm, InputFailsNothing, InInit, Init, InPlay
  <2> QED
    BY <2>1, <2>2, <2>3 DEF CalmInv
<1>2. RunInv /\ OrderInv /\ WholeInv /\ CalmInv /\ [InNext]_inAll => CalmInv'
  BY DoneKept, FailedToldStep, CalmStep, FailsNothingStep DEF CalmInv, WholeInv
<1>3. CalmInv => InputFailsNothing
  BY DEF CalmInv
<1> QED
  BY <1>1, <1>2, <1>3, WholeInductive, PTL DEF InSpec
=============================================================================
