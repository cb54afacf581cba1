------------------------------ MODULE TaskInput ------------------------------
(***************************************************************************)
(* Standard input of commands with `stdin: true`.  Run makes a pipe for    *)
(* every command it starts; when the launch loop of a task is over,        *)
(* handleTaskInput (src/usecase/run.go:366-392) starts one goroutine that  *)
(* copies ssup's own input, piece by piece, to the pipes of all the task's *)
(* clients, one after the other, and closes them at the end.  Nobody waits *)
(* for that goroutine: it may outlive its task and meet the next one's.    *)
(* The other steps are those of Stackup.                                   *)
(***************************************************************************)
EXTENDS StackupProperties

CONSTANTS
    Stdin,     \* names of the commands with `stdin: true`
    Reads,     \* names of those that read their input to its end before ending
    Quitters,  \* clients on which a command ends without reading
    Chunks,    \* how many pieces ssup's input has
    Room       \* how many pieces a pipe holds

ASSUME InputAssumption ==
    /\ Stdin \subseteq CmdName /\ Reads \subseteq Stdin
    /\ Quitters \subseteq Client
    /\ Chunks \in Nat /\ Room \in Nat \ {0}

VARIABLES
    tty,      \* ssup's input is a terminal
    taken,    \* how many pieces have been read from it
    pipes,    \* the pipes made so far, by <<play, cmd, task, client>>
    stdin,    \* the pipe in a client's field, or NoPipe
    feeders   \* the copying goroutines

inVars == <<tty, taken, pipes, stdin, feeders>>

NoPipe == <<>>
PipeId == Nat \X Nat \X Nat \X Client
Pipe == [queue : Seq(Nat), got : Seq(Nat), wclosed : BOOLEAN, rclosed : BOOLEAN]

\* writers and clients are what the goroutine was given; made says which client
\* objects these are, chunk and at where it is.
Feeder == [writers : Seq(PipeId \cup {NoPipe}), clients : Seq(Client), made : Seq(Seq(Nat)),
           chunk : Nat, at : Nat, state : {"read", "write", "close"}]

InputTypeOK ==
    /\ tty \in BOOLEAN
    /\ taken \in 0 .. Chunks
    /\ DOMAIN pipes \subseteq PipeId /\ pipes \in [DOMAIN pipes -> Pipe]
    /\ \A p \in DOMAIN pipes : Len(pipes[p].queue) <= Room
    /\ stdin \in [Client -> DOMAIN pipes \cup {NoPipe}]
    /\ feeders \subseteq Feeder

InInit ==
    /\ Init
    /\ tty \in BOOLEAN
    /\ taken = 0 /\ pipes = <<>> /\ feeders = {}
    /\ stdin = [c \in Client |-> NoPipe]

----------------------------------------------------------------------------
(* The main goroutine *)

InBeginPlay ==
    /\ BeginPlay
    /\ stdin' = [c \in Client |-> NoPipe]
    /\ UNCHANGED <<tty, taken, pipes, feeders>>

\* The client of a local part is made anew.
InNextCommand ==
    /\ NextCommand
    /\ stdin' = [stdin EXCEPT ![LocalClient] = NoPipe]
    /\ UNCHANGED <<tty, taken, pipes, feeders>>

Takes == Cmd.name \in Stdin
NeedsTerminal(c) == Takes /\ c \in Remote

\* Mutant of InLaunch: a local client keeps its pipe for tasks with stdin only.
InLaunchRemoteOnly ==
    /\ Launch /\ (NeedsTerminal(CS[cur]) => tty)
    /\ LET c == CS[cur]
           p == <<play, cmd, task, c>>
       IN /\ pipes' = [q \in DOMAIN pipes \cup {p} |->
                          IF q = p THEN [queue |-> <<>>, got |-> <<>>, wclosed |-> FALSE,
                                         rclosed |-> FALSE]
                          ELSE pipes[q]]
          /\ stdin' = IF c \in Remote THEN [stdin EXCEPT ![c] = p] ELSE stdin
    /\ UNCHANGED <<tty, taken, feeders>>

\* Every command has a pipe, with stdin or without.
InLaunch ==
    /\ Launch /\ (NeedsTerminal(CS[cur]) => tty)
    /\ LET c == CS[cur]
           p == <<play, cmd, task, c>>
       IN /\ pipes' = [q \in DOMAIN pipes \cup {p} |->
                          IF q = p THEN [queue |-> <<>>, got |-> <<>>, wclosed |-> FALSE,
                                         rclosed |-> FALSE]
                          ELSE pipes[q]]
          /\ stdin' = [stdin EXCEPT ![c] = p]
    /\ UNCHANGED <<tty, taken, feeders>>

\* A remote client asks for a terminal of the size of ssup's own.
GetSizeFails ==
    /\ AtClient /\ ~ctxDone /\ ~Refuses(CS[cur]) /\ NeedsTerminal(CS[cur]) /\ ~tty
    /\ Stop("error")
    /\ UNCHANGED <<connPhase, faults, runVars, inVars>>

GetHost(c) == IF c \in Entry THEN ClientName[c] ELSE ""

\* Which object a client is: LocalClient is made for a command, the others for
\* a play.
Made(c) == IF c = LocalClient THEN <<play, cmd>> ELSE <<play>>

\* The pipes are those the clients have then, started or not.
HandleTaskInput ==
    IF Takes /\ ~(Len(CS) = 1 /\ GetHost(CS[1]) = "localhost")
      THEN feeders' = feeders \cup
               {[writers |-> [k \in 1 .. Len(CS) |-> stdin[CS[k]]], clients |-> CS,
                 made |-> [k \in 1 .. Len(CS) |-> Made(CS[k])],
                 chunk |-> 0, at |-> 1, state |-> "read"]}
      ELSE UNCHANGED feeders

LaunchLoopEnds ==
    /\ LaunchDone \/ DistFails
    /\ HandleTaskInput
    /\ UNCHANGED <<tty, taken, pipes, stdin>>

InOtherStep ==
    /\ OtherMainStep /\ ~(pc = "launch" /\ pc' = "io")
    /\ UNCHANGED inVars

----------------------------------------------------------------------------
(* The copying goroutine *)

Becomes(f, g) == feeders' = (feeders \ {f}) \cup {g}

ReadInput(f) ==
    /\ f.state = "read" /\ taken < Chunks
    /\ taken' = taken + 1
    /\ Becomes(f, [f EXCEPT !.chunk = taken + 1, !.at = 1, !.state = "write"])
    /\ UNCHANGED <<vars, tty, pipes, stdin>>

\* Mutant of InputEnds: the copy may end when there is nothing to read just now.
InputPauses(f) ==
    /\ f.state = "read"
    /\ Becomes(f, [f EXCEPT !.at = 1, !.state = "close"])
    /\ UNCHANGED <<vars, tty, taken, pipes, stdin>>

InputEnds(f) ==
    /\ f.state = "read" /\ taken = Chunks
    /\ Becomes(f, [f EXCEPT !.at = 1, !.state = "close"])
    /\ UNCHANGED <<vars, tty, taken, pipes, stdin>>

Open(p) == ~pipes[p].wclosed /\ ~pipes[p].rclosed

\* Mutant of Target: the pipe the client has now.
TargetNow(f) == stdin[f.clients[f.at]]

Target(f) == f.writers[f.at]

\* Mutant of WriteChunk: a full pipe is not waited for.
WriteChunkAnyway(f) ==
    /\ f.state = "write" /\ Target(f) # NoPipe /\ Open(Target(f))
    /\ pipes' = [pipes EXCEPT ![Target(f)].queue = Append(@, f.chunk)]
    /\ Becomes(f, IF f.at < Len(f.writers) THEN [f EXCEPT !.at = @ + 1]
                  ELSE [f EXCEPT !.state = "read"])
    /\ UNCHANGED <<vars, tty, taken, stdin>>

\* io.MultiWriter writes to one after the other, and waits for each.
WriteChunk(f) ==
    /\ f.state = "write" /\ Target(f) # NoPipe
    /\ Open(Target(f)) /\ Len(pipes[Target(f)].queue) < Room
    /\ pipes' = [pipes EXCEPT ![Target(f)].queue = Append(@, f.chunk)]
    /\ Becomes(f, IF f.at < Len(f.writers) THEN [f EXCEPT !.at = @ + 1]
                  ELSE [f EXCEPT !.state = "read"])
    /\ UNCHANGED <<vars, tty, taken, stdin>>

\* Mutant of WriteFails: the goroutine returns with the error.
WriteFailsReturns(f) ==
    /\ f.state = "write" /\ Target(f) # NoPipe /\ ~Open(Target(f))
    /\ feeders' = feeders \ {f}
    /\ UNCHANGED <<vars, tty, taken, pipes, stdin>>

\* The first error ends the copy for all of them.
WriteFails(f) ==
    /\ f.state = "write" /\ Target(f) # NoPipe /\ ~Open(Target(f))
    /\ Becomes(f, [f EXCEPT !.at = 1, !.state = "close"])
    /\ UNCHANGED <<vars, tty, taken, pipes, stdin>>

\* A client that was never started has no pipe: the call panics.
WritePanics(f) ==
    /\ f.state = "write" /\ Target(f) = NoPipe
    /\ Stop("abort")
    /\ UNCHANGED <<connPhase, faults, runVars, inVars>>

\* WriteClose closes the pipe the client has by then.  A client of an earlier
\* play or local part is an object of its own, with nothing running.
WriteClose(f) ==
    /\ f.state = "close"
    /\ LET c == f.clients[f.at] IN
         pipes' = IF f.made[f.at] = Made(c) /\ stdin[c] # NoPipe
                    THEN [pipes EXCEPT ![stdin[c]].wclosed = TRUE] ELSE pipes
    /\ IF f.at < Len(f.clients) THEN Becomes(f, [f EXCEPT !.at = @ + 1])
                                ELSE feeders' = feeders \ {f}
    /\ UNCHANGED <<vars, tty, taken, stdin>>

Feed(f) ==
    /\ exit = "none"
    /\ ReadInput(f) \/ InputEnds(f) \/ WriteChunk(f) \/ WriteFails(f) \/ WritePanics(f)
       \/ WriteClose(f)

----------------------------------------------------------------------------
(* The commands *)

\* The pipe of the running command.
Own(c) == <<play, cmd, task, c>>
Reader(c) == Cmd.name \in Reads /\ c \notin Quitters

ReadChunk(c) ==
    /\ exit = "none" /\ proc[c] = "running" /\ Reader(c) /\ pipes[Own(c)].queue # <<>>
    /\ pipes' = [pipes EXCEPT ![Own(c)].got = Append(@, Head(pipes[Own(c)].queue)),
                              ![Own(c)].queue = Tail(@)]
    /\ UNCHANGED <<vars, tty, taken, stdin, feeders>>

\* A reader ends well only at the end of its input.
InFinish(c) ==
    /\ Finish(c)
    /\ (Reader(c) /\ proc'[c] = "ok") =>
            pipes[Own(c)].queue = <<>> /\ pipes[Own(c)].wclosed
    /\ pipes' = [pipes EXCEPT ![Own(c)].rclosed = TRUE]
    /\ UNCHANGED <<tty, taken, stdin, feeders>>

----------------------------------------------------------------------------

InMainStep == InBeginPlay \/ InNextCommand \/ InLaunch \/ GetSizeFails \/ LaunchLoopEnds \/ InOtherStep

InNext ==
    \/ InMainStep
    \/ Connecting /\ UNCHANGED inVars
    \/ \E f \in feeders : Feed(f)
    \/ \E c \in Client : ReadChunk(c) \/ InFinish(c) \/ (WaitReturns(c) /\ UNCHANGED inVars)
    \/ Terminated /\ UNCHANGED inVars

inAll == <<vars, inVars>>

InSpec == InInit /\ [][InNext]_inAll

\* As for Stackup; ssup's input goes on until it ends, and a command that reads
\* to the end of its input ends when it has.
InFairness ==
    /\ WF_inAll(InMainStep)
    /\ WF_inAll(/\ Alive("connect")
                /\ BastionUp \/ BastionDown \/ BastionPanics \/ Gathered \/ Sweep
                /\ UNCHANGED <<runVars, inVars>>)
    /\ \A e \in Entry : WF_inAll(Alive("connect") /\ HostAnswers(e) /\ UNCHANGED <<runVars, inVars>>)
    /\ WF_inAll(\E f \in feeders : Feed(f))
    /\ \A c \in Client :
         /\ WF_inAll(ReadChunk(c))
         /\ WF_inAll(InFinish(c) /\ proc'[c] = "ok")
         /\ WF_inAll(WaitReturns(c) /\ UNCHANGED inVars)

InFairSpec == InSpec /\ InFairness

----------------------------------------------------------------------------

TaskOfPipe(p) == <<p[1], p[2], p[3]>>
TakesInput(p) == playbook[p[1]].cmds[p[2]].name \in Stdin
Fed == {p \in DOMAIN pipes : TakesInput(p)}
Delivered(p) == pipes[p].got \o pipes[p].queue
Precedes(p, q) ==
    \/ p[1] < q[1]
    \/ p[1] = q[1] /\ p[2] < q[2]
    \/ p[1] = q[1] /\ p[2] = q[2] /\ p[3] < q[3]

\* No task with stdin came before the one of this pipe.
FirstFed(p) == \A q \in Fed : ~Precedes(q, p)

\* Commands of one task are fed the same input from its start, none more than a
\* piece ahead of another; and what an earlier task's command was given is never
\* given again, nor after what a later one was given, though the goroutine of
\* the earlier task may still be reading (run.go:373-390).
InputInOrder ==
    /\ \A p \in Fed : FirstFed(p) =>
          /\ Delivered(p) = [k \in 1 .. Len(Delivered(p)) |-> k]
          /\ \A q \in Fed : TaskOfPipe(q) = TaskOfPipe(p) =>
                Len(Delivered(q)) <= Len(Delivered(p)) + 1
    /\ \A p, q \in Fed : \A i \in DOMAIN Delivered(p), j \in DOMAIN Delivered(q) :
          (Precedes(p, q) \/ (p = q /\ i < j)) => Delivered(p)[i] < Delivered(q)[j]

\* Status 0 means the whole input was read: in the first task with stdin, by
\* every command that reads to the end of it, if none of the task's commands
\* ends without reading (run.go:378-387).
InputWhole ==
    exit = "ok" =>
        \A p \in Fed :
            ( /\ FirstFed(p) /\ playbook[p[1]].cmds[p[2]].name \in Reads
              /\ \A q \in Fed : TaskOfPipe(q) = TaskOfPipe(p) => q[4] \notin Quitters )
            => Len(pipes[p].got) = Chunks

\* Input makes no invocation fail by itself: with no failure of the environment
\* and no refused second session ssup ends badly only where it does without
\* input, or where a remote command asks for a terminal and there is none.  In
\* particular the goroutine never finds a client without a pipe (run.go:272,
\* 379).
InputFailsNothing ==
    (faults = {} /\ exit \in {"error", "abort"}) =>
        \/ pc = "play" /\ Cmds = <<>>
        \/ pc = "command" /\ TasksPanic(Cmd)
        \/ pc = "launch" /\ ~tty /\ NeedsTerminal(CS[cur])
=============================================================================
