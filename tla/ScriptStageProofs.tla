-------------------------- MODULE ScriptStageProofs --------------------------
(***************************************************************************)
(* ScriptStage takes the start and the run of a command apart into files   *)
(* and shell steps.  Seen from the playbook nothing changes: every         *)
(* behaviour of it is one of Stackup, and so has all that is proved there. *)
(***************************************************************************)
EXTENDS ScriptStage, StackupProofs

LEMMA StartedLaunches == ASSUME NEW c \in Client, StLaunch(c) \/ PasswordLost(c) PROVE Next
BY DEF StLaunch, PasswordLost, Started, Next, MainStep

LEMMA ShellStep == ASSUME NEW c \in Client, Shell(c) PROVE [Next]_vars
<1>1. CASE StFinish(c)
  BY <1>1 DEF StFinish, Next
<1>2. CASE ~StFinish(c)
  <2>1. UNCHANGED vars
    BY <1>2 DEF Shell, ReadPassword, RemovePassword, SourceEnv, RunScript, ScriptGone, CleanUp
  <2> QED
    BY <2>1
<1> QED
  BY <1>1, <1>2

LEMMA StagingStep ==
    ASSUME NEW c \in Client, Skip(c) \/ SkippingHost(c) \/ CreateFile(c) \/ WriteFile(c)
    PROVE  UNCHANGED vars
BY DEF Skip, SkippingHost, CreateFile, WriteFile

\* A step of the staged invocation is one of the invocation, or none.
LEMMA StepImplements == ASSUME StNext PROVE [Next]_vars
<1>1. CASE StageFails \/ StartFails
  BY <1>1 DEF StageFails, StartFails, Next, MainStep, OtherMainStep
<1>2. CASE StOtherStep
  BY <1>2 DEF StOtherStep, Next, MainStep
<1>3. CASE Terminated
  BY <1>3 DEF Next
<1>4. ASSUME NEW c \in Client, WaitReturns(c) PROVE Next
  BY <1>4 DEF Next
<1> QED
  BY <1>1, <1>2, <1>3, <1>4, StartedLaunches, ShellStep, StagingStep DEF StNext

\* The staging of files and the shell lines on the hosts implement the started
\* and ended commands of Stackup: FormatCommandBasedOnSudo adds no way for an
\* invocation to go on, end or fail (src/usecase/run.go:203-283).
THEOREM StagedImplements == StSpec => Spec
<1>1. StInit => Init
  BY DEF StInit
<1>2. [StNext]_<<vars, stVars>> => [Next]_vars
  BY StepImplements
<1> QED
  BY <1>1, <1>2, PTL DEF StSpec, Spec

\* With its files and shells an invocation still runs in lock step: no shell line
\* of a task is started before every client of the task before has succeeded.
THEOREM StagedLockStepped == StSpec => LockStepped
BY StagedImplements, LockStepImplemented

\* With its files and shells an invocation still forgets no failure that a
\* shell line reported.
THEOREM StagedFailureReported == StSpec => []FailureReported
BY StagedImplements, FailureReportedAlways

----------------------------------------------------------------------------
(* The inductive invariant: what lies in the homes while a task is started  *)
(* and run, and what the lines have read of it.                             *)

Own == RunText(Cmd.name, tasks[task].kind)

\* The set's files, in their order, and what is to be put into each.
FileAt == <<"run", "env", "commands", "pass">>
Index == [run |-> 1, env |-> 2, commands |-> 3, pass |-> 4]
TextOf(c, f) == CASE f = "run" -> Own
                  [] f = "env" -> EnvText(Cmd.name, c)
                  [] f = "commands" -> <<"commands">>
                  [] f = "pass" -> <<"pass">>

InStaging == staged > 0 \/ open

StagingPlace ==
    InStaging => /\ pc = "launch" /\ cur <= Len(CS)
                 /\ staged <= Len(Set(CS[cur]))
                 /\ open => staged < Len(Set(CS[cur]))

\* A command that has ended was a shell line that ran to its end; before it
\* cleans up it has met no failure.
LinesEnded ==
    /\ \A c \in Client : step[c] \in {"password", "rm", "source", "exec"} => status[c] = "ok"
    /\ \A c \in Client : proc[c] \in {"ok", "failed"} => step[c] = "done" /\ status[c] = proc[c]
    /\ InTask => \A c \in waited : proc[c] = "ok"

StagingIn(h) == InStaging /\ HomeOf[CS[cur]] = h
LineIn(h) == \E c \in launched : HomeOf[c] = h

\* A home is clean when all lines that were started in it have ended well.
LinesClean ==
    "pass" \notin stageFaults =>
        \A h \in Home :
            ( /\ LineIn(h) /\ ~StagingIn(h)
              /\ \A c \in launched : HomeOf[c] = h => step[c] = "done" /\ status[c] = "ok" )
            => \A f \in File : disk[h][f] = NoFile

\* What lies in the homes.
FilesKnown ==
    "pass" \notin stageFaults =>
        \A h \in Home, f \in File :
            \/ disk[h][f] \in {NoFile, left[h][f]}
            \/ /\ InTask /\ (LineIn(h) \/ StagingIn(h))
               /\ \E c \in Members : HomeOf[c] = h /\ disk[h][f] = TextOf(c, f)
            \/ /\ open /\ HomeOf[CS[cur]] = h /\ f = FileAt[staged + 1]
               /\ disk[h][f] = Truncated

\* What a running line can have run.
ScriptsKnown ==
    (exit = "none" /\ "pass" \notin stageFaults) =>
        \A c \in Client : proc[c] = "running" =>
            executed[c] \in {NoFile, Truncated, Own, left[HomeOf[c]]["run"]}

\* The steps before a line reads a file.
Before(f) == CASE f = "run" -> {"password", "rm", "source", "exec"}
               [] f = "env" -> {"password", "rm", "source"}
               [] f = "pass" -> {"password", "rm"}
               [] f = "commands" -> {}

Puts(c) == pc = "launch" /\ cur <= Len(CS) /\ c = CS[cur]
Pending(c, f) == c \in launched /\ step[c] \in Before(f)
Awaits(c, f) == (Puts(c) /\ staged >= Index[f]) \/ Pending(c, f)

AloneFiles ==
    (InTask /\ "pass" \notin stageFaults) =>
        \A c \in Members : Alone(c) =>
            /\ Puts(c) /\ open => disk[HomeOf[c]][FileAt[staged + 1]] = Truncated
            /\ \A f \in File : Awaits(c, f) =>
                /\ Sudo /\ stageFaults = {} => disk[HomeOf[c]][f] # NoFile
                /\ Fresh(c, f, TextOf(c, f)) => disk[HomeOf[c]][f] \in {TextOf(c, f), NoFile}

RanAlone(c) ==
    (Alone(c) /\ (Sudo => stageFaults = {}) /\ status[c] = "ok") =>
        /\ Fresh(c, "run", Own) /\ step[c] \in {"clean", "done"} => executed[c] = Own
        /\ Fresh(c, "env", TextOf(c, "env")) /\ step[c] \in {"exec", "clean", "done"}
               => sourced[c] = TextOf(c, "env")

AloneRan == (InTask /\ "pass" \notin stageFaults) => \A c \in launched : RanAlone(c)

Shares(c) == c \in Members \cap Remote /\ Fresh(c, "run", Own)

SharedFiles ==
    (InTask /\ stageFaults = {} /\ ~Sudo) =>
        \A c \in Client : Shares(c) =>
            LET script == disk[HomeOf[c]]["run"]
                sole == \A d \in launched : HomeOf[d] = HomeOf[c] => d = c
            IN /\ Awaits(c, "run") => script \in {Own, NoFile, Truncated}
               /\ Paired(c) /\ Awaits(c, "run") =>
                    /\ script \in {Own, NoFile}
                    /\ sole => script = Own
               /\ Paired(c) /\ Puts(c) /\ staged = 0 /\ open =>
                    /\ script \in {Truncated, NoFile}
                    /\ sole => script = Truncated
                    /\ \A d \in launched : HomeOf[d] = HomeOf[c] => step[d] \notin Before("run")

RanShared(c) ==
    (Shares(c) /\ step[c] \in {"clean", "done"} /\ status[c] = "ok") =>
        executed[c] = Own \/ (executed[c] = Truncated /\ ~Paired(c))

SharedRan == (InTask /\ stageFaults = {} /\ ~Sudo) => \A c \in launched : RanShared(c)

StInv ==
    /\ ScriptStageTypeOK
    /\ StagingPlace
    /\ LinesEnded
    /\ LinesClean
    /\ FilesKnown
    /\ ScriptsKnown
    /\ AloneFiles
    /\ AloneRan
    /\ SharedFiles
    /\ SharedRan

----------------------------------------------------------------------------
(* what the steps know *)

LEMMA Texts ==
    /\ \A nm \in CmdName, k \in Kind : RunText(nm, k) \in Text
    /\ \A nm \in CmdName, c \in Client : EnvText(nm, c) \in Text
    /\ <<"commands">> \in Text /\ <<"pass">> \in Text
    /\ Text \subseteq Content /\ NoFile \in Content /\ Truncated \in Content
    /\ \A x \in OldText : x \in Content
BY DEF Text, Content

LEMMA NotEmpty ==
    /\ Truncated # NoFile
    /\ \A c, f : f \in File => TextOf(c, f) # NoFile
    /\ Own # Truncated
BY DEF Truncated, NoFile, TextOf, File, Own, RunText, EnvText

\* The texts of a task, and who shares homes in it, are those of its command.
LEMMA TaskSame ==
    ASSUME UNCHANGED <<playbook, play, cmd, tasks, task>>
    PROVE  /\ CS' = CS /\ Members' = Members /\ TaskClients' = TaskClients
           /\ Sudo' = Sudo /\ Own' = Own /\ Cmd' = Cmd
           /\ \A c, f : TextOf(c, f)' = TextOf(c, f)
           /\ \A c : Mates(c)' = Mates(c) /\ (Alone(c)' <=> Alone(c)) /\ (Paired(c)' <=> Paired(c))
           /\ \A c : Set(c)' = Set(c)
BY DEF CS, Members, TaskClients, Sudo, Own, Cmd, Cmds, TextOf, Mates, Alone, Paired, Set

\* The set put on a client, file by file.
LEMMA SetFacts ==
    ASSUME staged \in 0 .. 4, NEW c
    PROVE  /\ Len(Set(c)) = IF Sudo THEN 4 ELSE 3
           /\ staged < Len(Set(c)) =>
                /\ NextFile(c) = FileAt[staged + 1] /\ NextFile(c) \in File
                /\ NextText(c) = TextOf(c, NextFile(c))
                /\ Index[NextFile(c)] = staged + 1
<1> DEFINE first == << <<"run", Own>>, <<"env", EnvText(Cmd.name, c)>>, <<"commands", <<"commands">> >> >>
           last == IF Sudo THEN << <<"pass", <<"pass">> >> >> ELSE <<>>
           parts == {first[1], first[2], first[3], <<"pass", <<"pass">> >>}
<1>a. first \in Seq(parts) /\ Len(first) = 3
  <2>1. Len(first) = 3 /\ \A i \in 1 .. 3 : first[i] \in parts
    OBVIOUS
  <2>2. first = [i \in 1 .. 3 |-> first[i]]
    OBVIOUS
  <2> HIDE DEF first, parts
  <2> QED
    BY <2>1, <2>2
<1>b. last \in Seq(parts) /\ Len(last) = IF Sudo THEN 1 ELSE 0
  <2> HIDE DEF first
  <2>1. CASE Sudo
    <3>1. last = << <<"pass", <<"pass">> >> >> /\ <<"pass", <<"pass">> >> \in parts
      BY <2>1
    <3> HIDE DEF last, parts
    <3> QED
      BY <2>1, <3>1
  <2>2. CASE ~Sudo
    <3>1. last = <<>>
      BY <2>2
    <3> HIDE DEF last, parts
    <3> QED
      BY <2>2, <3>1
  <2> QED
    BY <2>1, <2>2
<1>c. Set(c) = first \o last
  BY DEF Set, Own
<1>d. Sudo => last[1] = <<"pass", <<"pass">> >>
  BY DEF last
<1> HIDE DEF last, parts
<1>2. /\ Len(Set(c)) = IF Sudo THEN 4 ELSE 3
      /\ \A i \in 1 .. Len(Set(c)) : Set(c)[i] = IF i <= 3 THEN first[i] ELSE last[i - 3]
  <2> HIDE DEF first
  <2>1. /\ Len(first \o last) = Len(first) + Len(last)
        /\ \A i \in 1 .. Len(first) + Len(last) :
               (first \o last)[i] = IF i <= Len(first) THEN first[i] ELSE last[i - Len(first)]
    BY <1>a, <1>b, ConcatProperties
  <2> QED
    BY <1>a, <1>b, <1>c, <2>1
<1>1. /\ Set(c)[1] = first[1] /\ Set(c)[2] = first[2] /\ Set(c)[3] = first[3]
      /\ Sudo => Set(c)[4] = <<"pass", <<"pass">> >>
  <2>1. 1 \in 1 .. Len(Set(c)) /\ 2 \in 1 .. Len(Set(c)) /\ 3 \in 1 .. Len(Set(c))
    BY <1>2
  <2>2. Sudo => 4 \in 1 .. Len(Set(c)) /\ Set(c)[4] = last[1]
    BY <1>2
  <2> QED
    BY <1>2, <1>d, <2>1, <2>2
<1>3. staged \in {0, 1, 2, 3, 4}
  OBVIOUS
<1>4. CASE staged = 0
  BY <1>1, <1>2, <1>4 DEF NextFile, NextText, FileAt, Index, TextOf, File
<1>5. CASE staged = 1
  BY <1>1, <1>2, <1>5 DEF NextFile, NextText, FileAt, Index, TextOf, File
<1>6. CASE staged = 2
  BY <1>1, <1>2, <1>6 DEF NextFile, NextText, FileAt, Index, TextOf, File
<1>7. CASE staged = 3
  BY <1>1, <1>2, <1>7 DEF NextFile, NextText, FileAt, Index, TextOf, File
<1>8. CASE staged = 4
  BY <1>2, <1>8
<1> QED
  BY <1>2, <1>3, <1>4, <1>5, <1>6, <1>7, <1>8

\* Each file has one place in the set.
LEMMA Places ==
    /\ \A i, k \in 1 .. 4 : FileAt[i] = FileAt[k] => i = k
    /\ \A f \in File : Index[f] \in 1 .. 4 /\ FileAt[Index[f]] = f
BY DEF FileAt, Index, File

\* The client that is being started was not started before in its task.
LEMMA StartingFacts ==
    ASSUME RunInv, NEW c \in Client, Starting(c)
    PROVE  /\ exit = "none" /\ pc = "launch" /\ InTask /\ Puts(c)
           /\ cur \in 1 .. Len(CS) /\ CS[cur] = c
           /\ c \in Members /\ Members \subseteq Client /\ TaskClients = Members
           /\ launched \subseteq Members /\ c \notin launched /\ waited = {}
<1> USE DEF RunInv, Starting, AtClient, Alive
<1>1. InTask /\ pc = "launch" /\ exit = "none" /\ c = CS[cur] /\ c \notin running
  BY DEF InTask, Refuses
<1>2. cur \in 1 .. Len(CS) /\ Members \subseteq Client
  BY <1>1, TaskFacts DEF PlaceOK, RunTypeOK
<1>3. launched \subseteq Members /\ waited = {} /\ running = launched \ waited
  BY <1>1 DEF ClientsOK, InRound
<1> QED
  BY <1>1, <1>2, <1>3 DEF Members, Puts, TaskClients

\* A line that runs is one of the task's.
LEMMA LineFacts ==
    ASSUME RunInv, NEW c \in Client, NEW where, At(c, where)
    PROVE  /\ exit = "none" /\ InTask /\ pc \in {"launch", "io"}
           /\ c \in launched /\ launched \subseteq Members /\ Members \subseteq Client
           /\ c \in Members /\ TaskClients = Members
           /\ proc[c] = "running" /\ step[c] = where
<1> USE DEF RunInv, At
<1>1. c \in launched /\ pc \in {"launch", "io"}
  BY DEF NothingLeftBehind
<1>2. InTask
  BY <1>1 DEF InTask
<1>3. launched \subseteq Members
  BY <1>2 DEF ClientsOK
<1>4. Members \subseteq Client
  BY <1>2, TaskFacts DEF PlaceOK
<1> QED
  BY <1>1, <1>2, <1>3, <1>4 DEF TaskClients, Members

\* No client is started twice in a task.
LEMMA PutsOnce ==
    ASSUME RunInv, NEW c \in launched PROVE ~Puts(c)
<1> SUFFICES ASSUME Puts(c) PROVE FALSE
  OBVIOUS
<1>1. pc = "launch" /\ cur <= Len(CS) /\ c = CS[cur] /\ InTask
  BY DEF Puts, InTask
<1>2. CS \in Seq(Client) /\ Once(CS) /\ cur \in Nat \ {0}
  BY <1>1, TaskFacts DEF RunInv, PlaceOK, RunTypeOK
<1>3. PICK k \in 1 .. cur - 1 : CS[k] = c
  BY <1>1 DEF RunInv, ClientsOK
<1>4. k \in 1 .. Len(CS) /\ cur \in 1 .. Len(CS) /\ k # cur
  BY <1>1, <1>2, <1>3
<1> QED
  BY <1>1, <1>2, <1>3, <1>4 DEF Once

----------------------------------------------------------------------------
(* Steps of the playbook: what is staged, and what lines have read, stays.  *)

\* Steps that stay in their task, or outside of tasks.
LEMMA SameTaskStep ==
    ASSUME RunInv, StInv, UNCHANGED stVars,
           UNCHANGED <<playbook, play, cmd, tasks, task, launched>>,
           InTask' <=> InTask, InStaging => UNCHANGED <<pc, cur>>,
           exit' = "none" => exit = "none",
           \A c \in Client : proc'[c] = "running" => proc[c] = "running",
           \A c \in Client : proc'[c] \in {"ok", "failed"} => step[c] = "done" /\ status[c] = proc'[c],
           InTask => \A c \in waited' : proc'[c] = "ok"
    PROVE  StInv'
<1> USE DEF StInv, stVars, staging, shell
<1>0. UNCHANGED <<disk, left, staged, open, step, status, sourced, executed, scriptFailed, stageFaults>>
  OBVIOUS
<1>1. /\ CS' = CS /\ Members' = Members /\ Sudo' = Sudo /\ Own' = Own
      /\ \A c, f : TextOf(c, f)' = TextOf(c, f)
      /\ \A c : (Alone(c)' <=> Alone(c)) /\ (Paired(c)' <=> Paired(c)) /\ Set(c)' = Set(c)
  BY TaskSame
<1>2. InStaging' <=> InStaging
  BY <1>0 DEF InStaging
<1>3. \A h : (StagingIn(h)' <=> StagingIn(h)) /\ (LineIn(h)' <=> LineIn(h))
  BY <1>0, <1>1, <1>2 DEF StagingIn, LineIn
<1>4. \A c, f, x : Fresh(c, f, x)' <=> Fresh(c, f, x)
  BY <1>0 DEF Fresh
<1>5. /\ \A c, f : Pending(c, f)' <=> Pending(c, f)
      /\ \A c : Shares(c)' <=> Shares(c)
  BY <1>0, <1>1, <1>4 DEF Pending, Before, Shares
<1>6. \A c : open => (Puts(c)' <=> Puts(c))
  BY <1>1 DEF InStaging, Puts
<1>7. \A c, f : f \in File => (Awaits(c, f)' <=> Awaits(c, f))
  <2>1. \A f \in File : Index[f] \in 1 .. 4
    BY Places
  <2>2. staged \in Nat
    BY DEF ScriptStageTypeOK
  <2>3. CASE InStaging
    BY <1>0, <1>1, <1>5, <2>3 DEF Awaits, Puts
  <2>4. CASE ~InStaging
    <3>1. staged = 0 /\ staged' = 0
      BY <1>0, <2>2, <2>4 DEF InStaging
    <3> QED
      BY <1>5, <2>1, <3>1 DEF Awaits
  <2> QED
    BY <2>3, <2>4
<1>8. ScriptStageTypeOK'
  BY <1>0 DEF ScriptStageTypeOK
<1>9. StagingPlace'
  BY <1>0, <1>1, <1>2 DEF StagingPlace
<1>10. LinesEnded'
  BY <1>0 DEF LinesEnded
<1>11. LinesClean'
  BY <1>0, <1>3 DEF LinesClean
<1>12. FilesKnown'
  <2>1. open => CS[cur]' = CS[cur]
    BY <1>1 DEF InStaging
  <2> QED
    BY <1>0, <1>1, <1>3, <2>1 DEF FilesKnown
<1>13. ScriptsKnown'
  BY <1>0, <1>1 DEF ScriptsKnown
<1>14. AloneFiles'
  BY <1>0, <1>1, <1>4, <1>6, <1>7 DEF AloneFiles
<1>15. AloneRan'
  BY <1>0, <1>1, <1>4 DEF AloneRan, RanAlone
<1>16. SharedFiles'
  BY <1>0, <1>1, <1>5, <1>6, <1>7 DEF SharedFiles, File
<1>17. SharedRan'
  BY <1>0, <1>1, <1>5 DEF SharedRan, RanShared
<1> QED
  BY <1>8, <1>9, <1>10, <1>11, <1>12, <1>13, <1>14, <1>15, <1>16, <1>17

\* Steps from outside of tasks: on, or into a task.
LEMMA BetweenStep ==
    ASSUME RunInv', StInv, UNCHANGED stVars, ~InStaging, ~InTask,
           launched' \in {launched, {}}, InTask' => launched' = {} /\ waited' = {},
           \A c \in Client : proc'[c] \in {proc[c], "idle"}
    PROVE  StInv'
<1> USE DEF StInv, stVars, staging, shell
<1>0. UNCHANGED <<disk, left, staged, open, step, status, sourced, executed, scriptFailed, stageFaults>>
  OBVIOUS
<1>1. ~open /\ staged = 0 /\ ~open' /\ staged' = 0 /\ ~InStaging'
  BY <1>0 DEF InStaging, ScriptStageTypeOK
<1>2. \A h : ~StagingIn(h) /\ ~StagingIn(h)' /\ (LineIn(h)' => LineIn(h) /\ launched' = launched)
  BY <1>1 DEF StagingIn, LineIn, InStaging
<1>3. exit' = "none" => \A c \in Client : proc'[c] # "running"
  BY DEF RunInv, NothingLeftBehind, InTask
<1>4. InTask' => \A c, f : f \in File => ~Awaits(c, f)'
  BY <1>1, Places DEF Awaits, Pending
<1>5. ScriptStageTypeOK'
  BY <1>0 DEF ScriptStageTypeOK
<1>6. StagingPlace'
  BY <1>1 DEF StagingPlace
<1>7. LinesEnded'
  BY <1>0 DEF LinesEnded
<1>8. LinesClean'
  BY <1>0, <1>2 DEF LinesClean
<1>9. FilesKnown'
  BY <1>0, <1>1 DEF FilesKnown
<1>10. ScriptsKnown'
  BY <1>3 DEF ScriptsKnown
<1>11. AloneFiles' /\ AloneRan'
  BY <1>1, <1>4 DEF AloneFiles, AloneRan
<1>12. SharedFiles' /\ SharedRan'
  BY <1>1, <1>4 DEF SharedFiles, SharedRan, File
<1> QED
  BY <1>5, <1>6, <1>7, <1>8, <1>9, <1>10, <1>11, <1>12

\* The end of a task: all its lines have ended well and so cleaned up.
LEMMA TaskEndStep == ASSUME RunInv, RunInv', StInv, UNCHANGED stVars, ~InStaging, FetchDone PROVE StInv'
<1> USE DEF StInv, stVars, staging, shell
<1>0. UNCHANGED <<disk, left, staged, open, step, status, sourced, executed, scriptFailed, stageFaults>>
  OBVIOUS
<1>1. UNCHANGED <<launched, proc>> /\ InTask /\ pc = "fetch" /\ ~InTask' /\ pc' = "task"
  BY DEF FetchDone, Alive, InTask, sessions
<1>2. ~open /\ staged = 0 /\ ~open' /\ staged' = 0 /\ ~InStaging'
  BY <1>0 DEF InStaging, ScriptStageTypeOK
<1>3. \A h : ~StagingIn(h) /\ ~StagingIn(h)' /\ (LineIn(h)' <=> LineIn(h))
  BY <1>1, <1>2 DEF StagingIn, LineIn, InStaging
<1>4. launched = Members /\ waited = Members /\ Members \subseteq Client
  BY <1>1, TaskFacts DEF RunInv, ClientsOK, PlaceOK
<1>5. \A c \in launched : step[c] = "done" /\ status[c] = "ok"
  BY <1>1, <1>4 DEF LinesEnded
<1>6. ScriptStageTypeOK'
  BY <1>0 DEF ScriptStageTypeOK
<1>7. StagingPlace'
  BY <1>2 DEF StagingPlace
<1>8. LinesEnded'
  BY <1>0, <1>1 DEF LinesEnded
<1>9. LinesClean'
  BY <1>0, <1>1, <1>3 DEF LinesClean
<1>10. FilesKnown'
  <2> SUFFICES ASSUME "pass" \notin stageFaults, NEW h \in Home, NEW f \in File
               PROVE  disk[h][f] \in {NoFile, left[h][f]}
    BY <1>0 DEF FilesKnown
  <2>1. LineIn(h) => disk[h][f] = NoFile
    BY <1>3, <1>5 DEF LinesClean
  <2> QED
    BY <1>2, <1>3, <2>1 DEF FilesKnown
<1>11. ScriptsKnown'
  BY <1>1 DEF ScriptsKnown, RunInv, NothingLeftBehind
<1>12. AloneFiles' /\ AloneRan' /\ SharedFiles' /\ SharedRan'
  BY <1>1 DEF AloneFiles, AloneRan, SharedFiles, SharedRan
<1> QED
  BY <1>6, <1>7, <1>8, <1>9, <1>10, <1>11, <1>12

\* While nothing is being staged the main goroutine goes on with the playbook.
LEMMA OtherStep == ASSUME RunInv, RunInv', StInv, StOtherStep PROVE StInv'
<1> USE DEF StOtherStep, Alive
<1>0. UNCHANGED stVars /\ ~InStaging
  BY DEF InStaging, StInv, ScriptStageTypeOK
<1>1. StInv /\ LinesEnded
  BY DEF StInv
<1>2. CASE BeginPlay
  <2>1. ~InTask /\ ~InTask' /\ launched' = {} /\ proc' = [c \in Client |-> "idle"]
    BY <1>2 DEF BeginPlay, InTask
  <2> QED
    BY <1>0, <1>1, <2>1, BetweenStep
<1>3. CASE NextCommand
  <2>1. ~InTask /\ ~InTask' /\ launched' = launched
        /\ proc' = [proc EXCEPT ![LocalClient] = "idle"]
    BY <1>3 DEF NextCommand, InTask
  <2>2. \A c \in Client : proc'[c] \in {proc[c], "idle"}
    BY <2>1 DEF RunInv, RunTypeOK
  <2> QED
    BY <1>0, <1>1, <2>1, <2>2, BetweenStep
<1>4. CASE ConnectRefused \/ ConnectAccepted \/ CommandsDone \/ TasksDone \/ PlayDone
  <2>1. ~InTask /\ ~InTask' /\ launched' = launched /\ proc' = proc
    BY <1>4 DEF ConnectRefused, ConnectAccepted, CommandsDone, TasksDone, PlayDone, InTask, sessions
  <2> QED
    BY <1>0, <1>1, <2>1, BetweenStep
<1>5. CASE BeginTask
  <2>1. ~InTask /\ launched' = {} /\ waited' = {} /\ proc' = proc
    BY <1>5 DEF BeginTask, InTask
  <2> QED
    BY <1>0, <1>1, <2>1, BetweenStep
<1>6. CASE FetchDone
  BY <1>0, <1>1, <1>6, TaskEndStep
<1>7. CASE Connecting
  <2>1. /\ UNCHANGED <<playbook, play, cmd, tasks, task, launched, pc, cur, waited, proc>>
        /\ exit = "none" /\ ~InTask /\ ~InTask'
    BY <1>7 DEF Connecting, runVars, InTask
  <2> QED
    BY <1>0, <1>1, <2>1, SameTaskStep DEF LinesEnded
<1>8. CASE \/ PlayRefused \/ NoCommands \/ AllPlaysDone \/ CreateTasksPanics \/ CreateTasksFails
           \/ NoClients \/ RunRejected \/ RunFails \/ BuildFails \/ CloseFails
  <2>1. /\ UNCHANGED <<playbook, play, cmd, tasks, task, launched, pc, cur, waited, proc>>
        /\ exit = "none"
    BY <1>8 DEF PlayRefused, NoCommands, AllPlaysDone, CreateTasksPanics, CreateTasksFails, NoClients,
       RunRejected, RunFails, BuildFails, CloseFails, AtClient, runVars
  <2> QED
    BY <1>0, <1>1, <2>1, SameTaskStep DEF LinesEnded, InTask
<1>9. CASE \/ SkipCancelled \/ UploadFails \/ DistFails \/ LaunchDone \/ OutputDone \/ WaitDone
           \/ FetchSkipped \/ FetchOk \/ FetchFails \/ CloseClient
  <2>1. /\ UNCHANGED <<playbook, play, cmd, tasks, task, launched, waited, proc>>
        /\ exit = "none" /\ (InTask' <=> InTask)
    BY <1>9 DEF SkipCancelled, UploadFails, DistFails, LaunchDone, OutputDone, WaitDone, FetchSkipped,
       FetchOk, FetchFails, CloseClient, AtClient, AtFetch, inputs, place, sessions, InTask
  <2> QED
    BY <1>0, <1>1, <2>1, SameTaskStep DEF LinesEnded
<1> QED
  BY <1>2, <1>3, <1>4, <1>5, <1>6, <1>7, <1>8, <1>9 DEF OtherMainStep

\* What is staged stays when the invocation stops, or a client is waited for.
LEMMA StopStep ==
    ASSUME RunInv, RunInv', StInv,
           StageFails \/ StartFails \/ (\E c \in Client : WaitReturns(c) /\ UNCHANGED stVars)
           \/ (Terminated /\ UNCHANGED stVars) \/ UNCHANGED <<vars, stVars>>
    PROVE  StInv'
<1>0. UNCHANGED stVars
  BY DEF StageFails, StartFails
<1>1. StInv /\ LinesEnded
  BY DEF StInv
<1>2. CASE StageFails \/ StartFails
  <2>1. /\ UNCHANGED <<playbook, play, cmd, tasks, task, launched, pc, cur, waited, proc>>
        /\ exit = "none"
    BY <1>2 DEF StageFails, StartFails, BuildFails, RunFails, AtClient, Alive, runVars
  <2> QED
    BY <1>0, <1>1, <2>1, SameTaskStep DEF LinesEnded, InTask
<1>3. ASSUME NEW c \in Client, WaitStopped(c) \/ WaitFailed(c) \/ TubeFails(c) PROVE StInv'
  <2>1. /\ UNCHANGED <<playbook, play, cmd, tasks, task, launched, pc, cur, waited, proc>>
        /\ exit = "none"
    BY <1>3 DEF WaitStopped, WaitFailed, TubeFails, Waiting, Alive, runVars
  <2> QED
    BY <1>0, <1>1, <2>1, SameTaskStep DEF LinesEnded, InTask
<1>4. ASSUME NEW c \in Client, WaitOk(c) PROVE StInv'
  <2>1. /\ UNCHANGED <<playbook, play, cmd, tasks, task, launched, pc, cur, proc>>
        /\ exit = "none" /\ waited' = waited \cup {c} /\ proc[c] = "ok"
    BY <1>4 DEF WaitOk, Waiting, Alive, inputs, place
  <2> QED
    BY <1>0, <1>1, <2>1, SameTaskStep DEF LinesEnded, InTask
<1>5. CASE UNCHANGED vars
  <2>1. UNCHANGED <<playbook, play, cmd, tasks, task, launched, pc, cur, waited, proc, exit>>
    BY <1>5 DEF vars, runVars, connVars
  <2> QED
    BY <1>0, <1>1, <2>1, SameTaskStep DEF LinesEnded, InTask
<1> QED
  BY <1>2, <1>3, <1>4, <1>5 DEF WaitReturns, Terminated

\* The end of a shell line is what the client sees of it.
LEMMA FinishStep == ASSUME RunInv, StInv, NEW c \in Client, StFinish(c) PROVE StInv'
<1>1. UNCHANGED stVars /\ StInv /\ LinesEnded
  BY DEF StFinish, StInv
<1>2. /\ UNCHANGED <<playbook, play, cmd, tasks, task, launched, pc, cur, waited>>
      /\ exit = "none" /\ proc[c] = "running" /\ step[c] = "done" /\ proc'[c] = status[c]
      /\ \A d \in Client \ {c} : proc'[d] = proc[d]
  BY DEF StFinish, Finish, inputs, place, RunInv, RunTypeOK
<1>3. status[c] \in {"ok", "failed"}
  BY DEF StInv, ScriptStageTypeOK
<1>4. InTask => c \notin waited /\ waited \subseteq Client
  BY <1>1, <1>2 DEF LinesEnded, RunInv, RunTypeOK
<1> QED
  BY <1>1, <1>2, <1>3, <1>4, SameTaskStep DEF LinesEnded, InTask


----------------------------------------------------------------------------
(* Steps of the shell lines                                                *)

\* A line reads and removes files of its own home only, and those it is still
\* to read it leaves alone.
LineStep(c) ==
    /\ UNCHANGED <<vars, left, staged, open, stageFaults>>
    /\ \A d \in Client \ {c} : /\ step'[d] = step[d] /\ status'[d] = status[d]
                              /\ sourced'[d] = sourced[d] /\ executed'[d] = executed[d]
    /\ \A h \in Home, f \in File : \/ disk'[h][f] = disk[h][f]
                                   \/ h = HomeOf[c] /\ disk'[h][f] = NoFile
    /\ \A f \in File : step'[c] \in Before(f) =>
            step[c] \in Before(f) /\ disk'[HomeOf[c]][f] = disk[HomeOf[c]][f]
    /\ step'[c] \in {"password", "rm", "source", "exec"} => status'[c] = "ok"
    /\ (step'[c] = "done" /\ status'[c] = "ok") => \A f \in File : disk'[HomeOf[c]][f] = NoFile
    /\ executed'[c] \in {executed[c], disk[HomeOf[c]]["run"]}

LEMMA LineStepInv ==
    ASSUME RunInv, StInv, ScriptStageTypeOK', NEW c \in Client, NEW where, At(c, where), LineStep(c),
           "pass" \notin stageFaults => RanAlone(c)', (stageFaults = {} /\ ~Sudo) => RanShared(c)'
    PROVE  StInv'
<1> DEFINE g == HomeOf[c]
<1>0. /\ UNCHANGED <<playbook, play, cmd, tasks, task, launched, pc, cur, proc, waited, exit>>
      /\ UNCHANGED <<left, staged, open, stageFaults>>
  BY DEF LineStep, vars, runVars, connVars
<1>1. /\ CS' = CS /\ Members' = Members /\ Sudo' = Sudo /\ Own' = Own
      /\ \A d, f : TextOf(d, f)' = TextOf(d, f)
      /\ \A d : (Alone(d)' <=> Alone(d)) /\ (Paired(d)' <=> Paired(d)) /\ Set(d)' = Set(d)
  BY <1>0, TaskSame
<1>2. /\ exit = "none" /\ InTask /\ pc \in {"launch", "io"} /\ InTask'
      /\ c \in launched /\ launched \subseteq Members /\ Members \subseteq Client
      /\ c \in Members /\ TaskClients = Members /\ proc[c] = "running"
  BY <1>0, LineFacts DEF InTask
<1>3. ~Puts(c)
  BY <1>2, PutsOnce
<1>4. /\ InStaging' <=> InStaging
      /\ \A h : (StagingIn(h)' <=> StagingIn(h)) /\ (LineIn(h)' <=> LineIn(h))
      /\ \A d, f, x : Fresh(d, f, x)' <=> Fresh(d, f, x)
      /\ \A d : (Puts(d)' <=> Puts(d)) /\ (Shares(d)' <=> Shares(d))
  BY <1>0, <1>1 DEF InStaging, StagingIn, LineIn, Fresh, Puts, Shares
<1>5. \A d \in Members : HomeOf[d] \in Home
  BY <1>2 DEF Home
<1>6. \A d \in Members, f \in File : Awaits(d, f)' =>
          Awaits(d, f) /\ (d = c => disk'[g][f] = disk[g][f])
  BY <1>0, <1>2, <1>3, <1>4 DEF LineStep, Awaits, Pending, Before
<1>7. StagingPlace'
  BY <1>0, <1>1, <1>4 DEF StInv, StagingPlace
<1>8. LinesEnded'
  BY <1>0, <1>2 DEF StInv, LinesEnded, LineStep
<1>9. LinesClean'
  <2> SUFFICES ASSUME "pass" \notin stageFaults, NEW h \in Home, LineIn(h), ~StagingIn(h),
                      \A d \in launched : HomeOf[d] = h => step'[d] = "done" /\ status'[d] = "ok",
                      NEW f \in File
               PROVE  disk'[h][f] = NoFile
    BY <1>0, <1>4 DEF LinesClean
  <2>1. CASE h = g
    BY <1>2, <2>1 DEF LineStep
  <2>2. CASE h # g
    <3>1. \A d \in launched : HomeOf[d] = h => step[d] = "done" /\ status[d] = "ok"
      BY <1>2, <2>2 DEF LineStep
    <3> QED
      BY <2>2, <3>1 DEF StInv, LinesClean, LineStep
  <2> QED
    BY <2>1, <2>2
<1>10. FilesKnown'
  BY <1>0, <1>1, <1>2, <1>4 DEF StInv, FilesKnown, LineStep
<1>11. ScriptsKnown'
  <2> SUFFICES ASSUME "pass" \notin stageFaults, NEW d \in Client, proc[d] = "running"
               PROVE  executed'[d] \in {NoFile, Truncated, Own, left[HomeOf[d]]["run"]}
    BY <1>0, <1>1, <1>2 DEF ScriptsKnown
  <2>1. executed[d] \in {NoFile, Truncated, Own, left[HomeOf[d]]["run"]}
    BY <1>2 DEF StInv, ScriptsKnown
  <2>2. disk[g]["run"] \in {NoFile, Truncated, Own, left[g]["run"]}
    BY <1>2, <1>5 DEF StInv, FilesKnown, File, TextOf
  <2> QED
    BY <2>1, <2>2 DEF LineStep
<1>12. AloneFiles'
  <2> SUFFICES ASSUME "pass" \notin stageFaults, NEW d \in Members, Alone(d)
               PROVE  /\ Puts(d) /\ open => disk'[HomeOf[d]][FileAt[staged + 1]] = Truncated
                      /\ \A f \in File : Awaits(d, f)' =>
                            /\ Sudo /\ stageFaults = {} => disk'[HomeOf[d]][f] # NoFile
                            /\ Fresh(d, f, TextOf(d, f)) => disk'[HomeOf[d]][f] \in {TextOf(d, f), NoFile}
    BY <1>0, <1>1, <1>4 DEF AloneFiles
  <2>1. d # c => \A f \in File : disk'[HomeOf[d]][f] = disk[HomeOf[d]][f]
    BY <1>2, <1>5 DEF Alone, Mates, LineStep
  <2>2. Puts(d) /\ open => FileAt[staged + 1] \in File
    BY SetFacts DEF StInv, ScriptStageTypeOK, StagingPlace, InStaging, Puts
  <2>3. Puts(d) /\ open => disk'[HomeOf[d]][FileAt[staged + 1]] = Truncated
    BY <1>2, <1>3, <2>1, <2>2 DEF StInv, AloneFiles
  <2>4. \A f \in File : Awaits(d, f)' => Awaits(d, f) /\ disk'[HomeOf[d]][f] = disk[HomeOf[d]][f]
    BY <1>6, <2>1
  <2> QED
    BY <1>2, <2>3, <2>4 DEF StInv, AloneFiles
<1>13. AloneRan'
  BY <1>0, <1>1, <1>2, <1>4 DEF StInv, AloneRan, RanAlone, LineStep
<1>14. SharedFiles'
  <2> SUFFICES ASSUME stageFaults = {}, ~Sudo, NEW d \in Client, Shares(d)
               PROVE  LET script == disk'[HomeOf[d]]["run"]
                          sole == \A e \in launched : HomeOf[e] = HomeOf[d] => e = d
                      IN /\ Awaits(d, "run")' => script \in {Own, NoFile, Truncated}
                         /\ Paired(d) /\ Awaits(d, "run")' =>
                              /\ script \in {Own, NoFile}
                              /\ sole => script = Own
                         /\ Paired(d) /\ Puts(d) /\ staged = 0 /\ open =>
                              /\ script \in {Truncated, NoFile}
                              /\ sole => script = Truncated
                              /\ \A e \in launched : HomeOf[e] = HomeOf[d] => step'[e] \notin Before("run")
    BY <1>0, <1>1, <1>4 DEF SharedFiles, Before
  <2>0. d \in Members /\ HomeOf[d] \in Home /\ "run" \in File
    BY <1>5 DEF Shares, File
  <2> DEFINE script == disk[HomeOf[d]]["run"]
             sole == \A e \in launched : HomeOf[e] = HomeOf[d] => e = d
  <2>1. /\ Awaits(d, "run") => script \in {Own, NoFile, Truncated}
        /\ Paired(d) /\ Awaits(d, "run") => script \in {Own, NoFile} /\ (sole => script = Own)
        /\ Paired(d) /\ Puts(d) /\ staged = 0 /\ open =>
              /\ script \in {Truncated, NoFile}
              /\ sole => script = Truncated
              /\ \A e \in launched : HomeOf[e] = HomeOf[d] => step[e] \notin Before("run")
    BY <1>2 DEF StInv, SharedFiles
  <2>2. disk'[HomeOf[d]]["run"] = script \/ (disk'[HomeOf[d]]["run"] = NoFile /\ HomeOf[d] = g)
    BY <2>0 DEF LineStep
  <2>3. (sole /\ (Awaits(d, "run")' \/ Puts(d))) => disk'[HomeOf[d]]["run"] = script
    BY <1>2, <1>3, <1>6, <2>0, <2>2
  <2>4. \A e \in launched : step'[e] \in Before("run") => step[e] \in Before("run")
    BY <1>2, <2>0 DEF LineStep
  <2>5. Awaits(d, "run")' => Awaits(d, "run")
    BY <1>6, <2>0
  <2> HIDE DEF script
  <2> QED
    BY <2>1, <2>2, <2>3, <2>4, <2>5
<1>15. SharedRan'
  BY <1>0, <1>1, <1>2, <1>4 DEF StInv, SharedRan, RanShared, LineStep
<1> QED
  BY <1>7, <1>8, <1>9, <1>10, <1>11, <1>12, <1>13, <1>14, <1>15 DEF StInv

\* What is known before a line takes a step.
LEMMA LineKnows ==
    ASSUME RunInv, StInv, NEW c \in Client, NEW where, At(c, where)
    PROVE  /\ HomeOf[c] \in Home /\ ScriptStageTypeOK
           /\ "pass" \notin stageFaults => RanAlone(c)
           /\ (stageFaults = {} /\ ~Sudo) => RanShared(c)
           /\ where \in {"password", "rm", "source", "exec"} => status[c] = "ok"
           /\ \A f \in File : where \in Before(f) => Awaits(c, f)
           /\ ("pass" \notin stageFaults /\ Alone(c)) => \A f \in File : where \in Before(f) =>
                /\ Sudo /\ stageFaults = {} => Has(c, f)
                /\ Fresh(c, f, TextOf(c, f)) => disk[HomeOf[c]][f] \in {TextOf(c, f), NoFile}
           /\ (stageFaults = {} /\ ~Sudo /\ Shares(c) /\ where \in Before("run")) =>
                /\ disk[HomeOf[c]]["run"] \in {Own, NoFile, Truncated}
                /\ Paired(c) => disk[HomeOf[c]]["run"] \in {Own, NoFile}
<1>1. /\ InTask /\ c \in launched /\ c \in Members /\ step[c] = where
  BY LineFacts
<1>2. \A f \in File : where \in Before(f) => Awaits(c, f)
  BY <1>1 DEF Awaits, Pending
<1>3. HomeOf[c] \in Home /\ ScriptStageTypeOK /\ "run" \in File
  BY DEF Home, StInv, File
<1> QED
  BY <1>1, <1>2, <1>3 DEF StInv, AloneRan, SharedRan, LinesEnded, AloneFiles, SharedFiles, Has

LEMMA ReadPasswordInv == ASSUME RunInv, StInv, NEW c \in Client, ReadPassword(c) PROVE StInv'
<1> USE DEF ReadPassword, GoTo, staging
<1>1. At(c, "password") /\ UNCHANGED vars
  OBVIOUS
<1>2. /\ ScriptStageTypeOK /\ HomeOf[c] \in Home /\ status[c] = "ok"
      /\ UNCHANGED <<left, disk, staged, open, stageFaults, sourced, executed, scriptFailed>>
  BY <1>1, LineKnows
<1>3. /\ step' \in [Client -> {"off", "password", "rm", "source", "exec", "clean", "done"}]
      /\ status' \in [Client -> {"ok", "failed"}]
      /\ \A d \in Client \ {c} : step'[d] = step[d] /\ status'[d] = status[d]
      /\ \/ step'[c] = "rm" /\ status'[c] = "ok"
         \/ step'[c] = "done" /\ status'[c] = "failed"
  BY <1>2 DEF ScriptStageTypeOK
<1>4. ScriptStageTypeOK'
  BY <1>2, <1>3 DEF ScriptStageTypeOK
<1>5. LineStep(c)
  BY <1>1, <1>2, <1>3 DEF LineStep, Before, File, At
<1>6. RanAlone(c)' /\ RanShared(c)'
  BY <1>3 DEF RanAlone, RanShared
<1> QED
  BY <1>1, <1>4, <1>5, <1>6, LineStepInv

LEMMA RemovePasswordInv == ASSUME RunInv, StInv, NEW c \in Client, RemovePassword(c) PROVE StInv'
<1> USE DEF RemovePassword, GoTo
<1>1. At(c, "rm") /\ UNCHANGED vars /\ step[c] = "rm"
  BY DEF At
<1>2. /\ ScriptStageTypeOK /\ HomeOf[c] \in Home /\ status[c] = "ok" /\ "pass" \in File
      /\ UNCHANGED <<left, staged, open, stageFaults, sourced, executed, scriptFailed>>
  BY <1>1, LineKnows DEF File
<1>3. /\ step' \in [Client -> {"off", "password", "rm", "source", "exec", "clean", "done"}]
      /\ status' \in [Client -> {"ok", "failed"}]
      /\ \A d \in Client \ {c} : step'[d] = step[d] /\ status'[d] = status[d]
      /\ \/ step'[c] = "source" /\ status'[c] = "ok"
         \/ step'[c] = "clean" /\ ~Has(c, "pass") /\ status'[c] = IF Sudo THEN "ok" ELSE "failed"
  BY <1>2 DEF ScriptStageTypeOK, Failing
<1>4. /\ disk' \in [Home -> [File -> Content]]
      /\ \A h \in Home, f \in File : \/ disk'[h][f] = disk[h][f]
                                     \/ h = HomeOf[c] /\ f = "pass" /\ disk'[h][f] = NoFile
  BY <1>2, Texts DEF ScriptStageTypeOK
<1>5. ScriptStageTypeOK'
  BY <1>2, <1>3, <1>4 DEF ScriptStageTypeOK
<1>6. LineStep(c)
  BY <1>1, <1>2, <1>3, <1>4 DEF LineStep, Before, File
<1>7. UNCHANGED <<playbook, play, cmd, tasks, task>>
  BY <1>1 DEF vars, runVars
<1>8. /\ Sudo' = Sudo /\ (Alone(c)' <=> Alone(c))
  BY <1>7, TaskSame
<1>9. ("pass" \notin stageFaults /\ Alone(c) /\ Sudo /\ stageFaults = {}) => Has(c, "pass")
  BY <1>1, <1>2, LineKnows DEF Before
<1>10. "pass" \notin stageFaults => RanAlone(c)'
  BY <1>2, <1>3, <1>8, <1>9 DEF RanAlone
<1>11. ~Sudo => RanShared(c)'
  BY <1>3 DEF RanShared
<1> QED
  BY <1>1, <1>5, <1>6, <1>10, <1>11, LineStepInv

LEMMA SourceEnvInv == ASSUME RunInv, StInv, NEW c \in Client, SourceEnv(c) PROVE StInv'
<1> USE DEF SourceEnv, GoTo, staging
<1>1. At(c, "source") /\ UNCHANGED vars /\ step[c] = "source"
  BY DEF At
<1>2. /\ ScriptStageTypeOK /\ HomeOf[c] \in Home /\ status[c] = "ok" /\ "env" \in File
      /\ UNCHANGED <<left, disk, staged, open, stageFaults, executed, scriptFailed>>
  BY <1>1, LineKnows DEF File
<1>3. /\ step' \in [Client -> {"off", "password", "rm", "source", "exec", "clean", "done"}]
      /\ status' \in [Client -> {"ok", "failed"}]
      /\ sourced' \in [Client -> Content]
      /\ \A d \in Client \ {c} : step'[d] = step[d] /\ status'[d] = status[d] /\ sourced'[d] = sourced[d]
      /\ \/ step'[c] = "exec" /\ status'[c] = "ok" /\ Has(c, "env") /\ sourced'[c] = disk[HomeOf[c]]["env"]
         \/ step'[c] = "clean" /\ ~Has(c, "env") /\ status'[c] = IF Sudo THEN "ok" ELSE "failed"
  <2>1. /\ step \in [Client -> {"off", "password", "rm", "source", "exec", "clean", "done"}]
        /\ status \in [Client -> {"ok", "failed"}]
        /\ sourced \in [Client -> Content] /\ disk[HomeOf[c]]["env"] \in Content
    BY <1>2 DEF ScriptStageTypeOK
  <2>2. CASE Has(c, "env")
    BY <1>2, <2>1, <2>2
  <2>3. CASE ~Has(c, "env")
    BY <1>2, <2>1, <2>3 DEF Failing
  <2> QED
    BY <2>2, <2>3
<1>4. ScriptStageTypeOK'
  BY <1>2, <1>3 DEF ScriptStageTypeOK
<1>5. LineStep(c)
  BY <1>1, <1>2, <1>3 DEF LineStep, Before, File
<1>6. UNCHANGED <<playbook, play, cmd, tasks, task>>
  BY <1>1 DEF vars, runVars
<1>7. /\ Sudo' = Sudo /\ (Alone(c)' <=> Alone(c)) /\ TextOf(c, "env")' = TextOf(c, "env")
      /\ (Fresh(c, "env", TextOf(c, "env"))' <=> Fresh(c, "env", TextOf(c, "env")))
  BY <1>2, <1>6, TaskSame DEF Fresh
<1>8. ("pass" \notin stageFaults /\ Alone(c)) =>
        /\ Sudo /\ stageFaults = {} => Has(c, "env")
        /\ Fresh(c, "env", TextOf(c, "env")) => disk[HomeOf[c]]["env"] \in {TextOf(c, "env"), NoFile}
  BY <1>1, <1>2, LineKnows DEF Before
<1>9. "pass" \notin stageFaults => RanAlone(c)'
  BY <1>2, <1>3, <1>7, <1>8 DEF RanAlone, Has
<1>10. ~Sudo => RanShared(c)'
  BY <1>3 DEF RanShared
<1> QED
  BY <1>1, <1>4, <1>5, <1>9, <1>10, LineStepInv

LEMMA RunScriptInv == ASSUME RunInv, StInv, NEW c \in Client, RunScript(c) PROVE StInv'
<1> USE DEF RunScript, GoTo, staging
<1>1. At(c, "exec") /\ Has(c, "run") /\ UNCHANGED vars /\ step[c] = "exec"
  BY DEF At
<1>2. /\ ScriptStageTypeOK /\ HomeOf[c] \in Home /\ status[c] = "ok" /\ "run" \in File
      /\ UNCHANGED <<left, disk, staged, open, stageFaults, sourced>>
  BY <1>1, LineKnows DEF File
<1>3. /\ step' \in [Client -> {"off", "password", "rm", "source", "exec", "clean", "done"}]
      /\ status' \in [Client -> {"ok", "failed"}]
      /\ executed' \in [Client -> Content] /\ scriptFailed' \in [Client -> BOOLEAN]
      /\ \A d \in Client \ {c} : step'[d] = step[d] /\ status'[d] = status[d] /\ executed'[d] = executed[d]
      /\ step'[c] = "clean" /\ executed'[c] = disk[HomeOf[c]]["run"]
  <2>1. /\ step \in [Client -> {"off", "password", "rm", "source", "exec", "clean", "done"}]
        /\ status \in [Client -> {"ok", "failed"}] /\ scriptFailed \in [Client -> BOOLEAN]
        /\ executed \in [Client -> Content] /\ disk[HomeOf[c]]["run"] \in Content
    BY <1>2 DEF ScriptStageTypeOK
  <2>2. /\ status' \in [Client -> {"ok", "failed"}]
        /\ \A d \in Client \ {c} : status'[d] = status[d]
    BY <2>1 DEF Failing
  <2>3. scriptFailed' \in [Client -> BOOLEAN]
    <3>1. CASE UNCHANGED scriptFailed
      BY <2>1, <3>1
    <3>2. CASE scriptFailed' = [scriptFailed EXCEPT ![c] = TRUE]
      BY <2>1, <3>2
    <3> QED
      BY <3>1, <3>2
  <2>4. /\ executed' \in [Client -> Content] /\ executed'[c] = disk[HomeOf[c]]["run"]
        /\ \A d \in Client \ {c} : executed'[d] = executed[d]
    BY <2>1
  <2>5. /\ step' \in [Client -> {"off", "password", "rm", "source", "exec", "clean", "done"}]
        /\ step'[c] = "clean" /\ \A d \in Client \ {c} : step'[d] = step[d]
    BY <2>1
  <2> QED
    BY <2>2, <2>3, <2>4, <2>5
<1>4. ScriptStageTypeOK'
  BY <1>2, <1>3 DEF ScriptStageTypeOK
<1>5. LineStep(c)
  BY <1>1, <1>2, <1>3 DEF LineStep, Before, File
<1>6. UNCHANGED <<playbook, play, cmd, tasks, task>>
  BY <1>1 DEF vars, runVars
<1>7. /\ Sudo' = Sudo /\ Own' = Own /\ (Alone(c)' <=> Alone(c)) /\ (Paired(c)' <=> Paired(c))
      /\ TextOf(c, "env")' = TextOf(c, "env") /\ (Shares(c)' <=> Shares(c))
      /\ \A f, x : Fresh(c, f, x)' <=> Fresh(c, f, x)
  BY <1>2, <1>6, TaskSame DEF Fresh, Shares
<1>8. ("pass" \notin stageFaults /\ Alone(c) /\ Fresh(c, "run", Own)) =>
         disk[HomeOf[c]]["run"] \in {Own, NoFile}
  BY <1>1, <1>2, LineKnows DEF Before, TextOf
<1>9. "pass" \notin stageFaults => RanAlone(c)
  BY <1>1, LineKnows
<1>10. "pass" \notin stageFaults => RanAlone(c)'
  BY <1>1, <1>2, <1>3, <1>7, <1>8, <1>9 DEF RanAlone, Has
<1>11. (stageFaults = {} /\ ~Sudo) => RanShared(c)'
  <2>1. (stageFaults = {} /\ ~Sudo /\ Shares(c)) =>
           /\ disk[HomeOf[c]]["run"] \in {Own, NoFile, Truncated}
           /\ Paired(c) => disk[HomeOf[c]]["run"] \in {Own, NoFile}
    BY <1>1, LineKnows DEF Before
  <2> QED
    BY <1>1, <1>2, <1>3, <1>7, <2>1 DEF RanShared, Has
<1> QED
  BY <1>1, <1>4, <1>5, <1>10, <1>11, LineStepInv

LEMMA ScriptGoneInv == ASSUME RunInv, StInv, NEW c \in Client, ScriptGone(c) PROVE StInv'
<1> USE DEF ScriptGone, GoTo, staging
<1>1. At(c, "exec") /\ ~Has(c, "run") /\ UNCHANGED vars /\ step[c] = "exec"
  BY DEF At
<1>2. /\ ScriptStageTypeOK /\ HomeOf[c] \in Home /\ "run" \in File
      /\ UNCHANGED <<left, disk, staged, open, stageFaults, sourced, executed, scriptFailed>>
  BY <1>1, LineKnows DEF File
<1>3. /\ step' \in [Client -> {"off", "password", "rm", "source", "exec", "clean", "done"}]
      /\ status' \in [Client -> {"ok", "failed"}]
      /\ \A d \in Client \ {c} : step'[d] = step[d] /\ status'[d] = status[d]
      /\ step'[c] = "clean" /\ status'[c] = IF Sudo THEN "ok" ELSE "failed"
  BY <1>2 DEF ScriptStageTypeOK, Failing
<1>4. ScriptStageTypeOK'
  BY <1>2, <1>3 DEF ScriptStageTypeOK
<1>5. LineStep(c)
  BY <1>1, <1>2, <1>3 DEF LineStep, Before, File
<1>6. UNCHANGED <<playbook, play, cmd, tasks, task>>
  BY <1>1 DEF vars, runVars
<1>7. Sudo' = Sudo /\ (Alone(c)' <=> Alone(c))
  BY <1>6, TaskSame
<1>8. ("pass" \notin stageFaults /\ Alone(c) /\ Sudo /\ stageFaults = {}) => Has(c, "run")
  BY <1>1, <1>2, LineKnows DEF Before
<1>9. "pass" \notin stageFaults => RanAlone(c)'
  BY <1>1, <1>2, <1>3, <1>7, <1>8 DEF RanAlone
<1>10. ~Sudo => RanShared(c)'
  BY <1>3 DEF RanShared
<1> QED
  BY <1>1, <1>4, <1>5, <1>9, <1>10, LineStepInv

LEMMA CleanUpInv == ASSUME RunInv, StInv, NEW c \in Client, CleanUp(c) PROVE StInv'
<1> USE DEF CleanUp, GoTo
<1>1. At(c, "clean") /\ UNCHANGED vars /\ step[c] = "clean"
  BY DEF At
<1>2. /\ ScriptStageTypeOK /\ HomeOf[c] \in Home
      /\ UNCHANGED <<left, staged, open, stageFaults, status, sourced, executed, scriptFailed>>
  BY <1>1, LineKnows
<1>3. /\ step' \in [Client -> {"off", "password", "rm", "source", "exec", "clean", "done"}]
      /\ \A d \in Client \ {c} : step'[d] = step[d]
      /\ step'[c] = "done"
  BY <1>2 DEF ScriptStageTypeOK
<1>4. /\ disk' \in [Home -> [File -> Content]]
      /\ \A h \in Home \ {HomeOf[c]} : disk'[h] = disk[h]
      /\ \A f \in File : disk'[HomeOf[c]][f] = NoFile
  BY <1>2, Texts DEF ScriptStageTypeOK
<1>5. ScriptStageTypeOK'
  BY <1>2, <1>3, <1>4 DEF ScriptStageTypeOK
<1>6. LineStep(c)
  BY <1>1, <1>2, <1>3, <1>4 DEF LineStep, Before, File
<1>7. UNCHANGED <<playbook, play, cmd, tasks, task>>
  BY <1>1 DEF vars, runVars
<1>8. /\ Sudo' = Sudo /\ Own' = Own /\ (Alone(c)' <=> Alone(c)) /\ (Paired(c)' <=> Paired(c))
      /\ TextOf(c, "env")' = TextOf(c, "env") /\ (Shares(c)' <=> Shares(c))
      /\ \A f, x : Fresh(c, f, x)' <=> Fresh(c, f, x)
  BY <1>2, <1>7, TaskSame DEF Fresh, Shares
<1>9. /\ "pass" \notin stageFaults => RanAlone(c)
      /\ (stageFaults = {} /\ ~Sudo) => RanShared(c)
  BY <1>1, LineKnows
<1>10. "pass" \notin stageFaults => RanAlone(c)'
  BY <1>1, <1>2, <1>3, <1>8, <1>9 DEF RanAlone
<1>11. (stageFaults = {} /\ ~Sudo) => RanShared(c)'
  BY <1>1, <1>2, <1>3, <1>8, <1>9 DEF RanShared
<1> QED
  BY <1>1, <1>5, <1>6, <1>10, <1>11, LineStepInv


----------------------------------------------------------------------------
(* The start of a line                                                     *)

LEMMA StartedFacts ==
    ASSUME RunInv, StInv, NEW c \in Client, Starting(c),
           NEW first \in {"password", "source", "done"}, Started(c, first)
    PROVE  /\ UNCHANGED <<playbook, play, cmd, tasks, task, pc, exit, waited, left, disk>>
           /\ proc' = [proc EXCEPT ![c] = "running"] /\ launched' = launched \cup {c}
           /\ staged' = 0 /\ open' = FALSE /\ ~InStaging'
           /\ step'[c] = first /\ status'[c] = "ok" /\ executed'[c] = NoFile
           /\ \A d \in Client \ {c} : /\ step'[d] = step[d] /\ status'[d] = status[d]
                                     /\ sourced'[d] = sourced[d] /\ executed'[d] = executed[d]
           /\ step' \in [Client -> {"off", "password", "rm", "source", "exec", "clean", "done"}]
           /\ status' \in [Client -> {"ok", "failed"}]
           /\ sourced' \in [Client -> Content] /\ executed' \in [Client -> Content]
           /\ scriptFailed' \in [Client -> BOOLEAN]
<1> USE DEF Started
<1>1. /\ step \in [Client -> {"off", "password", "rm", "source", "exec", "clean", "done"}]
      /\ status \in [Client -> {"ok", "failed"}] /\ scriptFailed \in [Client -> BOOLEAN]
      /\ sourced \in [Client -> Content] /\ executed \in [Client -> Content]
      /\ NoFile \in Content
  BY Texts DEF StInv, ScriptStageTypeOK
<1>2. CS[cur] = c
  BY DEF Starting
<1>3. /\ UNCHANGED <<playbook, play, cmd, tasks, task, pc, exit, waited, left, disk>>
      /\ proc' = [proc EXCEPT ![c] = "running"] /\ launched' = launched \cup {c}
      /\ staged' = 0 /\ open' = FALSE
  BY <1>2 DEF Launch, inputs, place, connVars
<1>4. ~InStaging'
  BY <1>3 DEF InStaging
<1>5. /\ step'[c] = first /\ status'[c] = "ok" /\ executed'[c] = NoFile
      /\ \A d \in Client \ {c} : /\ step'[d] = step[d] /\ status'[d] = status[d]
                                /\ sourced'[d] = sourced[d] /\ executed'[d] = executed[d]
  BY <1>1
<1>6. /\ step' \in [Client -> {"off", "password", "rm", "source", "exec", "clean", "done"}]
      /\ status' \in [Client -> {"ok", "failed"}]
      /\ sourced' \in [Client -> Content] /\ executed' \in [Client -> Content]
  BY <1>1
<1>7. scriptFailed' \in [Client -> BOOLEAN]
  BY <1>1
<1> QED
  BY <1>3, <1>4, <1>5, <1>6, <1>7

\* What holds of a started line, whatever was put for it.
LEMMA StartedInv ==
    ASSUME RunInv, StInv, NEW c \in Client, Starting(c),
           NEW first \in {"password", "source", "done"}, Started(c, first),
           stageFaults' \subseteq {"mkdir", "pass"}
    PROVE  ScriptStageTypeOK' /\ StagingPlace' /\ LinesEnded'
<1>1. /\ waited = {} /\ ScriptStageTypeOK /\ LinesEnded /\ proc \in [Client -> {"idle", "running", "ok", "failed"}]
  BY StartingFacts DEF StInv, RunInv, RunTypeOK
<1>0. /\ UNCHANGED <<playbook, play, cmd, tasks, task, pc, exit, waited, left, disk>>
      /\ proc' = [proc EXCEPT ![c] = "running"]
      /\ staged' = 0 /\ open' = FALSE /\ ~InStaging'
      /\ step'[c] = first /\ status'[c] = "ok"
      /\ \A d \in Client \ {c} : step'[d] = step[d] /\ status'[d] = status[d]
      /\ step' \in [Client -> {"off", "password", "rm", "source", "exec", "clean", "done"}]
      /\ status' \in [Client -> {"ok", "failed"}]
      /\ sourced' \in [Client -> Content] /\ executed' \in [Client -> Content]
      /\ scriptFailed' \in [Client -> BOOLEAN]
  BY StartedFacts
<1>2. ScriptStageTypeOK'
  <2>1. open' \in BOOLEAN /\ staged' \in 0 .. 4
    <3>1. open' = FALSE /\ staged' = 0
      BY <1>0
    <3>2. open' \in BOOLEAN
      BY <3>1
    <3>3. staged' \in 0 .. 4
      BY <3>1
    <3> QED
      BY <3>2, <3>3
  <2>2. {disk, left}' \subseteq [Home -> [File -> Content]]
    BY <1>0, <1>1 DEF ScriptStageTypeOK
  <2>3. {sourced, executed}' \subseteq [Client -> Content]
    BY <1>0
  <2> QED
    BY <1>0, <2>1, <2>2, <2>3 DEF ScriptStageTypeOK
<1>3. StagingPlace'
  BY <1>0 DEF StagingPlace
<1>4. LinesEnded'
  <2>1. \A d \in Client : step'[d] \in {"password", "rm", "source", "exec"} => status'[d] = "ok"
    BY <1>0, <1>1 DEF LinesEnded
  <2>2. \A d \in Client : proc'[d] \in {"ok", "failed"} => d # c /\ proc'[d] = proc[d]
    BY <1>0, <1>1
  <2>3. waited' = {}
    BY <1>0, <1>1
  <2> QED
    BY <1>1, <2>1, <2>2, <2>3, <1>0 DEF LinesEnded
<1> QED
  BY <1>2, <1>3, <1>4

\* The whole set was put before the line starts that reads it.
LEMMA StLaunchInv == ASSUME RunInv, StInv, NEW c \in Client, StLaunch(c) PROVE StInv'
<1> DEFINE first == IF Sudo THEN "password" ELSE "source"
<1>0. /\ Starting(c) /\ staged = Len(Set(c)) /\ Started(c, first) /\ stageFaults' = stageFaults
      /\ first \in {"password", "source", "done"}
  BY DEF StLaunch
<1>1. /\ exit = "none" /\ pc = "launch" /\ InTask /\ Puts(c) /\ CS[cur] = c
      /\ c \in Members /\ Members \subseteq Client /\ TaskClients = Members
      /\ launched \subseteq Members /\ c \notin launched
  BY <1>0, StartingFacts
<1>2. /\ UNCHANGED <<playbook, play, cmd, tasks, task, pc, exit, waited, left, disk>>
      /\ proc' = [proc EXCEPT ![c] = "running"] /\ launched' = launched \cup {c}
      /\ staged' = 0 /\ open' = FALSE /\ ~InStaging'
      /\ step'[c] = first /\ status'[c] = "ok" /\ executed'[c] = NoFile
      /\ \A d \in Client \ {c} : /\ step'[d] = step[d] /\ status'[d] = status[d]
                                /\ sourced'[d] = sourced[d] /\ executed'[d] = executed[d]
  BY <1>0, StartedFacts
<1>3. /\ CS' = CS /\ Members' = Members /\ Sudo' = Sudo /\ Own' = Own
      /\ \A d, f : TextOf(d, f)' = TextOf(d, f)
      /\ \A d : (Alone(d)' <=> Alone(d)) /\ (Paired(d)' <=> Paired(d))
  BY <1>2, TaskSame
<1>4. ~open /\ staged = IF Sudo THEN 4 ELSE 3
  <2>1. staged \in 0 .. 4
    BY DEF StInv, ScriptStageTypeOK
  <2> QED
    <3>1. Len(Set(c)) = IF Sudo THEN 4 ELSE 3
      BY <2>1, SetFacts
    <3>2. open => staged < Len(Set(c))
      BY <1>1 DEF StInv, StagingPlace, InStaging
    <3> QED
      BY <1>0, <3>1, <3>2
<1>5. ScriptStageTypeOK' /\ StagingPlace' /\ LinesEnded'
  <2>1. stageFaults' \subseteq {"mkdir", "pass"}
    BY <1>0 DEF StInv, ScriptStageTypeOK
  <2> QED
    BY <1>0, <2>1, StartedInv
<1>6. \A d, f, x : Fresh(d, f, x)' <=> Fresh(d, f, x)
  BY <1>0, <1>2 DEF Fresh
<1>7. \A d : Shares(d)' <=> Shares(d)
  BY <1>3, <1>6 DEF Shares
<1>8. \A h : /\ ~StagingIn(h)' /\ (StagingIn(h) => h = HomeOf[c])
            /\ (LineIn(h)' <=> LineIn(h) \/ h = HomeOf[c])
  BY <1>1, <1>2 DEF StagingIn, LineIn
<1>9. \A d, f : (f \in File /\ Awaits(d, f)') => Awaits(d, f)
  <2>1. SUFFICES ASSUME NEW d, NEW f \in File, Awaits(d, f)' PROVE Awaits(d, f)
    OBVIOUS
  <2>2. d \in launched' /\ step'[d] \in Before(f)
    <3>1. Index[f] \in 1 .. 4
      BY Places
    <3>2. ~(staged' >= Index[f])
      BY <1>2, <3>1
    <3> QED
      BY <2>1, <3>2 DEF Awaits, Pending, Before
  <2>3. CASE d # c
    BY <1>1, <1>2, <2>2, <2>3 DEF Awaits, Pending
  <2>4. CASE d = c
    <3>1. staged >= Index[f]
      BY <1>2, <1>4, <2>2, <2>4 DEF Before, Index, File
    <3> QED
      BY <1>1, <2>4, <3>1 DEF Awaits
  <2> QED
    BY <2>3, <2>4
<1>10. LinesClean'
  BY <1>0, <1>1, <1>2, <1>8 DEF StInv, LinesClean
<1>11. FilesKnown'
  BY <1>0, <1>1, <1>2, <1>3, <1>4, <1>8 DEF StInv, FilesKnown, InTask
<1>12. ScriptsKnown'
  <2>1. proc \in [Client -> {"idle", "running", "ok", "failed"}]
    BY DEF RunInv, RunTypeOK
  <2> QED
    BY <1>0, <1>1, <1>2, <1>3, <2>1 DEF StInv, ScriptsKnown
<1>13. AloneFiles'
  BY <1>0, <1>1, <1>2, <1>3, <1>6, <1>9 DEF StInv, AloneFiles
<1>14. AloneRan'
  BY <1>0, <1>1, <1>2, <1>3, <1>6 DEF StInv, AloneRan, RanAlone
<1>15. SharedFiles'
  BY <1>0, <1>1, <1>2, <1>3, <1>7, <1>9 DEF StInv, SharedFiles, File
<1>16. SharedRan'
  BY <1>0, <1>1, <1>2, <1>3, <1>7 DEF StInv, SharedRan, RanShared
<1> QED
  BY <1>5, <1>10, <1>11, <1>12, <1>13, <1>14, <1>15, <1>16 DEF StInv

LEMMA PasswordLostInv == ASSUME RunInv, StInv, NEW c \in Client, PasswordLost(c) PROVE StInv'
<1>1. Starting(c) /\ Started(c, "done") /\ stageFaults' = stageFaults \cup {"pass"}
  BY DEF PasswordLost, Staging
<1>2. stageFaults' \subseteq {"mkdir", "pass"} /\ "pass" \in stageFaults'
  BY <1>1 DEF StInv, ScriptStageTypeOK
<1>3. ScriptStageTypeOK' /\ StagingPlace' /\ LinesEnded'
  BY <1>1, <1>2, StartedInv
<1>4. LinesClean' /\ FilesKnown' /\ ScriptsKnown' /\ AloneFiles' /\ AloneRan'
  BY <1>2 DEF LinesClean, FilesKnown, ScriptsKnown, AloneFiles, AloneRan
<1>5. SharedFiles' /\ SharedRan'
  BY <1>2 DEF SharedFiles, SharedRan
<1> QED
  BY <1>3, <1>4, <1>5 DEF StInv


----------------------------------------------------------------------------
(* The staging of a file.  Pair is what a home with two remote clients of a *)
(* task knows of the script in it.                                         *)

Pair(c) ==
    LET script == disk[HomeOf[c]]["run"]
        sole == \A d \in launched : HomeOf[d] = HomeOf[c] => d = c
    IN /\ Awaits(c, "run") => script \in {Own, NoFile, Truncated}
       /\ Paired(c) /\ Awaits(c, "run") =>
            /\ script \in {Own, NoFile}
            /\ sole => script = Own
       /\ Paired(c) /\ Puts(c) /\ staged = 0 /\ open =>
            /\ script \in {Truncated, NoFile}
            /\ sole => script = Truncated
            /\ \A d \in launched : HomeOf[d] = HomeOf[c] => step[d] \notin Before("run")

\* What a file that was put for a client that is alone in its home is worth.
Lone(c, f) ==
    /\ Sudo /\ stageFaults = {} => disk[HomeOf[c]][f] # NoFile
    /\ Fresh(c, f, TextOf(c, f)) => disk[HomeOf[c]][f] \in {TextOf(c, f), NoFile}

StageStep(c) ==
    /\ Staging(c)
    /\ UNCHANGED <<vars, left, shell>>
    /\ stageFaults' \in {stageFaults, stageFaults \cup {"mkdir"}}
    /\ disk' \in [Home -> [File -> Content]]
    /\ \A h \in Home, f \in File :
            (h # HomeOf[c] \/ f # NextFile(c)) => disk'[h][f] = disk[h][f]
    /\ \/ staged' = staged + 1 /\ open' = FALSE
       \/ staged' = staged /\ open' = TRUE /\ ~open
    /\ \/ open' = TRUE /\ disk'[HomeOf[c]][NextFile(c)] = Truncated
       \/ /\ open' = FALSE
          /\ \/ ~open /\ disk'[HomeOf[c]][NextFile(c)] = disk[HomeOf[c]][NextFile(c)]
             \/ disk'[HomeOf[c]][NextFile(c)] \in {NoFile, NextText(c)}

\* All that is put outside of the home of the client, and the other files of
\* it, stay; the rest is said of the file that is put.
LEMMA StageStepInv ==
    ASSUME RunInv, StInv, NEW c \in Client, StageStep(c), NEW F, F = NextFile(c),
           ("pass" \notin stageFaults /\ Alone(c) /\ open' = FALSE) => Lone(c, F)',
           (stageFaults' = {} /\ ~Sudo /\ staged = 0)
               => \A d \in Client : (Shares(d) /\ HomeOf[d] = HomeOf[c]) => Pair(d)'
    PROVE  StInv'
<1> DEFINE g == HomeOf[c]
<1>0. /\ UNCHANGED <<playbook, play, cmd, tasks, task, launched, pc, cur, proc, waited, exit>>
      /\ UNCHANGED <<left, step, status, sourced, executed, scriptFailed>>
  BY DEF StageStep, vars, runVars, connVars, shell
<1>1. /\ CS' = CS /\ Members' = Members /\ Sudo' = Sudo /\ Own' = Own
      /\ \A d, f : TextOf(d, f)' = TextOf(d, f)
      /\ \A d : (Alone(d)' <=> Alone(d)) /\ (Paired(d)' <=> Paired(d)) /\ Set(d)' = Set(d)
  BY <1>0, TaskSame
<1>2. /\ exit = "none" /\ pc = "launch" /\ InTask /\ InTask' /\ Puts(c)
      /\ cur \in 1 .. Len(CS) /\ CS[cur] = c
      /\ c \in Members /\ Members \subseteq Client /\ TaskClients = Members
      /\ launched \subseteq Members /\ c \notin launched
  BY <1>0, StartingFacts DEF StageStep, Staging, InTask
<1>3. /\ ScriptStageTypeOK /\ staged \in 0 .. 4 /\ staged < Len(Set(c)) /\ Len(Set(c)) <= 4
      /\ F = FileAt[staged + 1] /\ F \in File /\ Index[F] = staged + 1
      /\ NextText(c) = TextOf(c, F) /\ g \in Home
  <2>1. ScriptStageTypeOK /\ staged \in 0 .. 4 /\ staged < Len(Set(c)) /\ g \in Home
    BY DEF StInv, ScriptStageTypeOK, StageStep, Staging, Home
  <2>2. Len(Set(c)) <= 4
    <3>1. Len(Set(c)) = IF Sudo THEN 4 ELSE 3
      BY <2>1, SetFacts
    <3> QED
      BY <3>1
  <2> QED
    BY <2>1, <2>2, SetFacts
<1>4. /\ open' \in BOOLEAN
      /\ \/ staged' = staged + 1 /\ ~open'
         \/ staged' = staged /\ open' /\ ~open
  BY DEF StageStep
<1>5. /\ staged' \in 0 .. 4 /\ InStaging' /\ staged' <= Len(Set(c)) /\ (open' => staged' < Len(Set(c)))
  BY <1>3, <1>4 DEF InStaging
<1>6. /\ \A h : StagingIn(h)' <=> h = g
      /\ \A h : StagingIn(h) => h = g
      /\ \A h : LineIn(h)' <=> LineIn(h)
  BY <1>0, <1>1, <1>2, <1>5 DEF StagingIn, LineIn
<1>7. /\ "pass" \notin stageFaults' <=> "pass" \notin stageFaults
      /\ stageFaults' = {} => stageFaults = {}
      /\ stageFaults' \subseteq {"mkdir", "pass"}
  BY <1>3 DEF StageStep, ScriptStageTypeOK
<1>8. /\ \A d, f, x : Fresh(d, f, x)' => Fresh(d, f, x)
      /\ \A d, f, x : stageFaults' = {} => (Fresh(d, f, x)' <=> Fresh(d, f, x))
      /\ \A d : Shares(d)' => Shares(d)
  BY <1>0, <1>1, <1>7 DEF Fresh, Shares, StageStep
<1>9. \A h \in Home, f \in File : (h # g \/ f # F) => disk'[h][f] = disk[h][f]
  BY DEF StageStep
<1>10. \A d \in Members, f \in File : Awaits(d, f)' =>
           \/ Awaits(d, f) /\ (d = c => f # F)
           \/ d = c /\ f = F /\ ~open'
  <2> SUFFICES ASSUME NEW d \in Members, NEW f \in File, Awaits(d, f)'
               PROVE  \/ Awaits(d, f) /\ (d = c => f # F)
                      \/ d = c /\ f = F /\ ~open'
    OBVIOUS
  <2>1. CASE d # c
    BY <1>0, <1>1, <1>2, <2>1 DEF Awaits, Puts, Pending
  <2>2. CASE d = c
    <3>1. staged' >= Index[f]
      BY <1>0, <1>2, <2>2 DEF Awaits, Pending
    <3>2. Index[f] \in 1 .. 4 /\ FileAt[Index[f]] = f
      BY Places
    <3>3. CASE Index[f] <= staged
      BY <1>2, <1>3, <2>2, <3>2, <3>3 DEF Awaits
    <3>4. CASE Index[f] = staged + 1
      BY <1>3, <1>4, <2>2, <3>1, <3>2, <3>4
    <3> QED
      BY <1>3, <1>4, <3>1, <3>2, <3>3, <3>4
  <2> QED
    BY <2>1, <2>2
<1>11. ScriptStageTypeOK'
  <2>1. {disk, left}' \subseteq [Home -> [File -> Content]]
    BY <1>0, <1>3 DEF ScriptStageTypeOK, StageStep
  <2> QED
    BY <1>0, <1>3, <1>4, <1>5, <1>7, <2>1 DEF ScriptStageTypeOK
<1>12. StagingPlace'
  BY <1>0, <1>1, <1>2, <1>5 DEF StagingPlace
<1>13. LinesEnded'
  BY <1>0, <1>2 DEF StInv, LinesEnded
<1>14. LinesClean'
  BY <1>0, <1>6, <1>7, <1>9 DEF StInv, LinesClean
<1>15. FilesKnown'
  <2> SUFFICES ASSUME "pass" \notin stageFaults, NEW h \in Home, NEW f \in File
               PROVE  \/ disk'[h][f] \in {NoFile, left[h][f]}
                      \/ /\ LineIn(h) \/ h = g
                         /\ \E e \in Members : HomeOf[e] = h /\ disk'[h][f] = TextOf(e, f)
                      \/ open' /\ g = h /\ f = FileAt[staged' + 1] /\ disk'[h][f] = Truncated
    BY <1>0, <1>1, <1>2, <1>6, <1>7 DEF FilesKnown
  <2>1. CASE disk'[h][f] = disk[h][f] /\ ~(open /\ h = g /\ f = F)
    BY <1>2, <1>3, <1>6, <2>1 DEF StInv, FilesKnown
  <2>2. CASE h = g /\ f = F /\ disk'[h][f] \in {NoFile, TextOf(c, F)}
    BY <1>2, <2>2
  <2>3. CASE h = g /\ f = F /\ open' /\ disk'[h][f] = Truncated
    BY <1>3, <1>4, <2>3
  <2> QED
    BY <1>3, <1>9, <2>1, <2>2, <2>3 DEF StageStep
<1>16. ScriptsKnown'
  BY <1>0, <1>1, <1>7 DEF StInv, ScriptsKnown
<1>17. AloneFiles'
  <2> SUFFICES ASSUME "pass" \notin stageFaults, NEW d \in Members, Alone(d)
               PROVE  /\ Puts(d) /\ open' => disk'[HomeOf[d]][FileAt[staged' + 1]] = Truncated
                      /\ \A f \in File : Awaits(d, f)' => Lone(d, f)'
    BY <1>0, <1>1, <1>7 DEF AloneFiles, Lone, Puts
  <2>1. Puts(d) /\ open' => disk'[HomeOf[d]][FileAt[staged' + 1]] = Truncated
    BY <1>2, <1>3, <1>4 DEF StageStep, Puts
  <2> SUFFICES ASSUME NEW f \in File, Awaits(d, f)' PROVE Lone(d, f)'
    BY <2>1
  <2>2. CASE d = c /\ f = F /\ ~open'
    BY <1>4, <2>2
  <2>3. CASE Awaits(d, f) /\ (d = c => f # F)
    <3>1. HomeOf[d] \in Home /\ (HomeOf[d] = g => d = c)
      BY <1>2 DEF Home, Alone, Mates
    <3>2. disk'[HomeOf[d]][f] = disk[HomeOf[d]][f]
      BY <1>9, <2>3, <3>1
    <3>3. Lone(d, f)
      BY <1>2, <2>3 DEF StInv, AloneFiles, Lone
    <3> QED
      BY <1>1, <1>7, <1>8, <3>2, <3>3 DEF Lone
  <2> QED
    BY <1>10, <2>2, <2>3
<1>18. AloneRan'
  <2> SUFFICES ASSUME "pass" \notin stageFaults, NEW d \in launched PROVE RanAlone(d)'
    BY <1>0, <1>7 DEF AloneRan
  <2>1. RanAlone(d)
    BY <1>2 DEF StInv, AloneRan
  <2>2. /\ Fresh(d, "run", Own)' => Fresh(d, "run", Own)
        /\ Fresh(d, "env", TextOf(d, "env"))' => Fresh(d, "env", TextOf(d, "env"))
    BY <1>1, <1>8
  <2> QED
    BY <1>0, <1>1, <1>7, <2>1, <2>2 DEF RanAlone
<1>19. SharedFiles'
  <2> SUFFICES ASSUME stageFaults' = {}, ~Sudo, NEW d \in Client, Shares(d) PROVE Pair(d)'
    BY <1>1, <1>8 DEF SharedFiles, Pair
  <2>1. /\ d \in Members /\ HomeOf[d] \in Home /\ "run" \in File /\ stageFaults = {} /\ Pair(d)
    BY <1>2, <1>7 DEF Shares, Home, File, StInv, SharedFiles, Pair
  <2>2. CASE HomeOf[d] = g /\ staged = 0
    BY <2>2
  <2>3. CASE HomeOf[d] = g /\ staged # 0
    <3>1. F # "run" /\ staged' # 0
      BY <1>3, <1>4, <2>3 DEF Index
    <3>2. disk'[HomeOf[d]]["run"] = disk[HomeOf[d]]["run"] /\ (Awaits(d, "run")' => Awaits(d, "run"))
      BY <1>9, <1>10, <2>1, <3>1
    <3> QED
      BY <1>0, <1>1, <2>1, <3>1, <3>2 DEF Pair
  <2>4. CASE HomeOf[d] # g
    <3>1. /\ disk'[HomeOf[d]]["run"] = disk[HomeOf[d]]["run"] /\ (Awaits(d, "run")' => Awaits(d, "run"))
          /\ ~Puts(d)'
      BY <1>0, <1>1, <1>2, <1>9, <1>10, <2>1, <2>4 DEF Puts
    <3> QED
      BY <1>0, <1>1, <2>1, <3>1 DEF Pair
  <2> QED
    BY <2>2, <2>3, <2>4
<1>20. SharedRan'
  <2> SUFFICES ASSUME stageFaults' = {}, ~Sudo, NEW d \in launched PROVE RanShared(d)'
    BY <1>0, <1>1, <1>7 DEF SharedRan
  <2>1. RanShared(d)
    BY <1>2, <1>7 DEF StInv, SharedRan
  <2> QED
    BY <1>0, <1>1, <1>8, <2>1 DEF RanShared
<1> QED
  BY <1>11, <1>12, <1>13, <1>14, <1>15, <1>16, <1>17, <1>18, <1>19, <1>20 DEF StInv

\* What is known of the file that is put next.
LEMMA StageKnows ==
    ASSUME RunInv, StInv, NEW c \in Client, Staging(c), NEW F, F = NextFile(c)
    PROVE  /\ HomeOf[c] \in Home /\ F \in File /\ ScriptStageTypeOK
           /\ NextText(c) = TextOf(c, F) /\ TextOf(c, F) \in Content
           /\ (F = "run" <=> staged = 0) /\ F = FileAt[staged + 1]
           /\ InTask /\ Puts(c) /\ c \in Members /\ Members \subseteq Client /\ TaskClients = Members
           /\ launched \subseteq Members /\ c \notin launched
           /\ "pass" \notin stageFaults =>
                \/ disk[HomeOf[c]][F] \in {NoFile, left[HomeOf[c]][F]}
                \/ \E e \in Members : HomeOf[e] = HomeOf[c] /\ disk[HomeOf[c]][F] = TextOf(e, F)
                \/ open /\ disk[HomeOf[c]][F] = Truncated
           /\ ("pass" \notin stageFaults /\ Alone(c)) =>
                /\ open => disk[HomeOf[c]][F] = Truncated
                /\ \A e \in Members : HomeOf[e] = HomeOf[c] => e = c
           /\ (stageFaults = {} /\ ~Sudo) => \A d \in Client : Shares(d) => Pair(d)
<1>1. /\ InTask /\ Puts(c) /\ c \in Members /\ Members \subseteq Client /\ TaskClients = Members
      /\ launched \subseteq Members /\ c \notin launched /\ pc = "launch" /\ CS[cur] = c
  BY StartingFacts DEF Staging
<1>2. ScriptStageTypeOK /\ staged \in 0 .. 4 /\ staged < Len(Set(c)) /\ HomeOf[c] \in Home
  BY DEF StInv, ScriptStageTypeOK, Staging, Home
<1>3. F = FileAt[staged + 1] /\ F \in File /\ NextText(c) = TextOf(c, F) /\ Index[F] = staged + 1
  BY <1>2, SetFacts
<1>4. F = "run" <=> staged = 0
  BY <1>2, <1>3 DEF Index, File
<1>5. TextOf(c, F) \in Content
  <2>1. Cmd.name \in CmdName
    BY <1>1, CmdFacts DEF RunInv, PlaceOK, Command
  <2>2. tasks[task].kind \in Kind
    BY <1>1, TaskFacts DEF RunInv, PlaceOK, Task, Kind
  <2>3. Own \in Content /\ EnvText(Cmd.name, c) \in Content
        /\ <<"commands">> \in Content /\ <<"pass">> \in Content
    BY <2>1, <2>2, Texts DEF Own
  <2> QED
    BY <1>3, <2>3 DEF TextOf, File
<1>6. "pass" \notin stageFaults =>
        \/ disk[HomeOf[c]][F] \in {NoFile, left[HomeOf[c]][F]}
        \/ \E e \in Members : HomeOf[e] = HomeOf[c] /\ disk[HomeOf[c]][F] = TextOf(e, F)
        \/ open /\ disk[HomeOf[c]][F] = Truncated
  BY <1>2, <1>3 DEF StInv, FilesKnown
<1>7. ("pass" \notin stageFaults /\ Alone(c)) => (open => disk[HomeOf[c]][F] = Truncated)
  BY <1>1, <1>3 DEF StInv, AloneFiles
<1>8. Alone(c) => \A e \in Members : HomeOf[e] = HomeOf[c] => e = c
  BY <1>1 DEF Alone, Mates
<1>9. (stageFaults = {} /\ ~Sudo) => \A d \in Client : Shares(d) => Pair(d)
  BY <1>1 DEF StInv, SharedFiles, Pair
<1> QED
  BY <1>1, <1>2, <1>3, <1>4, <1>5, <1>6, <1>7, <1>8, <1>9

\* A file that is taken for the one to be put is not one that was left.
LEMMA SameIsNotLeft ==
    ASSUME NEW c \in Client, NEW F, F = NextFile(c), NextText(c) = TextOf(c, F),
           SameSize(c), Fresh(c, F, TextOf(c, F))
    PROVE  disk[HomeOf[c]][F] \notin {NoFile, left[HomeOf[c]][F]}
BY DEF SameSize, There, Fresh

LEMMA SkipInv == ASSUME RunInv, StInv, NEW c \in Client, Skip(c) PROVE StInv'
<1> DEFINE g == HomeOf[c]
<1>1. PICK F : F = NextFile(c)
  OBVIOUS
<1>2. /\ Staging(c) /\ ~open /\ SameSize(c) /\ staged' = staged + 1
      /\ UNCHANGED <<vars, left, disk, open, stageFaults, shell>>
  BY DEF Skip
<1>3. /\ g \in Home /\ F \in File /\ ScriptStageTypeOK /\ NextText(c) = TextOf(c, F)
      /\ (F = "run" <=> staged = 0) /\ Puts(c) /\ staged \in 0 .. 4 /\ c \notin launched
  BY <1>1, <1>2, StageKnows DEF ScriptStageTypeOK
<1>4. StageStep(c)
  BY <1>2, <1>3 DEF StageStep, ScriptStageTypeOK
<1>5. UNCHANGED <<playbook, play, cmd, tasks, task, launched, step, cur, pc>>
  BY <1>2 DEF vars, runVars, shell
<1>6. /\ Sudo' = Sudo /\ Own' = Own /\ Members' = Members /\ CS' = CS /\ TextOf(c, F)' = TextOf(c, F)
      /\ \A d : (Paired(d)' <=> Paired(d))
  BY <1>5, TaskSame
<1>7. /\ \A d, f, x : Fresh(d, f, x)' <=> Fresh(d, f, x)
      /\ \A d : Puts(d)' <=> Puts(d)
  BY <1>2, <1>5, <1>6 DEF Fresh, Puts
<1>8. ("pass" \notin stageFaults /\ Alone(c)) => Lone(c, F)'
  <2> SUFFICES ASSUME "pass" \notin stageFaults, Alone(c)
               PROVE  /\ disk[g][F] # NoFile
                      /\ Fresh(c, F, TextOf(c, F)) => disk[g][F] \in {TextOf(c, F), NoFile}
    BY <1>2, <1>6, <1>7 DEF Lone
  <2>1. disk[g][F] # NoFile
    BY <1>1, <1>2 DEF SameSize, There
  <2>2. disk[g][F] = left[g][F] \/ disk[g][F] = TextOf(c, F)
    BY <1>1, <1>2, <2>1, StageKnows
  <2> QED
    BY <1>1, <1>2, <1>3, <2>1, <2>2, SameIsNotLeft
<1>9. (stageFaults = {} /\ ~Sudo /\ staged = 0)
            => \A d \in Client : (Shares(d) /\ HomeOf[d] = g) => Pair(d)'
  <2> SUFFICES ASSUME stageFaults = {}, ~Sudo, staged = 0, NEW d \in Client, Shares(d), HomeOf[d] = g
               PROVE  Pair(d)'
    OBVIOUS
  <2>1. Pair(d) /\ F = "run" /\ TextOf(c, F) = Own
    BY <1>1, <1>2, <1>3, StageKnows DEF TextOf
  <2>2. d = c => disk[g]["run"] = Own
    <3>1. d = c => Fresh(c, F, TextOf(c, F))
      BY <2>1 DEF Shares
    <3>2. d = c => disk[g][F] \notin {NoFile, left[g][F]}
      BY <1>1, <1>2, <1>3, <3>1, SameIsNotLeft
    <3>3. d = c => \E e \in Members : disk[g][F] = TextOf(e, F)
      BY <1>1, <1>2, <3>2, StageKnows
    <3> QED
      BY <2>1, <3>3 DEF TextOf
  <2>3. d # c => ~Puts(d) /\ (Awaits(d, "run")' => Awaits(d, "run"))
    BY <1>3, <1>5, <1>7 DEF Puts, Awaits, Pending
  <2>4. disk' = disk /\ staged' # 0 /\ open' = open /\ ~open
    BY <1>2, <1>3
  <2>5. CASE d = c
    BY <1>6, <2>2, <2>4, <2>5 DEF Pair
  <2>6. CASE d # c
    BY <1>5, <1>6, <1>7, <2>1, <2>3, <2>4, <2>6 DEF Pair
  <2> QED
    BY <2>5, <2>6
<1> QED
  BY <1>1, <1>2, <1>4, <1>8, <1>9, StageStepInv

LEMMA SkippingHostInv == ASSUME RunInv, StInv, NEW c \in Client, SkippingHost(c) PROVE StInv'
<1> DEFINE g == HomeOf[c]
<1>1. PICK F : F = NextFile(c)
  OBVIOUS
<1>2. /\ Staging(c) /\ ~open /\ staged' = staged + 1 /\ stageFaults' = stageFaults \cup {"mkdir"}
      /\ UNCHANGED <<vars, left, disk, open, shell>>
  BY DEF SkippingHost
<1>3. g \in Home /\ F \in File /\ ScriptStageTypeOK
  BY <1>1, <1>2, StageKnows
<1>4. StageStep(c)
  BY <1>2, <1>3 DEF StageStep, ScriptStageTypeOK
<1>5. UNCHANGED <<playbook, play, cmd, tasks, task>>
  BY <1>2 DEF vars, runVars
<1>6. TextOf(c, F)' = TextOf(c, F)
  BY <1>5, TaskSame
<1>7. ("pass" \notin stageFaults /\ Alone(c)) => Lone(c, F)'
  <2> SUFFICES ASSUME "pass" \notin stageFaults, Alone(c), left[g][F] = NoFile
               PROVE  disk[g][F] \in {TextOf(c, F), NoFile}
    BY <1>2, <1>6 DEF Lone, Fresh
  <2> QED
    BY <1>1, <1>2, StageKnows
<1>8. stageFaults' # {}
  BY <1>2
<1> QED
  BY <1>1, <1>4, <1>7, <1>8, StageStepInv

\* The script of a remote client that shares its home with one other client is
\* there as long as that one may still run it, and so is not created again.
LEMMA PairNotTruncated ==
    ASSUME RunInv, StInv, NEW c \in Client, Staging(c), ~SameSize(c), staged = 0,
           stageFaults = {}, ~Sudo,
           NEW d \in Client, Shares(d), HomeOf[d] = HomeOf[c], Paired(d),
           d # c, c \in Remote, Pending(d, "run")
    PROVE  FALSE
<1>1. PICK F : F = NextFile(c)
  OBVIOUS
<1>2. /\ NextText(c) = TextOf(c, F) /\ F = "run" /\ c \in Members /\ Members \subseteq Client
      /\ TaskClients = Members /\ launched \subseteq Members /\ c \notin launched /\ Pair(d)
  BY <1>1, StageKnows
<1>3. \A e \in launched : HomeOf[e] = HomeOf[d] => e = d
  <2>1. c \in Mates(d)
    BY <1>2 DEF Mates
  <2>2. Mates(d) = {c}
    BY <2>1 DEF Paired
  <2> QED
    BY <1>2, <2>2 DEF Mates
<1>4. disk[HomeOf[c]]["run"] = Own
  BY <1>3, <1>2 DEF Pair, Awaits
<1>5. TextOf(c, F) = Own /\ Own # NoFile
  BY <1>2, NotEmpty DEF TextOf, File
<1> QED
  BY <1>1, <1>2, <1>4, <1>5 DEF SameSize, There

LEMMA CreateFileInv == ASSUME RunInv, StInv, NEW c \in Client, CreateFile(c) PROVE StInv'
<1> DEFINE g == HomeOf[c]
<1>1. PICK F : F = NextFile(c)
  OBVIOUS
<1>2. /\ Staging(c) /\ ~open /\ ~SameSize(c) /\ open' = TRUE
      /\ disk' = [disk EXCEPT ![g][F] = Truncated]
      /\ UNCHANGED <<vars, left, staged, stageFaults, shell>>
  BY <1>1 DEF CreateFile
<1>3. /\ g \in Home /\ F \in File /\ ScriptStageTypeOK
      /\ (F = "run" <=> staged = 0) /\ Puts(c) /\ staged \in 0 .. 4
      /\ c \in Members /\ Members \subseteq Client /\ TaskClients = Members
      /\ launched \subseteq Members /\ c \notin launched
  BY <1>1, <1>2, StageKnows DEF ScriptStageTypeOK
<1>4. /\ disk' \in [Home -> [File -> Content]]
      /\ \A h \in Home, f \in File : (h # g \/ f # F) => disk'[h][f] = disk[h][f]
      /\ disk'[g][F] = Truncated
  BY <1>2, <1>3, Texts DEF ScriptStageTypeOK
<1>5. StageStep(c)
  BY <1>1, <1>2, <1>4 DEF StageStep
<1>6. UNCHANGED <<playbook, play, cmd, tasks, task, launched, step, cur, pc>>
  BY <1>2 DEF vars, runVars, shell
<1>7. /\ Sudo' = Sudo /\ Own' = Own /\ Members' = Members /\ CS' = CS
      /\ \A d : (Paired(d)' <=> Paired(d))
  BY <1>6, TaskSame
<1>8. \A d : Puts(d)' <=> d = c
  BY <1>3, <1>6, <1>7 DEF Puts
<1>9. (stageFaults = {} /\ ~Sudo /\ staged = 0)
            => \A d \in Client : (Shares(d) /\ HomeOf[d] = g) => Pair(d)'
  <2> SUFFICES ASSUME stageFaults = {}, ~Sudo, staged = 0, NEW d \in Client, Shares(d), HomeOf[d] = g
               PROVE  Pair(d)'
    OBVIOUS
  <2>1. disk'[g]["run"] = Truncated /\ staged' = 0 /\ d \in Members /\ d \in Remote
    BY <1>2, <1>3, <1>4 DEF Shares
  <2>2. Awaits(d, "run")' => d # c /\ Pending(d, "run")
    BY <1>2, <1>3, <1>6, <2>1 DEF Awaits, Pending, Index, Before
  <2>3. Paired(d) => ~Awaits(d, "run")'
    <3> SUFFICES ASSUME Paired(d), Awaits(d, "run")' PROVE FALSE
      OBVIOUS
    <3>1. c \in Remote
      BY <1>3, <2>2 DEF Paired, Mates
    <3> QED
      BY <1>2, <2>2, <3>1, PairNotTruncated
  <2>4. (Paired(d) /\ d = c) => \A e \in launched : HomeOf[e] = g => step'[e] \notin Before("run")
    <3> SUFFICES ASSUME Paired(c), c \in Remote, NEW e \in launched, HomeOf[e] = g, step[e] \in Before("run"),
                        Shares(c)
                 PROVE  FALSE
      BY <1>6, <2>1
    <3>1. e # c /\ e \in Client /\ e \in Mates(c)
      BY <1>3 DEF Mates
    <3>2. Mates(c) = {e} /\ e \in Remote
      BY <3>1 DEF Paired
    <3>3. Mates(e) \subseteq {c}
      BY <3>2, <1>3 DEF Mates
    <3>4. Paired(e)
      BY <3>3 DEF Paired
    <3>5. Shares(e) /\ Pending(e, "run")
      BY <1>3, <3>2 DEF Shares, Fresh, Pending
    <3> QED
      BY <1>2, <3>1, <3>4, <3>5, PairNotTruncated
  <2> QED
    BY <1>6, <1>7, <1>8, <2>1, <2>2, <2>3, <2>4 DEF Pair, Before
<1> QED
  BY <1>1, <1>2, <1>5, <1>9, StageStepInv

LEMMA WriteFileInv == ASSUME RunInv, StInv, NEW c \in Client, WriteFile(c) PROVE StInv'
<1> DEFINE g == HomeOf[c]
<1>1. PICK F : F = NextFile(c)
  OBVIOUS
<1>2. /\ Staging(c) /\ open /\ open' = FALSE /\ staged' = staged + 1
      /\ disk' = [disk EXCEPT ![g][F] = IF @ = NoFile THEN NoFile ELSE NextText(c)]
      /\ UNCHANGED <<vars, left, stageFaults, shell>>
  BY <1>1 DEF WriteFile
<1>3. /\ g \in Home /\ F \in File /\ ScriptStageTypeOK /\ NextText(c) = TextOf(c, F)
      /\ TextOf(c, F) \in Content
      /\ (F = "run" <=> staged = 0) /\ Puts(c) /\ staged \in 0 .. 4
      /\ c \in Members /\ c \notin launched
  BY <1>1, <1>2, StageKnows DEF ScriptStageTypeOK
<1>4. /\ disk' \in [Home -> [File -> Content]]
      /\ \A h \in Home, f \in File : (h # g \/ f # F) => disk'[h][f] = disk[h][f]
      /\ disk'[g][F] = IF disk[g][F] = NoFile THEN NoFile ELSE TextOf(c, F)
  BY <1>2, <1>3, Texts DEF ScriptStageTypeOK
<1>5. StageStep(c)
  BY <1>1, <1>2, <1>3, <1>4 DEF StageStep
<1>6. UNCHANGED <<playbook, play, cmd, tasks, task, launched, step, cur, pc>>
  BY <1>2 DEF vars, runVars, shell
<1>7. /\ Sudo' = Sudo /\ Own' = Own /\ Members' = Members /\ CS' = CS /\ TextOf(c, F)' = TextOf(c, F)
      /\ \A d : (Paired(d)' <=> Paired(d))
  BY <1>6, TaskSame
<1>8. \A d : Puts(d)' <=> d = c
  BY <1>3, <1>6, <1>7 DEF Puts
<1>9. ("pass" \notin stageFaults /\ Alone(c)) => Lone(c, F)'
  <2> SUFFICES ASSUME "pass" \notin stageFaults, Alone(c) PROVE disk'[g][F] = TextOf(c, F)
    BY <1>3, <1>7, NotEmpty DEF Lone
  <2>1. disk[g][F] = Truncated
    BY <1>1, <1>2, StageKnows
  <2> QED
    BY <1>4, <2>1, NotEmpty
<1>10. (stageFaults = {} /\ ~Sudo /\ staged = 0)
            => \A d \in Client : (Shares(d) /\ HomeOf[d] = g) => Pair(d)'
  <2> SUFFICES ASSUME stageFaults = {}, ~Sudo, staged = 0, NEW d \in Client, Shares(d), HomeOf[d] = g
               PROVE  Pair(d)'
    OBVIOUS
  <2>1. Pair(d) /\ F = "run" /\ TextOf(c, F) = Own
    BY <1>1, <1>2, <1>3, StageKnows DEF TextOf
  <2>2. /\ disk'[g]["run"] = IF disk[g]["run"] = NoFile THEN NoFile ELSE Own
        /\ staged' # 0
    BY <1>2, <1>3, <1>4, <2>1
  <2>3. d # c => (Awaits(d, "run")' => Awaits(d, "run"))
    BY <1>6, <1>8 DEF Awaits, Pending
  <2>4. (Paired(d) /\ (Awaits(d, "run")' \/ d = c)
            /\ \A e \in launched : HomeOf[e] = HomeOf[d] => e = d) => disk'[g]["run"] = Own
    <3>1. CASE d = c
      BY <1>2, <1>3, <2>1, <2>2, <3>1, NotEmpty DEF Pair
    <3>2. CASE d # c
      BY <2>1, <2>2, <2>3, <3>2, NotEmpty DEF Pair, TextOf, File
    <3> QED
      BY <3>1, <3>2
  <2> QED
    BY <1>6, <1>7, <2>2, <2>4 DEF Pair
<1> QED
  BY <1>1, <1>2, <1>5, <1>9, <1>10, StageStepInv

----------------------------------------------------------------------------

LEMMA StInitInv == StInit => StInv
<1> SUFFICES ASSUME StInit PROVE StInv
  OBVIOUS
<1> USE DEF StInit, Init
<1>1. ScriptStageTypeOK
  <2>1. disk \in [Home -> [File -> Content]] /\ left = disk
    BY ScriptStageAssumption, Texts
  <2>2. NoFile \in Content
    BY Texts
  <2>3. scriptFailed \in [Client -> BOOLEAN] /\ open \in BOOLEAN
    OBVIOUS
  <2> QED
    BY <2>1, <2>2, <2>3 DEF ScriptStageTypeOK
<1>2. ~InTask /\ ~InStaging
  BY DEF InTask, InStaging
<1>3. StagingPlace /\ LinesEnded
  BY <1>2 DEF StagingPlace, LinesEnded
<1>4. LinesClean /\ FilesKnown /\ ScriptsKnown
  BY DEF LinesClean, LineIn, FilesKnown, ScriptsKnown
<1>5. AloneFiles /\ AloneRan /\ SharedFiles /\ SharedRan
  BY <1>2 DEF AloneFiles, AloneRan, SharedFiles, SharedRan
<1> QED
  BY <1>1, <1>3, <1>4, <1>5 DEF StInv

\* Every step keeps what is known of the homes and the lines.
LEMMA StStepInv == ASSUME RunInv, RunInv', StInv, [StNext]_<<vars, stVars>> PROVE StInv'
<1>1. ASSUME NEW c \in Client, Skip(c) \/ SkippingHost(c) \/ CreateFile(c) \/ WriteFile(c) PROVE StInv'
  BY <1>1, SkipInv, SkippingHostInv, CreateFileInv, WriteFileInv
<1>2. ASSUME NEW c \in Client, StLaunch(c) \/ PasswordLost(c) PROVE StInv'
  BY <1>2, StLaunchInv, PasswordLostInv
<1>3. ASSUME NEW c \in Client, Shell(c) PROVE StInv'
  BY <1>3, ReadPasswordInv, RemovePasswordInv, SourceEnvInv, RunScriptInv, ScriptGoneInv, CleanUpInv,
     FinishStep DEF Shell
<1>4. CASE StOtherStep
  BY <1>4, OtherStep
<1> QED
  BY <1>1, <1>2, <1>3, <1>4, StopStep DEF StNext


\* What is known of homes and lines holds in every state of every invocation.
THEOREM StInductive == StSpec => [](RunInv /\ StInv)
<1>1. StInit => RunInv /\ StInv
  BY RunInitInv, StInitInv DEF StInit
<1>2. RunInv /\ StInv /\ [StNext]_<<vars, stVars>> => (RunInv /\ StInv)'
  <2> SUFFICES ASSUME RunInv, StInv, [StNext]_<<vars, stVars>> PROVE RunInv' /\ StInv'
    OBVIOUS
  <2>1. RunInv'
    BY StepImplements, RunStepInv, RunStutterInv
  <2> QED
    BY <2>1, StStepInv
<1> QED
  BY <1>1, <1>2, PTL DEF StSpec

\* Files, shell lines and what they have read are of their types, and no client
\* is put more files than its set has (sudo_formatter.go:98-139).
THEOREM StageTypeCorrect == StSpec => []ScriptStageTypeOK
<1>1. StInv => ScriptStageTypeOK
  BY DEF StInv
<1> QED
  BY <1>1, StInductive, PTL

\* A client that has ended well in the current task was started in it, and its
\* line ran to its end.
LEMMA SucceededFacts ==
    ASSUME RunInv, StInv, NEW c \in Succeeded
    PROVE  /\ InTask /\ c \in launched /\ c \in Members /\ c \in Client
           /\ step[c] = "done" /\ status[c] = "ok"
<1>1. InTask /\ c \in waited
  BY DEF Succeeded, InTask
<1>2. c \in launched /\ c \in Members
  BY <1>1 DEF RunInv, ClientsOK
<1>3. c \in Client
  BY <1>2, <1>1, TaskFacts DEF RunInv, PlaceOK
<1> QED
  BY <1>1, <1>2, <1>3 DEF StInv, LinesEnded

\* A command that counts as successful has run its own script: whatever clients
\* share a home, not one that an earlier invocation or another command left
\* there, nor none at all (upload.go:154, 249, 257-269; sudo_formatter.go:187).
THEOREM SuccessMeansRanAlways == StSpec => []SuccessMeansRan
<1>1. ASSUME RunInv, StInv PROVE SuccessMeansRan
  <2> SUFFICES ASSUME NEW c \in Succeeded, Fresh(c, "run", Own),
                      Alone(c) \/ (c \in Remote /\ ~Sudo /\ stageFaults = {}),
                      Sudo => stageFaults = {}
               PROVE  executed[c] = Own \/ (executed[c] = Truncated /\ ~Paired(c))
    BY <1>1 DEF SuccessMeansRan, Own
  <2>1. /\ InTask /\ c \in launched /\ c \in Members /\ step[c] = "done" /\ status[c] = "ok"
    BY <1>1, SucceededFacts
  <2>2. "pass" \notin stageFaults
    BY DEF Fresh
  <2>3. CASE Alone(c)
    BY <1>1, <2>1, <2>2, <2>3 DEF StInv, AloneRan, RanAlone
  <2>4. CASE c \in Remote /\ ~Sudo /\ stageFaults = {}
    BY <1>1, <2>1, <2>4 DEF StInv, SharedRan, RanShared, Shares
  <2> QED
    BY <2>3, <2>4
<1> QED
  BY <1>1, StInductive, PTL

\* A command that counts as successful in a home of its own ran with the exports
\* of its own host and command (sudo_formatter.go:124-131).
THEOREM OwnEnvironmentAlways == StSpec => []OwnEnvironment
<1>1. ASSUME RunInv, StInv PROVE OwnEnvironment
  <2> SUFFICES ASSUME NEW c \in Succeeded, Fresh(c, "env", EnvText(Cmd.name, c)), Alone(c),
                      Sudo => stageFaults = {}
               PROVE  sourced[c] = EnvText(Cmd.name, c)
    BY DEF OwnEnvironment
  <2>1. /\ InTask /\ c \in launched /\ step[c] = "done" /\ status[c] = "ok"
    BY <1>1, SucceededFacts
  <2>2. "pass" \notin stageFaults /\ TextOf(c, "env") = EnvText(Cmd.name, c)
    BY DEF Fresh, TextOf
  <2> QED
    BY <1>1, <2>1, <2>2 DEF StInv, AloneRan, RanAlone
<1> QED
  BY <1>1, StInductive, PTL

\* Whoever shares a home and whatever else fails, no line runs the script of
\* another command, of this play or an earlier one, unless a password file
\* failed (sudo_formatter.go:118, 187).
THEOREM NoOtherScriptAlways == StSpec => []NoOtherScript
<1>1. StInv => NoOtherScript
  BY DEF StInv, ScriptsKnown, NoOtherScript, Own
<1> QED
  BY <1>1, StInductive, PTL

\* When all clients of a task have succeeded none of its files is left in their
\* homes, the password least of all (sudo_formatter.go:176, 187).
THEOREM HomesCleanedAlways == StSpec => []HomesCleaned
<1>1. ASSUME RunInv, StInv PROVE HomesCleaned
  <2> SUFFICES ASSUME pc = "fetch", "pass" \notin stageFaults, NEW c \in TaskClients, NEW f \in File
               PROVE  disk[HomeOf[c]][f] = NoFile
    BY DEF HomesCleaned
  <2>1. InTask /\ TaskClients = Members /\ waited = Members /\ launched = Members /\ Members \subseteq Client
    BY <1>1, TaskFacts DEF InTask, TaskClients, Members, RunInv, ClientsOK, PlaceOK
  <2>2. \A d \in launched : step[d] = "done" /\ status[d] = "ok"
    BY <1>1, <2>1 DEF StInv, LinesEnded
  <2>3. LineIn(HomeOf[c]) /\ ~StagingIn(HomeOf[c]) /\ HomeOf[c] \in Home
    BY <1>1, <2>1 DEF LineIn, StagingIn, StInv, StagingPlace, Home
  <2> QED
    BY <1>1, <2>2, <2>3 DEF StInv, LinesClean
<1> QED
  BY <1>1, StInductive, PTL

=============================================================================
