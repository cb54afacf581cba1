----------------------------- MODULE ScriptStage -----------------------------
(***************************************************************************)
(* What Run does between a client and its command.  The script of a task,  *)
(* its exports, the shell functions and, under sudo, the password are put  *)
(* one after the other into ~/.local/ssup/run (FormatCommandBasedOnSudo,   *)
(* src/gateway/sudo_formatter/sudo_formatter.go:98-193; GenerateOnRemote,  *)
(* src/gateway/ssh/upload.go:103-157 and                                   *)
(* src/gateway/localhost/localhost.go:488-536); then a shell line is       *)
(* started that reads them, runs the script and removes _ssup_*.  The      *)
(* names are fixed, so what one client stages and another one's command    *)
(* reads or removes meet wherever two clients share a home, and what a     *)
(* killed invocation has left is met by the next one.  The other steps are *)
(* those of Stackup.                                                       *)
(***************************************************************************)
EXTENDS Stackup

CONSTANTS
    HomeOf,         \* the home directory of a client's user
    SudoCmds,       \* names of the commands with `sudo: true`
    SudoRight,      \* clients whose sudo accepts the password of their entry
    SudoAsksNone,   \* clients whose sudo asks for no password
    SizeOf,         \* the size of a text
    OldText,        \* texts an earlier invocation may have left
    Leftovers,      \* what may lie in the homes at the start
    StageMayFail    \* "mkdir", "pass"

Kind == {"script", "local", "run"}
File == {"run", "env", "commands", "pass"}
Home == {HomeOf[c] : c \in Client}

\* The texts: a script is its command's, exports are a client's for a command.
RunText(name, kind) == <<"run", name, kind>>
EnvText(name, c) == <<"env", name, c>>
Text == {RunText(nm, k) : nm \in CmdName, k \in Kind}
        \cup {EnvText(nm, c) : nm \in CmdName, c \in Client}
        \cup {<<"commands">>, <<"pass">>} \cup OldText
NoFile == <<>>
Truncated == <<"truncated">>
Content == Text \cup {NoFile, Truncated}

ASSUME ScriptStageAssumption ==
    /\ DOMAIN HomeOf = Client
    /\ SudoCmds \subseteq CmdName
    /\ SudoRight \subseteq Client /\ SudoAsksNone \subseteq Client
    /\ SizeOf \in [Text \cup {Truncated} -> Nat] /\ SizeOf[Truncated] = 0
    /\ Leftovers \subseteq [Home -> [File -> OldText \cup {NoFile, Truncated}]]
    /\ StageMayFail \subseteq {"mkdir", "pass"}

VARIABLES
    disk,         \* the files _ssup_* in each home
    left,         \* what lay there at the start
    staged,       \* files put for the client that is being started
    open,         \* the next one of them is created and not yet written
    step,         \* where the shell line of a client is
    status,       \* the status it will exit with
    sourced,      \* the exports it has read
    executed,     \* the script it has run
    scriptFailed, \* that script ended with a status other than 0
    stageFaults   \* history: staging steps that failed without an error

shell == <<step, status, sourced, executed, scriptFailed>>
staging == <<disk, staged, open, stageFaults>>
stVars == <<left, staging, shell>>

ScriptStageTypeOK ==
    /\ {disk, left} \subseteq [Home -> [File -> Content]]
    /\ staged \in 0 .. 4 /\ open \in BOOLEAN
    /\ step \in [Client -> {"off", "password", "rm", "source", "exec", "clean", "done"}]
    /\ status \in [Client -> {"ok", "failed"}]
    /\ {sourced, executed} \subseteq [Client -> Content]
    /\ scriptFailed \in [Client -> BOOLEAN]
    /\ stageFaults \subseteq {"mkdir", "pass"}

StInit ==
    /\ Init
    /\ disk \in Leftovers /\ left = disk
    /\ staged = 0 /\ open = FALSE /\ stageFaults = {}
    /\ step = [c \in Client |-> "off"] /\ status = [c \in Client |-> "ok"]
    /\ sourced = [c \in Client |-> NoFile] /\ executed = [c \in Client |-> NoFile]
    /\ scriptFailed = [c \in Client |-> FALSE]

----------------------------------------------------------------------------
(* generateBaselineStartSet and the password file *)

\* Only script and run parts carry the command's sudo.
Sudo == Cmd.name \in SudoCmds /\ tasks[task].kind # "local"

\* What is put on the client, in this order.
Set(c) == << <<"run", RunText(Cmd.name, tasks[task].kind)>>, <<"env", EnvText(Cmd.name, c)>>,
             <<"commands", <<"commands">> >> >>
          \o (IF Sudo THEN << <<"pass", <<"pass">> >> >> ELSE <<>>)

Starting(c) == AtClient /\ ~ctxDone /\ ~Refuses(c) /\ c = CS[cur]
Staging(c) == Starting(c) /\ staged < Len(Set(c))
NextFile(c) == Set(c)[staged + 1][1]
NextText(c) == Set(c)[staged + 1][2]
There(c) == disk[HomeOf[c]][NextFile(c)]

\* Mutant of SameSize: any file of that name will do.
SameSizeOrOther(c) == c \in Remote /\ There(c) # NoFile

\* doUpload copies nothing over a file of the same size; a local client's
\* os.WriteFile always writes.
SameSize(c) == c \in Remote /\ There(c) # NoFile /\ SizeOf[There(c)] = SizeOf[NextText(c)]

\* Mutant of Skip: one file of the same size stands for the whole set.
SkipSet(c) ==
    /\ Staging(c) /\ ~open /\ SameSize(c)
    /\ staged' = staged + Len(Set(c))
    /\ UNCHANGED <<vars, left, disk, open, stageFaults, shell>>

Skip(c) ==
    /\ Staging(c) /\ ~open /\ SameSize(c)
    /\ staged' = staged + 1
    /\ UNCHANGED <<vars, left, disk, open, stageFaults, shell>>

\* MkdirAll of the directory fails: GenerateOnRemote prints "skipping host" and
\* returns nil, for this file.
SkippingHost(c) ==
    /\ Staging(c) /\ ~open /\ c \in Remote
    /\ "mkdir" \in StageMayFail /\ stageFaults' = stageFaults \cup {"mkdir"}
    /\ staged' = staged + 1
    /\ UNCHANGED <<vars, left, disk, open, shell>>

CreateFile(c) ==
    /\ Staging(c) /\ ~open /\ ~SameSize(c)
    /\ disk' = [disk EXCEPT ![HomeOf[c]][NextFile(c)] = Truncated]
    /\ open' = TRUE
    /\ UNCHANGED <<vars, left, staged, stageFaults, shell>>

\* A file that was removed after it was created is written to for nothing.
WriteFile(c) ==
    /\ Staging(c) /\ open
    /\ disk' = [disk EXCEPT ![HomeOf[c]][NextFile(c)] =
                    IF @ = NoFile THEN NoFile ELSE NextText(c)]
    /\ open' = FALSE
    /\ staged' = staged + 1
    /\ UNCHANGED <<vars, left, stageFaults, shell>>

\* An error of the other three panics; what was put until then stays.
StageFails ==
    /\ staged > 0 \/ open
    /\ BuildFails
    /\ UNCHANGED stVars

Started(c, first) ==
    /\ Launch
    /\ staged' = 0 /\ open' = FALSE
    /\ step' = [step EXCEPT ![c] = first]
    /\ status' = [status EXCEPT ![c] = "ok"]
    /\ sourced' = [sourced EXCEPT ![c] = NoFile]
    /\ executed' = [executed EXCEPT ![c] = NoFile]
    /\ scriptFailed' = [scriptFailed EXCEPT ![c] = FALSE]
    /\ UNCHANGED <<left, disk>>

StLaunch(c) ==
    /\ Starting(c) /\ staged = Len(Set(c))
    /\ Started(c, IF Sudo THEN "password" ELSE "source")
    /\ UNCHANGED stageFaults

\* An error of the password file makes the command the empty text, which the
\* client starts and which succeeds.
PasswordLost(c) ==
    /\ Staging(c) /\ NextFile(c) = "pass"
    /\ "pass" \in StageMayFail /\ stageFaults' = stageFaults \cup {"pass"}
    /\ Started(c, "done")

\* The command cannot be started on what was put.
StartFails ==
    /\ staged > 0 /\ ~open /\ staged = Len(Set(CS[cur]))
    /\ RunFails
    /\ UNCHANGED stVars

----------------------------------------------------------------------------
(* The shell line on the host *)

At(c, where) == exit = "none" /\ proc[c] = "running" /\ step[c] = where
Has(c, f) == disk[HomeOf[c]][f] # NoFile
GoTo(c, where) == step' = [step EXCEPT ![c] = where]

\* `... || export SSUP_TASK_FAIL=$?; rm -rf ...; exit`.  Under sudo the line is
\* in double quotes and the outer shell has put the values in: the status kept
\* is the one of the mkdir before, and the text ends in a bare `exit`.
Failing(c) == status' = [status EXCEPT ![c] = IF Sudo THEN "ok" ELSE "failed"]

\* Without its password sudo does not start the line, which so removes nothing.
ReadPassword(c) ==
    /\ At(c, "password")
    /\ IF c \in SudoAsksNone \/ (c \in SudoRight /\ disk[HomeOf[c]]["pass"] = <<"pass">>)
         THEN GoTo(c, "rm") /\ UNCHANGED status
         ELSE GoTo(c, "done") /\ status' = [status EXCEPT ![c] = "failed"]
    /\ UNCHANGED <<vars, left, staging, sourced, executed, scriptFailed>>

RemovePassword(c) ==
    /\ At(c, "rm")
    /\ IF Has(c, "pass")
         THEN GoTo(c, "source") /\ UNCHANGED status
         ELSE GoTo(c, "clean") /\ Failing(c)
    /\ disk' = [disk EXCEPT ![HomeOf[c]]["pass"] = NoFile]
    /\ UNCHANGED <<vars, left, staged, open, stageFaults, sourced, executed, scriptFailed>>

\* Mutant of SourceEnv: a missing file of exports is passed over.
SourceEnvIfAny(c) ==
    /\ At(c, "source")
    /\ GoTo(c, "exec")
    /\ sourced' = [sourced EXCEPT ![c] = disk[HomeOf[c]]["env"]]
    /\ UNCHANGED <<vars, left, staging, status, executed, scriptFailed>>

SourceEnv(c) ==
    /\ At(c, "source")
    /\ IF Has(c, "env")
         THEN /\ GoTo(c, "exec") /\ UNCHANGED status
              /\ sourced' = [sourced EXCEPT ![c] = disk[HomeOf[c]]["env"]]
         ELSE GoTo(c, "clean") /\ Failing(c) /\ UNCHANGED sourced
    /\ UNCHANGED <<vars, left, staging, executed, scriptFailed>>

\* A script that was cut to nothing runs with success.
RunScript(c) ==
    /\ At(c, "exec") /\ Has(c, "run")
    /\ executed' = [executed EXCEPT ![c] = disk[HomeOf[c]]["run"]]
    /\ \/ UNCHANGED <<status, scriptFailed>>
       \/ /\ executed'[c] # Truncated /\ "command" \in MayFail
          /\ scriptFailed' = [scriptFailed EXCEPT ![c] = TRUE]
          /\ Failing(c)
    /\ GoTo(c, "clean")
    /\ UNCHANGED <<vars, left, staging, sourced>>

ScriptGone(c) ==
    /\ At(c, "exec") /\ ~Has(c, "run")
    /\ Failing(c) /\ GoTo(c, "clean")
    /\ UNCHANGED <<vars, left, staging, sourced, executed, scriptFailed>>

\* Mutants of CleanUp: only what fails is cleaned up; only what the line has
\* used is removed.
CleanUpFailed(c) ==
    /\ At(c, "clean")
    /\ disk' = IF status[c] = "ok" THEN disk
               ELSE [disk EXCEPT ![HomeOf[c]] = [f \in File |-> NoFile]]
    /\ GoTo(c, "done")
    /\ UNCHANGED <<vars, left, staged, open, stageFaults, status, sourced, executed, scriptFailed>>

CleanUpUsed(c) ==
    /\ At(c, "clean")
    /\ disk' = [disk EXCEPT ![HomeOf[c]]["run"] = NoFile, ![HomeOf[c]]["env"] = NoFile]
    /\ GoTo(c, "done")
    /\ UNCHANGED <<vars, left, staged, open, stageFaults, status, sourced, executed, scriptFailed>>

CleanUp(c) ==
    /\ At(c, "clean")
    /\ disk' = [disk EXCEPT ![HomeOf[c]] = [f \in File |-> NoFile]]
    /\ GoTo(c, "done")
    /\ UNCHANGED <<vars, left, staged, open, stageFaults, status, sourced, executed, scriptFailed>>

StFinish(c) ==
    /\ Finish(c) /\ step[c] = "done" /\ proc'[c] = status[c]
    /\ UNCHANGED stVars

Shell(c) ==
    \/ ReadPassword(c) \/ RemovePassword(c) \/ SourceEnv(c)
    \/ RunScript(c) \/ ScriptGone(c) \/ CleanUp(c) \/ StFinish(c)

----------------------------------------------------------------------------

\* While a client is being started the main goroutine does nothing else.
StOtherStep ==
    /\ staged = 0 /\ ~open
    /\ BeginPlay \/ NextCommand \/ OtherMainStep \/ Connecting
    /\ UNCHANGED stVars

StNext ==
    \/ \E c \in Client :
         \/ Skip(c) \/ SkippingHost(c) \/ CreateFile(c) \/ WriteFile(c)
         \/ StLaunch(c) \/ PasswordLost(c) \/ Shell(c)
         \/ WaitReturns(c) /\ UNCHANGED stVars
    \/ StageFails \/ StartFails \/ StOtherStep
    \/ Terminated /\ UNCHANGED stVars

StSpec == StInit /\ [][StNext]_<<vars, stVars>>

----------------------------------------------------------------------------

TaskClients == {CS[k] : k \in 1 .. Len(CS)}

\* The other clients of the task whose user and machine are those of c.
Mates(c) == {d \in TaskClients \ {c} : HomeOf[d] = HomeOf[c]}
Alone(c) == Mates(c) = {}
Paired(c) == \E d \in Client : Mates(c) \subseteq {d} \cap Remote

\* Clients of the current task that have ended well.
Succeeded == IF pc \in {"wait", "fetch"} THEN waited ELSE {}

\* What an earlier invocation, or an earlier command without its password, left
\* cannot be taken for this command's file f.
Fresh(c, f, text) ==
    LET old == left[HomeOf[c]][f] IN
    /\ "pass" \notin stageFaults
    /\ \/ old = NoFile
       \/ "mkdir" \notin stageFaults /\ (c \in Remote => SizeOf[old] # SizeOf[text])

\* A command that counts as successful has run its own script, and nothing
\* else: not one that was left in the home, not none because the disk was full
\* ("skipping host", upload.go:154) or because another client of the same user
\* removed it meanwhile (sudo_formatter.go:187, upload.go:249).  Local clients of
\* one command, sudo and a full disk need a home of their own for it.  Of three
\* clients in one home the first may remove the script, the third create it
\* again, and the second run it before it is written: it is cut to nothing then.
SuccessMeansRan ==
    \A c \in Succeeded :
        LET own == RunText(Cmd.name, tasks[task].kind) IN
        ( /\ Fresh(c, "run", own)
          /\ Alone(c) \/ (c \in Remote /\ ~Sudo /\ stageFaults = {})
          /\ Sudo => stageFaults = {} )
        => executed[c] = own \/ (executed[c] = Truncated /\ ~Paired(c))

\* It ran with the exports of its own host, if no other client of the task
\* shares the home (sudo_formatter.go:124-131).
OwnEnvironment ==
    \A c \in Succeeded :
        LET own == EnvText(Cmd.name, c) IN
        (Fresh(c, "env", own) /\ Alone(c) /\ (Sudo => stageFaults = {})) => sourced[c] = own

\* Whatever is shared and whatever fails, no client is seen running the script
\* of another command of this or an earlier play, as long as no password file
\* failed and no earlier invocation left a script (sudo_formatter.go:118).
NoOtherScript ==
    \A c \in Client :
        ( /\ proc[c] = "running" /\ exit = "none" /\ "pass" \notin stageFaults
          /\ left[HomeOf[c]]["run"] = NoFile )
        => executed[c] \in {NoFile, Truncated, RunText(Cmd.name, tasks[task].kind)}

\* When all clients of a task have succeeded nothing of theirs is left on the
\* hosts, the password least of all: a later command or invocation finds homes
\* as if it were the first (sudo_formatter.go:176, 187).
HomesCleaned ==
    (pc = "fetch" /\ exit = "none" /\ "pass" \notin stageFaults) =>
        \A c \in TaskClients, f \in File : disk[HomeOf[c]][f] = NoFile

----------------------------------------------------------------------------
(* What the documentation says and the code does not do. *)

\* "any error on any host will interrupt the process" (docs/base/targets.md:5):
\* no command whose script failed counts as successful.
ScriptFailureReported == \A c \in Succeeded : ~scriptFailed[c]
=============================================================================
