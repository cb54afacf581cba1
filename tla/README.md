# ssup in TLA+

ssup takes a *Supfile* (networks of hosts, commands, targets) and a command
line, and runs the commands on the hosts over ssh: the commands one after the
other, each of them on all its hosts at once. This directory holds a
specification of the parts of it that carry that behaviour, model-checked with
TLC and, for most of its safety, proved with TLAPS. Source paths below are relative to
the repository; `usecase/run.go` stands for `src/usecase/run.go`, and so on.

Contents: [the system](#1-the-system), [what makes it hard](#2-what-makes-it-hard),
[the modules](#3-the-modules), [the runs](#4-the-runs), [the proofs](#5-the-proofs),
[what the code does not do](#6-where-documentation-and-code-part),
[what is not modelled](#7-what-is-not-modelled), [the plan](#8-the-plan).

## 1. The system

`cmd/ssup/main.go` reads the Supfile, lets `usecase/appinit` turn it and the
command line into a playbook (a list of plays, each a network and a list of
commands), and runs the plays in order. A play connects all its hosts, then
takes its commands in order; a command is cut into tasks; a task is started on
its clients, waited for, and followed by downloads.

| Component | State it keeps | Operations | Talks to | What makes it correct |
|---|---|---|---|---|
| Connecting hosts (`usecase/run.go:106-177, 427-565`) | the slice of clients, the names of failed hosts, two channels | bastion, one dial per host, gather, sweep the failed names out of the slice | `gateway/ssh`, `gateway/localhost` through goroutines and channels | only connected clients are left, each once; no bystander is dropped; a failure is told exactly when there is one |
| Running a playbook (`cmd/ssup/main.go`, `usecase/run.go`, `usecase/create_tasks.go`) | place in plays, commands, tasks; the context; per client `running` and `sess` | CreateTasks, runTask (start, copy output, wait, fetch), Close | the clients; the exit status | lock step between tasks; failures reach the exit status; started commands are awaited; `serial` and `once` |
| Testing connections (`appinit/parse_args.go:79-123`) | the hosts' names, rewritten to `ERR: ...`/`YES: ...`; one error variable for all networks | connect every network and mark its hosts | Connecting hosts | the marks tell the truth; a bastion's error is not lost |
| Targets and modes (`entity/supfile/target.go`, `appinit/mode_*.go`) | the maps `targets` and `affixes`; the play being filled | read targets, choose a mode, add plays | the playbook | the plays are those the Supfile and the arguments say |
| Namespaces and tubes (`gateway/namespace`, `gateway/ssh/ssh.go:459-507`, `register` in `sudo_formatter.go`) | a store of variables per host and tube; a file `_tube_data` in each home | register, fetch, set, inject, renew on connect | the waiting goroutines of a task, concurrently; the hosts' files | what is registered arrives, the last value wins, nothing foreign arrives |
| Staging and sudo (`gateway/sudo_formatter`, `gateway/ssh/upload.go`, `gateway/localhost`) | files `_ssup_*` on the hosts, with fixed names | stage scripts, exports and passwords; build the shell line; the line reads and removes them | Run of a client; the shell on the host | what counts as success has run its own script with its own exports; nothing stays behind |
| Uploads and downloads (`usecase/run.go:316-338`, `gateway/ssh/upload.go`, `download.go`, `gateway/localhost`) | trees of files; `Flat` in each download order | walk a tree, skip what is there, copy, dist copy | runTask | success means every file arrived whole; a failure stops what comes after, and is reported; files of several hosts stay apart |
| Standard input (`usecase/run.go:366-392`) | the clients' stdin pipes | one goroutine per task feeds all its clients | the running commands | pieces arrive in order and once, all of them; nobody waits for ever |
| Variables (`usecase/appinit/env_tools.go`, `process_env.go`, `usecase/envs_resolve`, `create_tasks.go`) | `EnvList` maps, shared by what looks like copies of them | merge, override, resolve, export | every command | the nearest setting wins; references resolve |
| Host filters (`usecase/init_flags_and_checks.go`) | the hosts of a network object | `--only`, `--except`, `--sshconfig` | the plays, which may share the object | each play has the hosts that were asked for |
| Shellcheck, Supfile reading, host texts (`gateway/host_parser`), inventories, keys, help, signals | lists and texts | checks, decoding | the playbook | mostly data to data |

How they interact: only `main`'s goroutine moves from play to play, command to
command and task to task. It shares with the goroutines it starts the client
slice (through channels), the clients' fields, the store of namespaces and the
exit of the process: any goroutine may call `os.Exit` or panic, and that ends
all of them while commands on other hosts may still be running.

## 2. What makes it hard

`PROJECT.json` lists the hazards one by one, each at its line, with the
properties that watch it. In groups:

* *Order of arrival.* Dials end in any order; the sweep of failed hosts works
  on whatever order that gave, and it removes elements from the slice it is
  ranging over (`run.go:135-146`). Variables are resolved in the order of a Go map
  (`envlist_resolve_vals.go:20`).
* *One of several failing.* A connection, inventory, upload, dist copy, start,
  command, tube, download or close may fail on one host while others go on, and
  each kind leaves by a different way: by cancelling the context and continuing
  (upload), by cancelling and leaving the loop (dist), by returning at once
  (start), by `os.Exit` in a waiting goroutine (command, tube), by a panic
  (inventory, staging), or by cancelling when nothing reads it again (download).
  Other steps fail without an error: a staging directory that cannot be made, a
  password file that cannot be put (`upload.go:156`, `sudo_formatter.go:183`).
* *Several clients on one home.* Two entries may name one user on one machine,
  and every local client does: their fetches of `_tube_data` interleave, and so
  does the staging of `_ssup_*` files with the shell lines that read and remove them.
* *What is left behind.* An invocation that was killed leaves staged files, and a copy
  that was interrupted leaves a shorter file; the next one compares sizes only
  (`upload.go:249`, `download.go:112`).
* *A goroutine nobody waits for.* The feeder of standard input outlives its task,
  and meets the pipes, closes and clients of later ones (`run.go:373-390`).
* *Stale and shared state.* `sess` of a connection, `Flat` of a download order, the
  namespaces of a host across plays, the error variable of `-t`, a map of
  variables that all tasks of a play share, a network object that all plays of
  makefile mode share.
* *Ending.* Every early exit of a loop must still lead to an end.

## 3. The modules

| Module | Models | Extends |
|---|---|---|
| `Connect` | one connection phase | |
| `Stackup` | one invocation from the playbook to the exit status | `Connect` |
| `LockStep` | what lock-step execution promises, abstractly | |
| `StackupProperties` | the properties of an invocation, and the refinement `LS == INSTANCE LockStep WITH ...` | `Stackup` |
| `ScriptStage` | staged files and the shell lines, composed with an invocation | `Stackup` |
| `TaskInput` | standard input of tasks, composed with an invocation | `StackupProperties` |
| `Namespaces` | registered variables, composed with an invocation | `Stackup` |
| `TestConnections` | `ssup -t` | `Connect` |
| `Playbook` | from Supfile and command line to plays | |
| `PlaySetup` | the hosts and the variables of each play | |
| `Transfer` | uploads, downloads and dist copies of a command | |
| `ConnectProofs`, `StackupProofs`, `ScriptStageProofs`, `TaskInputProofs`, `NamespacesProofs`, `TestConnectionsProofs`, `TransferProofs` | theorems about the module of that name | that module |
| `PlayProofs` | theorems about the plays | `Playbook`, `PlaySetup` |
| `MC...` | one instance for TLC per run | |

**Connect.** `hosts` is the network's host list, `conn[e]` what the goroutine of
entry `e` has reported, `failed` the slice `hostnamesWithErr`. The client slice
is modelled by its backing array `arr` and its length `len`, because the sweep
depends on the difference: `range clients` keeps the length (`lim`) it started
with, `removeIndex` moves elements down in place, and index `n` may then look at
a stale element beyond the slice (`SweepOutOfRange`). One step is one iteration.
A dial, with its authentication and its inventory commands, is one step: it
works (`HostUp`), fails (`HostDown`), finds no ssh configuration
(`HostUnconfigured`, every remote host behind a bastion) or panics
(`InventoryPanics`). What matters of a host's name is three texts: what the
Supfile says (`RawName`), what `GetHost()` returns when connected
(`ClientName`), and the placeholder `"all"`. The host list is a set: the order of
the entries decides nothing, because results arrive in any order.

**Stackup.** `pc` is where the main goroutine is: between plays, in the
connection phase, between commands, between tasks, in the loop that starts a task
(`launch`), waiting for output (`io`), waiting for clients (`wait`), downloading
(`fetch`), closing. `cur` is the index of the loop it is in; `running`, `sess` are
the clients' fields of these names; `proc[c]` is the command on a host, which
ends by itself (`Finish`). The waiting goroutines (`WaitReturns(c)`) are one per
client of the task, started or not, as in `run.go:398-421`. `exit` is `"ok"`
(status 0), `"error"` (status 1, a few other codes included) or `"abort"` (a
panic; it is kept apart because deferred work does not run and the message is
a stack trace). A play makes fresh clients: `BeginPlay` resets their fields.
`LocalClient` is the client of a `local:` part, made anew for each command.
A `Command` is reduced to what decides control: which parts it has, `once`,
`serial`, and whether it uploads, dist-copies, has variables or downloads.
`MayFail` says which kinds of failure the environment may produce; `faults`,
`reached`, `ran` and `fetched` are histories that only properties read. A download
is recorded with what the client's name adds to its path (`Suffix`): `@GetHost()`,
or nothing for a command that is `flat` and for a client on this machine.
The text conversion that matters, `processSourceLinks`, is modelled by what it
does: an empty run text becomes one line.

**LockStep** knows rounds: a set of members, who was started, who passed. Next
round, or success, only when all passed. The refinement maps a round to a task:
its members are the task's clients while the main goroutine is in it.

**ScriptStage** opens up Stackup's `Launch` and `Finish`. Before a client's command
is started, `FormatCommandBasedOnSudo` puts three or four files into the client's
home, each by `CreateFile` and `WriteFile`, or not (`Skip`: a file of that size is
there; `SkippingHost`: the directory cannot be made). The main goroutine does
this client after client, while the shell lines of clients already started run:
`ReadPassword`, `RemovePassword`, `SourceEnv`, `RunScript`, `CleanUp`, one step for
each part of the line at `sudo_formatter.go:167-192`. `disk[h][f]` is what home `h`
holds; a text is identified by where it comes from, and `SizeOf` says which texts
have one size. `left` is what an earlier invocation had left. Under sudo the line
stands in double quotes, so that the outer shell replaces `$?` before the script
has run; `Failing` is modelled by that effect.

**TaskInput** adds the pipes, the feeding goroutines and the readers. `InLaunch`
makes a pipe for every command, with `stdin: true` or without; when the launch
loop ends, `HandleTaskInput` starts a goroutine with the pipes the clients have
then. It reads a piece (`ReadInput`), writes it to one pipe after another, waiting for
room in each (`WriteChunk`), and at the end, or at the first error, closes the
pipe each client has *by then* (`WriteClose`), which may be a later task's. It keeps
running beside the steps of `Stackup`. `Reads` are commands that read to the end
of their input, `Quitters` clients on which they end without. The effect of a
pseudo terminal's end of input is external; so is sudo, which reads its password
from another pipe. With standard input that is no terminal a remote command is
refused (`GetSizeFails`), a step Stackup does not have: TaskInput is no refinement of
it, and its properties are stated and checked on their own.

**Namespaces** adds to Stackup the files, the store and the clients' variables.
A value is the identity of the registration (play, command, task, client), so
that "which value arrived" is visible. The fetch of a waiting client is taken
apart into `Stat`, download, `SetFromEnvString` and the deferred remove, and the
steps of several clients interleave; the mutex in the store makes
`SetFromEnvString` one step. Each action is Stackup's action with an effect
added, so a run of `NsSpec` is a run of `Spec` with registrations.

**TestConnections** drives Connect's actions network by network (`range` over a Go
map: any order), with the bastion's error kept and looked at late.

**Playbook** reads targets item by item, because each mapped item rewrites texts
of targets read before and after it; then the three modes, argument by argument.
Names are words and `Within` says which name contains which, for the code
tests with `strings.Contains`. `SUP_NETWORK` is recorded for each play (`NetworkNamed`).

**PlaySetup** takes the plays from there. `netEnv[n]` is the one map of network `n`,
`network[p]` the Network object of play `p` (one for all in makefile mode:
`Object`), `vars` the one map a play's tasks share. `CheckInitialArgs` is the three
host flags with each of their refusals; `MergeVars` puts the network's variables over
the Supfile's; `ResolveKey` is one iteration of `ResolveValues`, in any order of
keys, with the exports collected so far, and each command with variables resolves
the same map again; the history `late` has the keys that came after the key they
refer to; `RunTask` gives each client its variables and says what a
shell has for one of them after the exports, which again come in any order. A
value is a text, a reference, or a subshell command. `-e v=l` adds a key `"v=l"`
to the network's map (`env_tools.go:21`), which the shell takes for an export of `"l="`.

**Transfer** is one walk for three copies that differ in details: upload, download,
and the copy of a client on this machine (`local` in an order). `todo` is what the
walk has still to visit, and one step visits one path; a file is created, then
written (`CopyDone`) or left part written (`CopyFails`). Invocations repeat, and
between two of them a source file may be edited. `orders` are those of one task over
its clients in the order of the code, uploads before fetches; `follows` says whether
another task of the play comes after it. That decides what a failed fetch becomes
(`StepFails`): `run.go:305-313` only cancels the context, so the invocation fails if a
later task finds it cancelled, and otherwise goes on as if nothing had happened, as
`FetchFails` of `Stackup` has it too.

Left out everywhere: logging, colours, prefixes, the wording of errors and the
exact exit code beyond what a property reads.

## 4. The runs

Nine runs pass. Deadlock is checked in all of them (a finished system stutters).

| Run | Question | Checked |
|---|---|---|
| `connect` | Does the sweep leave the right clients, whatever order results arrive in and whatever names clash? | `ConnTypeOK`, `ClientsConnected`, `LostOnlyByName`, `FailureTold`, `ConnectSettles` |
| `stackup_safety` | Does an invocation keep order, report failures and leave nothing behind? | `TypeOK`, `ExitZeroMeansDone`, `FailureReported`, `NothingLeftBehind`, `StartedAwaited`, `SerialBound`, `DownloadsApart`, `LockStepped` |
| `task_input` | What does each command read from standard input, and does every invocation end? | `InputTypeOK`, `InputInOrder`, `InputWhole`, `InputFailsNothing`, `Termination` |
| `script_stage` | Does a command that counts as successful have run its own script, with its own exports, and leave nothing? | `ScriptStageTypeOK`, `SuccessMeansRan`, `OwnEnvironment`, `NoOtherScript`, `HomesCleaned` |
| `namespaces` | Do registered variables arrive, where they should and only there? | `NamespacesTypeOK`, `NoForeignVariable`, `TubeHandedOn`, `TubesEmptied` |
| `test_connections` | Do the marks of `-t` tell the truth? | `TestTypeOK`, `TruthfulMarks`, `BastionErrorStops` |
| `playbook` | Are the plays those that were written? | `BookTypeOK`, `PlaysAsWritten` |
| `play_setup` | Has each play the hosts that were asked for, and each shell the variables? | `PlaySetupTypeOK`, `HostsAsFiltered`, `NearestWins`, `ReferencesResolve` |
| `transfer` | Does success mean that everything arrived, also after an interrupted invocation? | `TransferTypeOK`, `CopiedWhole`, `FailureStops`, `WholeStaysWhole` |

**Bounds, and why they are enough.**

* `connect` has four entries, every non-empty subset of them as host list, with
  and without a bastion; three entries end in the same connected name, one of them
  under another text, and one is this machine. Removing one of three equal names
  under a loop of the old length is the smallest case in which a stale element
  matches; every order of arrival is explored. Size: 2168 distinct states.
* `stackup_safety` runs, with and without `-z` and with every kind of failure
  allowed at every place, (a) hand-made playbooks: two plays in a row, a bastion,
  an empty play, an empty playbook, groups of two of three clients, `serial`
  above the number of clients, and downloads that could meet (one machine under two
  entries, a command used on one host and then on two, a local part or groups
  beside the downloads); (b) every command and every pair of commands of a
  menu of seven on four networks (two remote, two local, mixed, three hosts).
  Two clients of a task suffice for one to fail while the other runs, three for
  a short last group and for one that fails, one that runs and one not started.
  Two tasks, two commands and two plays are the smallest cases in which something
  stale from an earlier one is used. Size: 305,328.
* `task_input` runs the hand-made playbooks of that run (their shapes of early exit
  are what liveness needs) and seven with commands that take input: two in a row
  on one client, a task after which no one reads, a refused client, a `once` command.
  Three pieces and room for one: the writer waits in the middle of its input, a
  feeder outlives its task and meets the next one's, and one piece is left for
  a later command. On one client commands end without reading. About 155,000.
* `script_stage`: two entries for one home, one with a home of its own, two local
  entries that share a home with the client of local parts; scripts of equal and
  different sizes, exports of equal sizes; homes that start empty, or with a
  script of the same size, a longer one, or a truncated one. About 1,100,000.
* `namespaces`: two clients that share a home, a third host, this machine, one
  tube, two variables, up to four plays: an older value can only come back if a
  line stays behind in a home that is fetched again after another host's
  newer value, which needs three or four plays. About 74,000.
* `test_connections`: two networks in both orders, one behind a bastion, one with
  two entries of one connected name: 1065.
* `playbook`: every Supfile of one target with up to two texts, or two targets with
  one text each, over three commands (one a part of two others), two networks or
  none, with nine command lines that reach all modes and all refusals: about 25,700.
* `play_setup`: eighteen invocations over three networks, `localhost` among them, and five variables: references
  to the Supfile, to ssup's environment, to a reference and to itself, subshells
  that fail, `-e` twice and malformed, the three host flags alone, together, in
  three plays, in makefile mode, and refused. Orders of keys are all
  explored, so that a reference is resolved before its variable and after it: 2579.
* `transfer`: a root, one directory and three files, one of them `.DS_Store`; a tree
  that is one file, a stale copy of the same size, an interrupted copy as large as
  another file, a directory that cannot be listed; five lists of two orders (two
  uploads, two fetches, an upload and a fetch of what it brought, and orders of a
  client on this machine), each with a task after it and without; three
  invocations, so that what a failure left is repaired and then found. About 3,380,000.

Invocations of `Transfer` are bounded by `MaxInvocation`. No other counter is cut
off: playbooks and input are finite, so every behaviour of every instance is finite
up to stuttering.

**Fairness, and why the code justifies it.** `ConnFairness` and `InFairness` are weak
fairness of: the main goroutine's next step; each dial's answer; the bastion's
answer; the feeders; the end of each started command; each waiting goroutine. The Go
scheduler runs every goroutine that can run, and none of these steps is disabled
once enabled except by the end of the process, or, for a write into a full pipe,
until its reader or the command's end makes room. Three assumptions are about the
world and not about the code: a dial is answered (a TCP dial times out after
500 ms, `ssh.go:269`, but a peer that accepts and stays silent is not bounded by
anything), a started command ends, at the latest when its input has, and
ssup's own input comes to an end. Without them ssup does wait for ever.

Each property is also checked to fail under a plausible change of the modelled
code (`PROJECT.json`, "mutants"; their definitions stand before the ones they
change).

## 5. The proofs

TLC's instances are small; the theorems hold for every value of the constants
that satisfies the named assumptions. Every invariant and every action property
that a run checks is a theorem; only the two liveness properties are not.

`ConnectAssumption` says that names are names, that failures are of the known kinds,
that the set of entries is finite, and that a local client's empty name is no text of the
Supfile. `StackupAssumption` says that the client of local parts is not an entry and that
playbooks are sequences of plays. There is no bound on hosts, plays, commands, groups or
failures. `ScriptStageAssumption`, `NamespacesAssumption`, `InputAssumption`,
`PlaybookAssumption` and `TransferAssumption` type their constants; the first also says
that an empty file has size zero, the second that entries with one remote home are one
host, the last that a file is not empty, that an interrupted copy is shorter than its
file, that no order copies a place onto itself and that fetches come after uploads. `PlaySetupAssumption` has
`IsSetup`: a play's network is one of the Supfile, the variables and values are of their
kinds, and the plays of makefile mode are of one network, as that mode makes them.

`ConnectProofs` (about `ConnSpec`):

* `ConnTypeCorrect`, `ClientsConnectedAlways`, `LostOnlyByNameAlways`,
  `FailureToldAlways`: the invariants of run `connect`.
* `ReachableKeptIfDistinct`: if no entry's text is the connected name of another
  entry (`DistinctNames`), skipping unreachable hosts keeps all reachable ones.
  Without that assumption it is false (section 6).

The inductive invariant `ConnInv` adds four facts to them. `DialComplete`: until the sweep
the slice fills its array and misses no connected host, without which nothing
can be said of the first element removed. `NamesFailed`: names in `failed` belong
to failed hosts, so a removal by name can be blamed on one. `AllAnswered`: the
sweep begins only when every host has reported, so a host missing from the slice
was removed and is not late. `DialledHosts`: only hosts of the play have a
state. The core is `RemoveIndexKeeps`: what removing index `k` in place does to
the elements of the slice.

`StackupProofs` (about `Spec`):

* `TypeCorrect`, `NothingLeftBehindAlways`.
* `FailureReportedAlways`: of all failures only those of connections and
  downloads may end in status 0. This is the least obvious one, since a failed
  upload or dist copy only cancels a context, and what turns it into an error is
  that a client which was not started is waited for all the same.
* `LockStepImplemented`: every invocation implements `LockStep`.
* `RunInductive`: `RunInv`, the invariant the four rest on.

`RunInv` is `ConnInv` and `RunTypeOK` with: `PlaceOK` (indices are in range where
they are used), `TasksOnce` (no task names a client twice, which needs that the
client slice does not, so `ClientsConnected`), `ClientsOK` (in each place,
`running` is exactly what was started and not yet waited for; and at the
downloads every member has been waited for), `NothingLeftBehind`, and `FailurePending`:
as long as a failed command is not reported, a started client whose command
failed is still to be waited for; as long as a failed upload or dist copy is not,
some client of the task was never started. Neither can be passed, because leaving
the wait needs every member waited for and a wait succeeds only for a started
client whose command succeeded. `FailureReported` alone says nothing of a live
process and is not inductive; `TasksOnce` is needed because a client listed twice would
be started once and refuse the second time.

The proof of each step is a lemma named after the action (`LaunchInv`,
`WaitOkInv`, ...); `RunStepInv` puts them together. Lemmas about the operators
(`SliceOnce`, `ClientGroupsOnce`, `SpreadOnce`, `TasksOfOnce`) say that cutting
clients into groups names each once. For the refinement, `InsideTask` and
`BetweenTasks` evaluate the mapping, and `LockStepStep` takes each action to a
step of `LockStep` or to a stutter.

Four more theorems of `StackupProofs`, from `RunInv`:

* `SerialBoundAlways`. `GroupsFit` and `TasksOfFit` bound every group that
  `processClientsInGroups` cuts; `TasksFit` keeps this for the tasks of the command
  under way (`TasksKept`: only `NextCommand` begins one), and `FitBounds` counts: what
  runs is what the task has started.
* `StartedAwaitedAlways`. `Ending` looks at all steps that end the process: while
  commands may run it is only a start that fails.
* `DownloadsApartAlways`, from `DownInv`. `FlatAlone`: a name is flat only if a part of
  a command of that name has run on one client and no task is to run it on another (`Single`); `PlainAlone`: each
  download of a remote client that has no name in its path was made after such a use.
  `TasksAlike` and `AloneNow` go from the task with one client to the part that ran on it, which is
  what the property speaks of (`UsedAlone`). Two paths that keep the name are one only if
  the names are.

* `ExitZeroMeansDoneAlways`, under `HasHosts`: every play has hosts. (A network
  without hosts is given up at its connections without any host having failed;
  status 0 then means nothing. The run's playbooks satisfy it too.)

For the last, `DoneInv` follows the history `ran`: a client has run a part of the current command exactly
if it is in a task that is over, or in this one and waited for (`TasksSoFar`); what
is over is `Covered` (`CoveredSoFar`). `TasksReach` and `GroupsCover` carry the
weight: the groups cut out of the slice, taken together, are all of it, which with
`GroupOf` is division with a remainder.

`ScriptStageProofs` (about `StSpec`): `StagedImplements` (`StSpec => Spec`) makes the
theorems about `Spec` hold with staged files, and `RunInv` with them. On it rests `StInv`,
from which follow `StageTypeCorrect`, `SuccessMeansRanAlways`, `OwnEnvironmentAlways`,
`NoOtherScriptAlways` and `HomesCleanedAlways`:

* `StagingPlace`: files are put only for the client that is being started, and in order.
* `LinesEnded`: a command has ended well only if its shell line ran to its end without a failure.
* `FilesKnown`: a file in a home is what an earlier invocation left there, or belongs to
  a client of the current task that uses this home, or is cut to nothing by the staging
  under way. `LinesClean`: when all lines started in a home have ended well, it is
  empty. Together they say that nothing passes from one task to the next.
* `ScriptsKnown`: so a running line can have run only its own script, none, one cut to nothing,
  or the old one.
* `AloneFiles`, `AloneRan`: in a home of one's own each file is in place from its
  staging until the line reads it, and what the line has read is recorded.
* `SharedFiles`, `SharedRan`: the same, weaker, for remote clients that share a home. As
  long as a line has not begun to run its script, the script is whole, or gone, or cut to
  nothing; the last needs a third client (`Paired` excludes it).

`NamespacesProofs` (about `NsSpec`): `NamespacesImplement` (`NsSpec => Spec`) in the same way, and

* `NamespacesTypes`, `NoForeignVariableAlways`, from `NsInv`: lines in a file or in flight were
  registered in that home (`LinesKept`), the store holds under each key only what was meant
  for it (`StoreMeant`), a client only what was meant for its host or tube
  (`EnvMeant`). A file of several lines is folded into the store by the last line of
  each variable; `LastOne` says that there is one.
* `TubesEmptiedAlways`, from `Emptied`: outside of a task every home is empty, and a
  client of the task whose home is not is still running or being fetched.
* `TubeHandedOnAlways`, from `TubeInv`. A line that was registered for a tube is in its home
  until it, or a value registered by no earlier task, is in the store (`TubesKept`), also while two
  fetches of one home interleave: the one that has read the file and the one that is to
  remove it each carry the line, or the store already has it. Files hold only lines of the
  current task (`FilesHere`), and this is why no older value comes back over a newer one.
  `RegisteredPlaced` and `FetchHeld` say whose lines and fetches there can be, `TubesGiven`
  what a started client has from its tube.

`TaskInputProofs` (about `InSpec`, with `RunInv`, which input's own ways to stop keep):

* `InputTypeCorrect`, `InputInOrderAlways`, from `OrderInv`. Pipes belong to the clients of
  this task or to tasks that are over (`PipesPlaced`); one is open only while its command
  runs (`PipesOpen`); at most one goroutine has a pipe of the current task to write to
  (`FeedersKnown`), because a goroutine of an earlier task has only pipes of that
  task. What pipes were given rises from task to task (`DeliveredRises`), and the piece
  that is being written is new to those still to be given it (`ChunkNew`). `FirstTask` and
  `FirstInOrder` say more of the first task with input, whose goroutine has no rival.
* `InputWholeAlways`, from `WholeInv`: in a task without failures all clients were started, so
  a pipe is closed only after the whole input was written, and read to its end
  before the command ends.
* `InputFailsNothingAlways`, under `HasHosts`, from `CalmInv`: as long as nothing has failed each
  task is started on all of its clients and no goroutine was given a client without
  a pipe. `DoneInv` of `StackupProofs` serves as it stands.

`TestConnectionsProofs` (about `TestSpec`): `TestTypeCorrect`, `TruthfulMarksAlways`,
`BastionErrorStopsAlways`. `TestConnections` drives `Connect`'s own actions, so the step lemma of
`ConnInv` is used as it is; `NamesWhole` and `NamesOnly` add that the failed names
from which the marks are made are those of all failed hosts and of no other, and
`NetHeld` that a bastion's error is of the network the process is in.

`PlayProofs`:

* `PlaySetupTypeCorrect`, from `PlaceInv`: where the process is, which parts of the command have a
  task, which clients have variables.
* `HostsAsFilteredAlways`, from `HostsInv`: until its play is checked a Network object is as
  in the Supfile (`Raw`), then filtered once, or in makefile mode any number of times
  (`FilteredAgain`). What the filters do to a list is `Filtered`, a recursive function;
  `FilteredKeeps` (which elements stay, and how often) is proved along its positions.
* `NearestWinsAlways`, `ReferencesResolveAlways`, from `ValueInv`: the maps of the networks after
  `-e` (`NetEnvRead`), the keys that `-e` adds (`OddsKnown`), which variables are resolved
  and to what (`Became`) while the keys come in any order, those in `late` after the key they
  refer to (`PlayResolved`), and the same while commands
  write into the one map (`CommandsResolved`: the last command that set a variable, else `-e`,
  else the Supfile).
* `BookTypeCorrect`, from `BookPlaces`: what each mode knows of its input.
* `PlaysAsWrittenAlways`, from `BookInv`. If names are plain, each text is at all times what
  it was or its bare command (`TextsRewritten`), a command's network is that of one of its texts
  (`AffixWritten`), and all texts that were read have theirs (`AffixRead`); hence after the
  reading every text is its command and every command has its network (`AfterReading`).
  `SpecialSoFar`, `NormalSoFar` and `MakefileSoFar` say what the play or the playbook is after so many
  arguments; `JoinedGrows` is the lemma about lists one after the other.

`TransferProofs` (about `TrSpec`, for any trees, orders and number of invocations):
`TransferTypes`, `SuccessCopies`, `FailureEnds`, `ArrivedStays`. `SuccessCopies` promises no more than
the code does: an invocation that reports nothing has all its uploads whole, and its
fetches up to the first that failed. `TrInv` is the usual
loop invariant, over a tree: what has been visited has arrived (`Whole`), what has
not is as it was (`Untouched`), and with a directory that was listed everything
in it was visited or is in `todo` (`Walked`), so that with an empty `todo` the visited
paths are closed and contain all that is reachable. `Earlier` and `Later` frame the
other orders.

Inductions over a length (`FilteredKeeps`, `JoinedGrows`) go through `Climbs`, which takes the
least number without the property: the induction theorems of the library have an operator
as parameter, which the provers do not instantiate. For the same reason `Filtered` and
`JoinedTo` are recursive functions and not recursive operators.

**Only model-checked.** The two liveness properties, `ConnectSettles` and `Termination`: fairness
and ENABLED are beyond the prover. Of the three runs that show where documentation and code part
the violation is TLC's; there is nothing to prove.

## 6. Where documentation and code part

Three runs check one statement of the documentation each, on the smallest instance,
and TLC shows a behaviour that breaks it. The wording and the lines are in
`PROJECT.json`, "findings".

| Run | What happens |
|---|---|
| `doc_connect_failure` | a host that cannot be connected, without `-z`: its play is skipped and the status is 0 (`run.go:74` wraps a nil error) |
| `doc_second_command` | the second command of a play is refused by a remote connection, which keeps its first session |
| `doc_script_failure` | under sudo the shell line stands in double quotes, the outer shell replaces its `$?`, and a script that fails counts as successful (`sudo_formatter.go:171-178`) |

More surprises of the code are in the models as they are in the code, and the
passing properties are stated around them:

| In the code | In the model | Stated around it |
|---|---|---|
| with `-z`, entries `a:22` and `u@a:22`: when the first fails, the second, connected, is dropped, for the sweep goes by name (`run.go:138`) | `SweepHit` | `LostOnlyByName`; `ReachableKeptIfDistinct` assumes it away |
| a `serial` command without a `local:` part panics (`create_tasks.go:227`) | `TasksPanic` | `InputFailsNothing` lists it |
| in makefile mode with several arguments the commands of earlier ones run again (`mode_makefile.go:62`) | `Playbook`'s makefile mode | `PlaysAsWritten` leaves it out |
| what a local part registers reaches no remote command (`localhost.go:283` looks for a file nobody writes; `docs/mods/namespaces.md:76-85` shows it working) | `LocalWaitOk` | `TubeHandedOn` speaks of remote writers |
| a remote command with `stdin: true` is refused when ssup's input is not a terminal (`ssh.go:365-369`; `docs/base/commands.md:106-108` pipes a file) | `GetSizeFails` | `InputFailsNothing` lists it |
| `-e v=l` may give the variable the value `l=` (`env_tools.go:21`, against `README.md:121`: "Set environment variables") | `FlagKeys`, `Exported` | `NearestWins` and `ReferencesResolve` allow `Odds` |
| `-e` without `=` panics (`env_tools.go:27`) | `FlagPanics` | |
| variables of a command stay set for the later commands of its play, also over `-e` (`create_tasks.go:157`) | `CreateTask` | `NearestWins` speaks of the last command that set it |
| script parts get no variables of the Supfile | `WithTask` | `HasVars` |
| the user of the last matched ssh_config alias applies to every host without one (`init_flags_and_checks.go:66`); in makefile mode the added hosts accumulate | `CheckInitialArgs` | `HostsAsFiltered` counts hosts outside of makefile mode only, and there allows what an added host's alias adds |
| a network without hosts is skipped with status 0: `ErrNetworkNoHosts` (`entity/errors.go:11`) is never returned | `ConnectRefused` | `HasHosts` |
| a failed download only cancels the context, and nothing reads that again if no task follows (`run.go:306`): status 0, with files missing or cut short | `FetchFails`, `StepFails` | `FailureReported` excludes downloads; `CopiedWhole` promises fetches only up to the one that failed, `FailureStops` an error only if a task follows |
| a command's empty run text becomes one empty line, so that a command with only `local:` also starts on all hosts (`command.go:106`) | `processSourceLinks` | `Covered` counts that part as one to run |
| behind a bastion no remote host has an ssh configuration (`ssh.go:265`) | `HostUnconfigured` | `ExitZeroMeansDone`, which such a play does not reach without `-z` |
| the inventory of a lost host panics the process, `-z` or not (`gather_inventory.go:79`) | `InventoryPanics` | the properties speak of status 0, or of processes that live |
| with no client left, the failed names are replaced by `all`, and `-t` then marks all hosts `YES` (`run.go:150`, `parse_args.go:96`) | `SweepEnds`, `MarkOf` | `TruthfulMarks` asks for a client that is left |
| a mapped command rewrites every text that contains its name, and has one network for all targets (`target.go:67-75`) | `ReadItem` | `PlainNames` in `PlaysAsWritten` |
| `$SUP_NETWORK` is the first target's name when targets choose the networks, unless the network is called `localhost` (`env_tools.go:43-49`) | `NetworkNamed` | `PlaysAsWritten` leaves that mode out |
| connecting a host empties its namespace, so what is registered for a host does not reach the next play (`ssh.go:295`) | `Renewed` | `TubeHandedOn` speaks of tubes, and of none named like a host |
| errors of the fetch of `_tube_data` and of its removal are dropped (`ssh.go:497`) | `DownloadTube`, `RemoveTube` | `TubeHandedOn`, `TubesEmptied` exclude them |
| `Flat` stays set after a task with one client, a local part among them (`run.go:300`), and the downloads of several hosts then have one path | `MarkFlat` | `DownloadsApart` allows it where each remote download came after such a part (`UsedAlone`) |
| the downloads of two entries of one machine, `a:22` and `u@a:22`, have one path (`download.go:61`) | `Suffix` | `DownloadsApart` allows it for one connected name |
| "maintains order, enabling late variables to reference early variables" (`env_v2.go:26-27`): the variables are in a Go map, whose order is random, and a variable that is resolved before the one it refers to gets the value that one has in ssup's own environment, or nothing | `ResolveKey`, in any order of keys | `ReferencesResolve` says which of the two values it is: by `late`, the order there was |
| a refused or failed start returns at once and leaves commands running (`run.go:258`) | `RunRejected`, `RunFails` | `StartedAwaited` excludes it |
| local clients of one command, which share a home, and clients under sudo that do, remove each other's staged files (`sudo_formatter.go:187`) | `CleanUp` | `OwnEnvironment` asks for a home of one's own, and `SuccessMeansRan` where the clients are local or under sudo |
| of three remote clients in one home the first may remove the script, the third create it again, and the second run it before it is written: it counts as successful without having run anything (`upload.go:257-269`) | `CreateFile`, `WriteFile` | `SuccessMeansRan` allows it, unless there are only two (`Paired`) |
| a staged script or a copied file is taken for the new one when its size is the same (`upload.go:249`, `download.go:112`) | `SameSize`, `UpToDate` | `Fresh`, `Told` |
| a directory that cannot be listed is uploaded as an empty one: the error the walk hands over is dropped (`upload.go:193-195`) | `VisitDir` | `Reachable` ends there |
| a file that vanishes during an upload panics the process (`upload.go:210`) | `FileVanishes` | counted as a failure |

## 7. What is not modelled

* Host texts, reading YAML, inventories by script, keys and passwords, help: data to
  data, or another program's work; their results are constants of the modules.
* Signals: `handleSignals` is called by nothing.
* Of variables: quoting, `EnvList.Slice` (used for the inventory script only), `SUP_ENV` and
  `SUP_TIME`, which are texts made of the rest.
* Of transfers: symbolic links, modes and the path prefixes of `Flat`.
* A connection that drops and is dialled again (`ssh.go:320`) is part of "a start
  fails or works".
* The wire: ssh, sftp, pseudo terminals and sudo are external. A step that uses them
  works or fails; the shell on a host is modelled by the line it is given.

## 8. The plan

1. `Connect`, `Stackup`, `LockStep` and their proofs: done.
2. `TestConnections`, `Playbook`, `Namespaces`: done.
3. `ScriptStage`, `TaskInput`, `PlaySetup`, `Transfer`: done.
4. Proofs of all invariants and action properties the runs check, and of the
   refinements `StagedImplements`, `NamespacesImplement` and `LockStepImplemented`: done.
5. A module for the texts of a host, which would give the constants of `Connect` and
   show when `DistinctNames` holds.
6. An abstract specification of what standard input promises (each reading command of
   one task gets one prefix), which `TaskInput` implements: today it is `InputInOrder`.
