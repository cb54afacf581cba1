------------------------------ MODULE PlaySetup ------------------------------
(***************************************************************************)
(* The hosts and the variables of each play of an invocation               *)
(* (cmd/ssup/main.go:91-138): --only, --except and --sshconfig change the  *)
(* hosts (src/usecase/init_flags_and_checks.go:18-117); the Supfile, the   *)
(* network, -e and the commands set variables                              *)
(* (src/usecase/appinit/env_tools.go, process_env.go,                      *)
(* src/usecase/envs_resolve/envlist_resolve_vals.go,                       *)
(* src/usecase/create_tasks.go:27-165), until the shell of a command has   *)
(* read its exports.  An EnvList is a Go map: its keys come in any order,  *)
(* and what is called a copy of it is the same map.  SUP_ENV and SUP_TIME, *)
(* namespaces, and what cannot be quoted are left out.                     *)
(***************************************************************************)
EXTENDS Integers, FiniteSets, FiniteSetsExt, Functions, Sequences

CONSTANTS
    Var,        \* names of variables
    Lit,        \* plain values
    OsEnv,      \* ssup's own environment
    Network,    \* names of networks
    NetHosts,   \* their host texts in the Supfile
    LocalHost,  \* host texts that mean this machine
    UserOf,     \* host texts, and the user in each, or ""
    Me,         \* who runs ssup
    Setups,     \* invocations
    ValueMayFail \* the command of a "$(...)" may fail

\* A value is a text, "$v", or "$(command)" that prints a text.
Lits(l) == [kind |-> "text", of |-> l]
Ref(v) == [kind |-> "ref", of |-> v]
Subshell(l) == [kind |-> "shell", of |-> l]
\* "l=", which the shell makes of a key "v=l" (see Exported).
Odd(l) == [kind |-> "odd", of |-> l]
Empty == Lits("")
Value == {Lits(l) : l \in Lit \cup {""}} \cup {Ref(v) : v \in Var}
         \cup {Subshell(l) : l \in Lit} \cup {Odd(l) : l \in Lit}

\* A key of an EnvList: <<v>> is the name v, <<v, l>> the name "v=l".
Key == {<<v>> : v \in Var} \cup {<<v, l>> : v \in Var, l \in Lit}
IsEnvList(e) == DOMAIN e \subseteq Key /\ \A k \in DOMAIN e : e[k] \in Value
IsSeq(s) == s \in Seq(Range(s))
NoEnv == [k \in {} |-> Empty]
Set(e, k, x) == [j \in DOMAIN e \cup {k} |-> IF j = k THEN x ELSE e[j]]
\* The keys of s are set over those of e.
SetAll(e, s) == [j \in DOMAIN e \cup DOMAIN s |-> IF j \in DOMAIN s THEN s[j] ELSE e[j]]

Part == {"script", "local", "run"}
Host == DOMAIN UserOf

\* Names in a Supfile have no "=".
IsSupEnv(e) == IsEnvList(e) /\ DOMAIN e \subseteq {<<v>> : v \in Var}
IsCommand(c) == IsSupEnv(c.env) /\ c.parts \subseteq Part
IsPlay(p) == p.network \in Network /\ IsSeq(p.cmds) /\ \A j \in DOMAIN p.cmds : IsCommand(p.cmds[j])
IsSshConfig(f) ==
    DOMAIN f \subseteq Host /\ \A h \in DOMAIN f : f[h].to \in Host /\ f[h].user \in Lit \cup {""}

\* In makefile mode all plays are on one network.
IsSetup(s) ==
    /\ IsSupEnv(s.conf) /\ \A n \in Network : IsSupEnv(s.netEnv[n])
    /\ IsSeq(s.plays) /\ s.plays # <<>> /\ \A i \in DOMAIN s.plays : IsPlay(s.plays[i])
    /\ s.flags \in Seq(Key) /\ s.firstArg \in Lit
    /\ s.makefile => \A i, j \in DOMAIN s.plays : s.plays[i].network = s.plays[j].network
    /\ IsSshConfig(s.sshconfig)

ASSUME PlaySetupAssumption ==
    /\ {"SUP_HOST", "SUP_USER", "SUP_NETWORK"} \subseteq Var
    /\ Host \subseteq Lit /\ UserOf \in [Host -> Lit \cup {""}] /\ Me \in Lit
    /\ "localhost" \in LocalHost \cap Lit
    /\ OsEnv \in [Var -> {Lits(l) : l \in Lit \cup {""}}]
    /\ NetHosts \in [Network -> Seq(Host) \ {<<>>}]
    /\ \A s \in Setups : IsSetup(s)
    /\ ValueMayFail \in BOOLEAN

VARIABLES
    setup,     \* the invocation
    pc, exit,
    netEnv,    \* the map of each network, shared by all copies of it
    network,   \* the Network object of each play: its hosts and user
    play, cmd, \* indices
    parts,     \* parts of the command that have no task yet
    vars,      \* the map of the play's variables, shared by its tasks
    todo,      \* its keys that are still to be resolved
    late,      \* history: keys resolved after the key their value names
    exported,  \* what the exports collected so far give each variable
    clientEnv, \* the map of each client of the play
    tasks,     \* parts of the command whose task has not run yet
    shell      \* the last task that ran: what a client's shell has for a variable

psVars == <<setup, pc, exit, netEnv, network, play, cmd, parts, vars, todo, late,
            exported, clientEnv, tasks, shell>>

Play == setup.plays[play]
Cmd == Play.cmds[cmd]

\* In makefile mode the plays have one object, else each has its own.
Object(p) == IF setup.makefile THEN 1 ELSE p
Net == network[Object(play)]
Clients == Range(Net.hosts)

NoShell == [client |-> "none", part |-> "none", var |-> "SUP_HOST", sees |-> Empty]

PSInit ==
    /\ setup \in Setups
    /\ pc = "args" /\ exit = "none"
    /\ netEnv = setup.netEnv
    /\ network = [p \in DOMAIN setup.plays |->
                     [hosts |-> NetHosts[setup.plays[p].network], user |-> ""]]
    /\ play = 1 /\ cmd = 1 /\ parts = <<>> /\ tasks = <<>>
    /\ vars = NoEnv /\ todo = {} /\ late = {} /\ exported = OsEnv
    /\ clientEnv = [h \in {} |-> NoEnv] /\ shell = NoShell

Exit(code) == exit' = code /\ pc' = "ended"

----------------------------------------------------------------------------
(* Before the plays: overrideEnvFromArgs and addSSUPDefaultEnvs *)

\* Where "=" is found at a position above 0 the whole of "v=l" becomes a name.
FlagKeys == [k \in Range(setup.flags) |-> Empty]
Malformed == \E k \in Range(setup.flags) : Len(k) = 1

\* The network that SUP_NETWORK names: the first argument, unless the play is
\* on the network called localhost.
DefaultNetwork(n) == IF n = "localhost" THEN "localhost" ELSE setup.firstArg

ReadArgs ==
    /\ pc = "args" /\ ~Malformed
    /\ netEnv' = [n \in Network |->
           IF \E p \in Range(setup.plays) : p.network = n
             THEN Set(SetAll(netEnv[n], FlagKeys), <<"SUP_NETWORK">>, Lits(DefaultNetwork(n)))
             ELSE netEnv[n]]
    /\ pc' = "play"
    /\ UNCHANGED <<setup, exit, network, play, cmd, parts, vars, todo, late, exported, clientEnv,
                   tasks, shell>>

\* env[:i] with i = -1.
FlagPanics ==
    /\ pc = "args" /\ Malformed
    /\ Exit("panic")
    /\ UNCHANGED <<setup, netEnv, network, play, cmd, parts, vars, todo, late, exported, clientEnv,
                   tasks, shell>>

----------------------------------------------------------------------------
(* The hosts: CheckInitialArgs *)

\* The elements of s that are in S, in their order.
Filtered(s, S) ==
    LET upTo[i \in 0 .. Len(s)] ==
            IF i = 0 THEN <<>>
            ELSE IF s[i] \in S THEN Append(upTo[i - 1], s[i]) ELSE upTo[i - 1]
    IN upTo[Len(s)]

Only == Filtered(Net.hosts, setup.only)
\* Mutant of Except: --except starts again from all hosts.
ExceptOfAll == Filtered(Net.hosts, Host \ setup.except)
Except == Filtered(Only, Host \ setup.except)
Aliases == Filtered(Except, DOMAIN setup.sshconfig)

CheckInitialArgs ==
    /\ pc = "play"
    /\ \/ /\ "only" \in setup.bad /\ Exit("44")
          /\ UNCHANGED network
       \/ /\ "only" \notin setup.bad /\ Only = <<>> /\ Exit("45")
          /\ UNCHANGED network
       \/ /\ "only" \notin setup.bad /\ Only # <<>>
          /\ \/ "except" \in setup.bad /\ Exit("42")
             \/ "except" \notin setup.bad /\ Except = <<>> /\ Exit("43")
             \/ /\ "except" \notin setup.bad /\ Except # <<>>
                /\ "sshconfig" \in setup.bad /\ Exit("41")
          /\ UNCHANGED network
       \/ /\ setup.bad = {} /\ Except # <<>>
          /\ network' = [network EXCEPT ![Object(play)] =
                [hosts |-> Except \o [i \in DOMAIN Aliases |-> setup.sshconfig[Aliases[i]].to],
                 user |-> IF Aliases = <<>> THEN @.user ELSE setup.sshconfig[Aliases[Len(Aliases)]].user]]
          /\ pc' = "merge" /\ UNCHANGED exit
    /\ UNCHANGED <<setup, netEnv, play, cmd, parts, vars, todo, late, exported, clientEnv, tasks,
                   shell>>

----------------------------------------------------------------------------
(* The variables of a play: MergeVars, ResolveValues, SetEnvValues *)

\* Mutant of Merged: the Supfile's variables over the network's.
MergedSwapped == SetAll(netEnv[Play.network], setup.conf)
Merged == SetAll(setup.conf, netEnv[Play.network])

StartResolving(e) == vars' = e /\ todo' = DOMAIN e /\ exported' = OsEnv

MergeVars ==
    /\ pc = "merge"
    /\ StartResolving(Merged) /\ late' = {}
    /\ pc' = "resolve"
    /\ UNCHANGED <<setup, exit, netEnv, network, play, cmd, parts, clientEnv, tasks, shell>>

\* export k='x'; keeps x as it is written, and export v=l=''; sets v to "l=".
Exported(e, k, x) == [e EXCEPT ![k[1]] = IF Len(k) = 1 THEN x ELSE Odd(k[2])]

\* Mutant of Echoed: a reference is left to the host.
EchoedRaw(x, e) == IF x.kind = "shell" THEN Lits(x.of) ELSE x
\* What `echo -n x` prints after the exports e.
Echoed(x, e) ==
    CASE x.kind = "ref" -> e[x.of]
      [] x.kind = "shell" -> Lits(x.of)
      [] OTHER -> x

Resolving == pc \in {"resolve", "resolveCommand"}

\* The variable that k's value names has its export already.
FollowsRef(k) == vars[k].kind = "ref" /\ <<vars[k].of>> \in DOMAIN vars \ todo

\* Keys come in any order.
ResolveKey(k) ==
    /\ Resolving /\ k \in todo
    /\ exported' = Exported(exported, k, vars[k])
    /\ vars' = [vars EXCEPT ![k] = Echoed(@, exported')]
    /\ todo' = todo \ {k}
    /\ late' = IF pc = "resolve" /\ FollowsRef(k) THEN late \cup {k} ELSE late
    /\ UNCHANGED <<setup, pc, exit, netEnv, network, play, cmd, parts, clientEnv, tasks, shell>>

ResolveFails(k) ==
    /\ Resolving /\ k \in todo /\ vars[k].kind = "shell" /\ ValueMayFail
    /\ Exit("2")
    /\ UNCHANGED <<setup, netEnv, network, play, cmd, parts, vars, todo, late, exported, clientEnv,
                   tasks, shell>>

\* The last -e for v.
FlagsFor(v) == {i \in DOMAIN setup.flags : setup.flags[i][1] = v}
FlagValue(v) == LET i == Max(FlagsFor(v)) IN Lits(setup.flags[i][2])
Flagged == {v \in Var : FlagsFor(v) # {}}

WithFlags(e) == SetAll(e, [k \in {<<v>> : v \in Flagged} |-> FlagValue(k[1])])

\* SetEnvValues, and the clients of Run.
StartPlay ==
    /\ pc = "resolve" /\ todo = {}
    /\ vars' = WithFlags(vars)
    /\ clientEnv' = [h \in Clients |-> Set(NoEnv, <<"SUP_HOST">>, Lits(h))]
    /\ pc' = "command" /\ cmd' = 1
    /\ UNCHANGED <<setup, exit, netEnv, network, play, parts, todo, late, exported, tasks, shell>>

----------------------------------------------------------------------------
(* The commands: CreateTasks and Run *)

NextCommand ==
    /\ pc = "command" /\ cmd <= Len(Play.cmds)
    /\ parts' = Filtered(<<"script", "local", "run">>, Cmd.parts)
    /\ pc' = "create"
    /\ UNCHANGED <<setup, exit, netEnv, network, play, cmd, vars, todo, late, exported, clientEnv,
                   tasks, shell>>

\* A script has no variables of its own, and a command's are set only for the
\* other parts, in the map of the play, which is resolved again.
CreateTask ==
    /\ pc = "create" /\ parts # <<>>
    /\ tasks' = Append(tasks, Head(parts)) /\ parts' = Tail(parts)
    /\ IF Head(parts) = "script" \/ DOMAIN Cmd.env = {}
         THEN UNCHANGED <<pc, vars, todo, exported>>
         ELSE StartResolving(SetAll(vars, Cmd.env)) /\ pc' = "resolveCommand"
    /\ UNCHANGED <<setup, exit, netEnv, network, play, cmd, late, clientEnv, shell>>

CommandResolved ==
    /\ pc = "resolveCommand" /\ todo = {}
    /\ pc' = "create"
    /\ UNCHANGED <<setup, exit, netEnv, network, play, cmd, parts, vars, todo, late, exported,
                   clientEnv, tasks, shell>>

TasksCreated ==
    /\ pc = "create" /\ parts = <<>>
    /\ pc' = "run"
    /\ UNCHANGED <<setup, exit, netEnv, network, play, cmd, parts, vars, todo, late, exported,
                   clientEnv, tasks, shell>>

User(h) == IF UserOf[h] # "" THEN UserOf[h] ELSE IF Net.user # "" THEN Net.user ELSE Me

\* Run and InjectNamespacesAndEnvs put the task's variables into the client's.
WithTask(e, h, part) ==
    IF part = "script" THEN e
    ELSE IF h \in LocalHost THEN SetAll(e, vars)
    ELSE Set(SetAll(e, vars), <<"SUP_USER">>, Lits(User(h)))

\* AsExport, in any order: what variable v can be at the end.  A local shell
\* starts with ssup's own environment, a host's is not known.
Sees(e, h, v) ==
    LET set == {e[k] : k \in DOMAIN e \cap {<<v>>}}
               \cup {Odd(k[2]) : k \in {j \in DOMAIN e : Len(j) = 2 /\ j[1] = v}} IN
    IF set # {} THEN set ELSE {IF h \in LocalHost THEN OsEnv[v] ELSE Empty}

\* The local part has a client of its own, with no other variable than SUP_HOST.
EnvsAfter(part) ==
    IF part = "local"
      THEN LET e == Set(NoEnv, <<"SUP_HOST">>, Lits("localhost"))
           IN [h \in {"localhost"} |-> WithTask(e, h, part)]
      ELSE [h \in Clients |-> WithTask(clientEnv[h], h, part)]

RunTask ==
    /\ pc = "run" /\ tasks # <<>>
    /\ LET part == Head(tasks) e == EnvsAfter(part) IN
         /\ clientEnv' = IF part = "local" THEN clientEnv ELSE e
         /\ \E h \in DOMAIN e, v \in Var : \E x \in Sees(e[h], h, v) :
              shell' = [client |-> h, part |-> part, var |-> v, sees |-> x]
    /\ tasks' = Tail(tasks)
    /\ UNCHANGED <<setup, pc, exit, netEnv, network, play, cmd, parts, vars, todo, late, exported>>

CommandDone ==
    /\ pc = "run" /\ tasks = <<>>
    /\ pc' = "command" /\ cmd' = cmd + 1 /\ shell' = NoShell
    /\ UNCHANGED <<setup, exit, netEnv, network, play, parts, vars, todo, late, exported, clientEnv,
                   tasks>>

\* Mutant of PlayDone: one play too many.
PlayDoneLate ==
    /\ pc = "command" /\ cmd > Len(Play.cmds)
    /\ IF play > Len(setup.plays) THEN Exit("0") /\ UNCHANGED play
                                  ELSE pc' = "play" /\ play' = play + 1 /\ UNCHANGED exit
    /\ UNCHANGED <<setup, netEnv, network, cmd, parts, vars, todo, late, exported, clientEnv, tasks,
                   shell>>

PlayDone ==
    /\ pc = "command" /\ cmd > Len(Play.cmds)
    /\ IF play = Len(setup.plays) THEN Exit("0") /\ UNCHANGED play
                                  ELSE pc' = "play" /\ play' = play + 1 /\ UNCHANGED exit
    /\ UNCHANGED <<setup, netEnv, network, cmd, parts, vars, todo, late, exported, clientEnv, tasks,
                   shell>>

Ended == pc = "ended" /\ UNCHANGED psVars

PSNext ==
    \/ ReadArgs \/ FlagPanics \/ CheckInitialArgs \/ MergeVars
    \/ \E k \in todo : ResolveKey(k) \/ ResolveFails(k)
    \/ StartPlay \/ NextCommand \/ CreateTask \/ CommandResolved \/ TasksCreated
    \/ RunTask \/ CommandDone \/ PlayDone \/ Ended

PSSpec == PSInit /\ [][PSNext]_psVars

----------------------------------------------------------------------------

PlaySetupTypeOK ==
    /\ setup \in Setups /\ play \in DOMAIN setup.plays
    /\ pc \in {"args", "play", "merge", "resolve", "command", "create", "resolveCommand", "run",
               "ended"}
    /\ exit \in {"none", "0", "2", "41", "42", "43", "44", "45", "panic"}
    /\ IsEnvList(vars) /\ \A n \in Network : IsEnvList(netEnv[n])
    /\ todo \subseteq DOMAIN vars /\ late \subseteq Key /\ exported \in [Var -> Value]
    /\ \A h \in DOMAIN clientEnv : IsEnvList(clientEnv[h])
    /\ shell.var \in Var /\ shell.sees \in Value

Underway == pc \notin {"args", "play", "ended"}

\* The places in s of elements of S.
Places(s, S) == {i \in DOMAIN s : s[i] \in S}

\* Every play has the hosts its network has in the Supfile, less what --only and
\* --except take away, and what --sshconfig adds to these: each as often as the
\* Supfile lists it, unless plays of makefile mode share their object; and there
\* also what it adds to what it added (src/usecase/init_flags_and_checks.go:38-116).
HostsAsFiltered ==
    Underway =>
        LET listed == NetHosts[Play.network]
            asked == (Range(listed) \cap setup.only) \ setup.except
            known == asked \cap DOMAIN setup.sshconfig
            added == {setup.sshconfig[a].to : a \in known}
        IN /\ asked # {} /\ asked \subseteq Clients
           /\ Clients \subseteq asked \cup {setup.sshconfig[a].to : a \in DOMAIN setup.sshconfig}
           /\ (setup.makefile => added \cap DOMAIN setup.sshconfig = {}) =>
                 Clients = asked \cup added
           /\ ~setup.makefile => Len(Net.hosts) = Cardinality(Places(listed, asked))
                                                  + Cardinality(Places(listed, known))

\* What the Supfile gives v for this play: the network's value before its own.
\* ssup itself sets SUP_NETWORK.
InSupfile(v) == \/ v = "SUP_NETWORK"
                \/ <<v>> \in DOMAIN setup.conf \cup DOMAIN setup.netEnv[Play.network]
PlayValue(v) ==
    CASE v = "SUP_NETWORK" -> Lits(DefaultNetwork(Play.network))
      [] v # "SUP_NETWORK" /\ <<v>> \in DOMAIN setup.netEnv[Play.network] ->
            setup.netEnv[Play.network][<<v>>]
      [] v # "SUP_NETWORK" /\ <<v>> \notin DOMAIN setup.netEnv[Play.network] ->
            IF <<v>> \in DOMAIN setup.conf THEN setup.conf[<<v>>] ELSE Lits("")
Setters(v) == {j \in 1 .. cmd : /\ <<v>> \in DOMAIN Play.cmds[j].env
                                /\ Play.cmds[j].parts \cap {"local", "run"} # {}}
Odds(v) == {Odd(setup.flags[i][2]) : i \in FlagsFor(v)}
HasVars == shell.part \in {"local", "run"} /\ shell.var \notin {"SUP_HOST", "SUP_USER"}

\* A variable has, in the shell of every run and local part, the plain value of
\* the last command of this play that set it; else that of the last -e; else its
\* network's; else the Supfile's: never one of another play, of another network
\* or of a level further away (src/usecase/appinit/process_env.go:54-82,
\* src/usecase/create_tasks.go:126-165).  Where -e names the variable it may be
\* "l=" instead (src/usecase/appinit/env_tools.go:21).
NearestWins ==
    HasVars =>
        LET v == shell.var IN
        IF Setters(v) # {}
          THEN LET x == Play.cmds[Max(Setters(v))].env[<<v>>] IN
               x.kind = "text" => shell.sees \in {x} \cup Odds(v)
          ELSE IF v \in Flagged THEN shell.sees \in {FlagValue(v)} \cup Odds(v)
          ELSE (InSupfile(v) /\ PlayValue(v).kind = "text") => shell.sees = PlayValue(v)

\* A value "$w" of the Supfile or the network is, in every command of the play,
\* the value w has there if w was resolved first, and the one ssup itself was
\* started with if not: the order "late variables" need (env_v2.go:26-27) is
\* that of a Go map.  Nothing later changes it, no command that sets w and no
\* second resolving, and the host never gets the text "$w"
\* (src/usecase/envs_resolve/envlist_resolve_vals.go:20-61).
ReferencesResolve ==
    (HasVars /\ Setters(shell.var) = {} /\ shell.var \notin Flagged) =>
        LET x == PlayValue(shell.var) w == x.of IN
        (x.kind = "ref" /\ w # shell.var /\ PlayValue(w).kind = "text") =>
            shell.sees \in Odds(w) \cup {IF <<shell.var>> \in late THEN PlayValue(w) ELSE OsEnv[w]}
=============================================================================
