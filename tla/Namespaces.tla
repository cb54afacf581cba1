----------------------------- MODULE Namespaces -----------------------------
(***************************************************************************)
(* How variables pass from one command to the next.  A command appends     *)
(* lines to the file _tube_data of its home with the shell function        *)
(* `register` (src/gateway/sudo_formatter/sudo_formatter.go:21-49); the    *)
(* Wait of a remote client fetches and removes the file and writes its     *)
(* lines into the store of namespaces (src/gateway/ssh/ssh.go:459-507,     *)
(* src/gateway/namespace/namespace.go:258-343); and Run gives a command    *)
(* the variables of its host's namespace and of its tube                   *)
(* (namespace.go:29-61).  The steps are those of Stackup, the fetch taken  *)
(* apart: the waiting goroutines of clients that share a home interleave.  *)
(***************************************************************************)
EXTENDS Stackup

CONSTANTS
    Var,          \* names of variables
    Key,          \* keys of the store: hosts without their port, and tubes
    HostKey,      \* dropHostPort(GetHost()) of an entry
    BastionKey,   \* the same of the bastion
    TubeOf,       \* the tube of an entry, or NoTube
    NoTube,
    OwnHost,      \* the destination of a line without a namespace
    HomeOf,       \* the home directory of a client's user
    Registers,    \* the lines each part of a command registers, in order
    TubeMayFail   \* steps of the fetch that may fail: "stat", "read", "remove"

Kind == {"script", "local", "run"}
Order == [dest : Key \cup {OwnHost}, var : Var]

\* No entry reaches this machine's own user over ssh.
ASSUME NamespacesAssumption ==
    /\ HostKey \in [Entry -> Key] /\ BastionKey \in Key
    /\ NoTube \notin Key /\ OwnHost \notin Key /\ NoTube # OwnHost
    /\ TubeOf \in [Entry -> Key \cup {NoTube}]
    /\ DOMAIN HomeOf = Client
    /\ \A c \in Client \ Remote, e \in Remote : HomeOf[c] # HomeOf[e]
    /\ \A e, f \in Remote : HomeOf[e] = HomeOf[f] => HostKey[e] = HostKey[f]
    /\ Registers \in [CmdName -> [Kind -> Seq(Order)]]
    /\ TubeMayFail \subseteq {"stat", "read", "remove"}

VARIABLES
    store,       \* Namespaces.hostStore, all unset where it has no entry
    env,         \* the client's Env: what its last command was started with
    file,        \* the lines of _tube_data in each home; empty without one
    wrote,       \* how many lines the client's command has registered
    fetch,       \* where the fetch of a waiting client is
    got,         \* the lines it has downloaded
    registered,  \* history: every line any command registered
    tubeFaults   \* history: steps of a fetch that failed

nsVars == <<store, env, file, wrote, fetch, got, registered, tubeFaults>>
fetchVars == <<wrote, fetch, got, registered, tubeFaults>>

\* A value says which command registered it: play, command, task and client.
Unset == <<>>
Value == Nat \X Nat \X Nat \X Client
NoVars == [v \in Var |-> Unset]
Line == [dest : Key \cup {OwnHost}, var : Var, val : Value]
Homes == {HomeOf[c] : c \in Client}

NamespacesTypeOK ==
    /\ store \in [Key -> [Var -> Value \cup {Unset}]]
    /\ env \in [Client -> [Var -> Value \cup {Unset}]]
    /\ file \in [Homes -> Seq(Line)]
    /\ wrote \in [Client -> Nat]
    /\ fetch \in [Client -> {"no", "read", "set", "remove"}]
    /\ got \in [Client -> Seq(Line)]
    /\ registered \subseteq Line
    /\ tubeFaults \subseteq {"stat", "read", "remove"}

NsInit ==
    /\ Init
    /\ store = [k \in Key |-> NoVars] /\ env = [c \in Client |-> NoVars]
    /\ file = [h \in Homes |-> <<>>]
    /\ wrote = [c \in Client |-> 0]
    /\ fetch = [c \in Client |-> "no"] /\ got = [c \in Client |-> <<>>]
    /\ registered = {} /\ tubeFaults = {}

----------------------------------------------------------------------------
(* The life of a client *)

NsBeginPlay ==
    /\ BeginPlay
    /\ env' = [c \in Client |-> NoVars]
    /\ UNCHANGED <<store, file, fetchVars>>

\* The client of a local part is made anew.
NsNextCommand ==
    /\ NextCommand
    /\ env' = [env EXCEPT ![LocalClient] = NoVars]
    /\ UNCHANGED <<store, file, fetchVars>>

\* Connecting a remote client, or the bastion, gives its host a new namespace:
\* what was registered for the host is gone.
Renewed(k) ==
    \/ \E e \in Remote : HostKey[e] = k /\ conn[e] = "dialing" /\ conn'[e] = "up"
    \/ k = BastionKey /\ cphase = "bastion" /\ cphase' = "dial"

Add ==
    /\ Connecting
    /\ store' = [k \in Key |-> IF Renewed(k) THEN NoVars ELSE store[k]]
    /\ UNCHANGED <<env, file, fetchVars>>

\* Mutant of InjectNamespacesAndEnvs: only the variables the tube has are kept.
InjectOnlyTube(c) ==
    LET tube == IF c \in Entry /\ TubeOf[c] # NoTube THEN store[TubeOf[c]] ELSE NoVars
    IN [v \in {w \in Var : tube[w] # Unset} |-> tube[v]]

\* The tube's variables win over the host's, and these over what the client had
\* before.  A local client has no name yet, and so no namespace of its host.
InjectNamespacesAndEnvs(c) ==
    LET tube == IF c \in Entry /\ TubeOf[c] # NoTube THEN store[TubeOf[c]] ELSE NoVars
        host == IF c \in Remote THEN store[HostKey[c]] ELSE NoVars
    IN [v \in Var |-> IF tube[v] # Unset THEN tube[v]
                      ELSE IF host[v] # Unset THEN host[v] ELSE env[c][v]]

NsLaunch ==
    /\ Launch
    /\ env' = [env EXCEPT ![CS[cur]] = InjectNamespacesAndEnvs(CS[cur])]
    /\ wrote' = [wrote EXCEPT ![CS[cur]] = 0]
    /\ UNCHANGED <<store, file, fetch, got, registered, tubeFaults>>

----------------------------------------------------------------------------
(* The running command *)

Lines == Registers[Cmd.name][tasks[task].kind]

Register(c) ==
    /\ exit = "none" /\ proc[c] = "running" /\ wrote[c] < Len(Lines)
    /\ LET order == Lines[wrote[c] + 1]
           line == [dest |-> order.dest, var |-> order.var, val |-> <<play, cmd, task, c>>]
       IN /\ file' = [file EXCEPT ![HomeOf[c]] = Append(@, line)]
          /\ registered' = registered \cup {line}
    /\ wrote' = [wrote EXCEPT ![c] = @ + 1]
    /\ UNCHANGED <<vars, store, env, fetch, got, tubeFaults>>

\* A command that succeeds has come to its end; one that fails may stop early.
NsFinish(c) ==
    /\ Finish(c)
    /\ proc'[c] = "ok" => wrote[c] = Len(Lines)
    /\ UNCHANGED nsVars

----------------------------------------------------------------------------
(* FetchEnvsWithTar, in the goroutine that waits for a remote client *)

Fetching(c, where) == c \in Remote /\ Waiting(c) /\ c \in running /\ proc[c] = "ok" /\ fetch[c] = where
Failing(step) == step \in TubeMayFail /\ tubeFaults' = tubeFaults \cup {step}

\* Without the file, and when Stat fails, the fetch is skipped.
StatMisses(c) ==
    /\ Fetching(c, "no")
    /\ \/ file[HomeOf[c]] = <<>> /\ UNCHANGED tubeFaults
       \/ Failing("stat")
    /\ WaitOk(c)
    /\ UNCHANGED <<store, env, file, wrote, fetch, got, registered>>

StatHits(c) ==
    /\ Fetching(c, "no") /\ file[HomeOf[c]] # <<>>
    /\ fetch' = [fetch EXCEPT ![c] = "read"]
    /\ UNCHANGED <<vars, store, env, file, wrote, got, registered, tubeFaults>>

\* The error of Download is dropped; the lines copied until then are used.
DownloadTube(c) ==
    /\ Fetching(c, "read")
    /\ \/ got' = [got EXCEPT ![c] = file[HomeOf[c]]] /\ UNCHANGED tubeFaults
       \/ /\ Failing("read")
          /\ \E k \in 0 .. Len(file[HomeOf[c]]) :
                got' = [got EXCEPT ![c] = SubSeq(file[HomeOf[c]], 1, k)]
    /\ fetch' = [fetch EXCEPT ![c] = "set"]
    /\ UNCHANGED <<vars, store, env, file, wrote, registered>>

\* Mutant of LinesFor: a line without a namespace is for every host.
LinesForAnyHost(c, k, v) ==
    {i \in 1 .. Len(got[c]) : got[c][i].var = v /\ got[c][i].dest \in {k, OwnHost}}

\* A line names a namespace or is for the client's host; the last line wins.
LinesFor(c, k, v) ==
    {i \in 1 .. Len(got[c]) :
        /\ got[c][i].var = v
        /\ got[c][i].dest = k \/ (got[c][i].dest = OwnHost /\ HostKey[c] = k)}

\* Mutant of SetFromEnvString: a variable that is set already is not set again.
SetFromEnvStringKeepsOld(c) ==
    /\ Fetching(c, "set")
    /\ store' = [k \in Key |-> [v \in Var |->
                    LET hits == LinesFor(c, k, v)
                    IN IF hits = {} \/ store[k][v] # Unset THEN store[k][v]
                       ELSE got[c][CHOOSE i \in hits : \A j \in hits : j <= i].val]]
    /\ fetch' = [fetch EXCEPT ![c] = "remove"]
    /\ UNCHANGED <<vars, env, file, wrote, got, registered, tubeFaults>>

SetFromEnvString(c) ==
    /\ Fetching(c, "set")
    /\ store' = [k \in Key |-> [v \in Var |->
                    LET hits == LinesFor(c, k, v)
                    IN IF hits = {} THEN store[k][v]
                       ELSE got[c][CHOOSE i \in hits : \A j \in hits : j <= i].val]]
    /\ fetch' = [fetch EXCEPT ![c] = "remove"]
    /\ UNCHANGED <<vars, env, file, wrote, got, registered, tubeFaults>>

\* Mutant of RemoveTube: the file stays.
RemoveTubeNot(c) ==
    /\ Fetching(c, "remove")
    /\ WaitOk(c)
    /\ fetch' = [fetch EXCEPT ![c] = "no"]
    /\ got' = [got EXCEPT ![c] = <<>>]
    /\ UNCHANGED <<store, env, file, wrote, registered, tubeFaults>>

\* The error of the deferred Remove is dropped.
RemoveTube(c) ==
    /\ Fetching(c, "remove")
    /\ \/ file' = [file EXCEPT ![HomeOf[c]] = <<>>] /\ UNCHANGED tubeFaults
       \/ Failing("remove") /\ UNCHANGED file
    /\ WaitOk(c)
    /\ fetch' = [fetch EXCEPT ![c] = "no"]
    /\ got' = [got EXCEPT ![c] = <<>>]
    /\ UNCHANGED <<store, env, wrote, registered>>

\* LocalhostClient.Wait looks for ~/_ssup_env, which register does not write.
LocalWaitOk(c) == c \notin Remote /\ WaitOk(c) /\ UNCHANGED nsVars

NsFetch(c) ==
    \/ StatMisses(c) \/ StatHits(c) \/ DownloadTube(c) \/ SetFromEnvString(c) \/ RemoveTube(c)
    \/ LocalWaitOk(c)

\* The sftp client of a fetch is made first.
NsWaitFails(c) ==
    /\ WaitStopped(c) \/ WaitFailed(c) \/ (fetch[c] = "no" /\ c \in Remote /\ TubeFails(c))
    /\ UNCHANGED nsVars

NsNext ==
    \/ NsBeginPlay \/ NsNextCommand \/ NsLaunch \/ Add
    \/ OtherMainStep /\ UNCHANGED nsVars
    \/ \E c \in Client : Register(c) \/ NsFinish(c) \/ NsFetch(c) \/ NsWaitFails(c)
    \/ Terminated /\ UNCHANGED nsVars

NsSpec == NsInit /\ [][NsNext]_<<vars, nsVars>>

----------------------------------------------------------------------------

Writer(val) == val[4]
TaskOf(val) == <<val[1], val[2], val[3]>>

\* The order in which tasks run.
Before(s, t) ==
    \/ s[1] < t[1]
    \/ s[1] = t[1] /\ s[2] < t[2]
    \/ s[1] = t[1] /\ s[2] = t[2] /\ s[3] < t[3]

\* The clients that were started with the current task's command.
Started == IF pc \in {"launch", "io", "wait", "fetch"} THEN launched ELSE {}

\* A command is given no variable but those registered for its own host or for
\* its own tube, whatever hosts and homes run beside it (namespace.go:29-61,
\* ssh.go:503).
NoForeignVariable ==
    \A c \in Started, v \in Var :
        env[c][v] # Unset =>
            \E r \in registered :
                /\ r.var = v /\ r.val = env[c][v]
                /\ c \in Entry
                /\ \/ r.dest = TubeOf[c]
                   \/ r.dest = OwnHost /\ Writer(r.val) \in Remote
                      /\ (HostKey[Writer(r.val)] = HostKey[c] \/ HostKey[Writer(r.val)] = TubeOf[c])
                   \/ r.dest = HostKey[c]

\* What commands on remote hosts registered for a tube reaches every later
\* command with that tube, and of several tasks the last one's value does:
\* fetches that share a home neither lose a line nor bring an old one back
\* (ssh.go:478-506).  A tube that is named like a host is out of it, for
\* connecting the host empties it.
TubeHandedOn ==
    tubeFaults = {} =>
        \A c \in Started \cap Entry : \A r \in registered :
            ( /\ r.dest = TubeOf[c]
              /\ Writer(r.val) \in Remote
              /\ Before(TaskOf(r.val), <<play, cmd, task>>)
              /\ TubeOf[c] # BastionKey /\ \A e \in Entry : HostKey[e] # TubeOf[c] )
            => /\ env[c][r.var] # Unset
               /\ ~Before(TaskOf(env[c][r.var]), TaskOf(r.val))

\* When all clients of a task have been waited for, no line is left in the home
\* of any of them to be taken for a later command's (ssh.go:484-492).
TubesEmptied ==
    (pc = "fetch" /\ exit = "none" /\ tubeFaults = {}) =>
        \A c \in waited \cap Remote : file[HomeOf[c]] = <<>>
=============================================================================
