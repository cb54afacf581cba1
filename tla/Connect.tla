------------------------------ MODULE Connect ------------------------------
(***************************************************************************)
(* How ssup opens the connections of one play (src/usecase/run.go,         *)
(* connectToBastionHost, connectToHosts, ConnectToHostsHelper).            *)
(*                                                                         *)
(* One goroutine per host dials concurrently; the results arrive on a      *)
(* channel in completion order, as clients or as the names of failed       *)
(* hosts.  The helper then sweeps the client slice once per failed name,   *)
(* removing elements from the slice it is ranging over.  The sweep is      *)
(* modelled on the backing array, because `range` keeps the length it      *)
(* started with while removeIndex shifts the elements underneath it.       *)
(***************************************************************************)
EXTENDS Naturals, Sequences, FiniteSets

CONSTANTS
    Entry,       \* entries of a network's host list
    Local,       \* the entries naming localhost or 127.0.0.1
    Name,        \* host names as text
    RawName,     \* what the Supfile says: network_host.Host
    ClientName,  \* what GetHost() returns once the client is connected
    AllName,     \* the placeholder "all"
    MayFail      \* kinds of failure the environment may produce

\* Kinds of failure, as the history variable faults records them.
FaultKind == {"bastion", "connect", "inventory", "shellcheck", "filter", "script",
              "resolve", "upload", "dist", "run", "reject", "shell", "stage", "command",
              "tube", "fetch", "close"}

\* The client of a local entry has an empty Host field until its first Wait
\* (localhost.go:28-48, 297), and no host is written as an empty name.
ASSUME ConnectAssumption ==
    /\ IsFiniteSet(Entry)
    /\ Local \subseteq Entry
    /\ RawName \in [Entry -> Name]
    /\ ClientName \in [Entry -> Name]
    /\ AllName \in Name
    /\ MayFail \subseteq FaultKind
    /\ \A e \in Local, f \in Entry : ClientName[e] # RawName[f]

VARIABLES
    hosts,    \* network.Hosts of the play
    bastion,  \* whether network.Bastion is set
    conn,     \* what each host's goroutine has reported
    arr,      \* backing array of the slice clients
    len,      \* its current length
    failed,   \* hostnamesWithErr, in the order of arrival
    at,       \* index in failed of the name being swept
    n,        \* index of the sweep's inner loop
    lim,      \* length of the slice when the inner loop started
    cphase,   \* where the connection phase is
    faults,   \* history: the kinds of failure met so far
    exit      \* "none" while the process runs; then "ok" (status 0), "error"
              \* (status 1) or "abort" (status 2: a Go panic, os.Exit(2))

connVars == <<hosts, bastion, conn, arr, len, failed, at, n, lim, cphase, faults, exit>>
sweepVars == <<at, n, lim>>

ConnTypeOK ==
    /\ hosts \subseteq Entry
    /\ bastion \in BOOLEAN
    /\ conn \in [Entry -> {"idle", "dialing", "up", "down"}]
    /\ arr \in Seq(Entry)
    /\ len \in 0 .. Len(arr)
    /\ failed \in Seq(Name)
    /\ at \in Nat \ {0}
    /\ n \in Nat \ {0}
    /\ lim \in 0 .. Len(arr)
    /\ cphase \in {"idle", "bastion", "dial", "sweep", "ready"}
    /\ faults \subseteq FaultKind
    /\ exit \in {"none", "ok", "error", "abort"}

\* The slice Run receives.
clients == SubSeq(arr, 1, len)

\* The hosts the slice holds, as a set of entries.
Kept == {arr[k] : k \in 1 .. len}

\* The hosts whose goroutine reported a connected client.
Up == {e \in hosts : conn[e] = "up"}

----------------------------------------------------------------------------

\* The state a play's Run starts from.
StartConnect(H, viaBastion) ==
    /\ cphase = "idle"
    /\ exit = "none"
    /\ hosts' = H
    /\ bastion' = viaBastion
    /\ conn' = [e \in Entry |-> IF e \in H THEN "dialing" ELSE "idle"]
    /\ arr' = <<>>
    /\ len' = 0
    /\ failed' = <<>>
    /\ at' = 1 /\ n' = 1 /\ lim' = 0
    /\ cphase' = IF viaBastion THEN "bastion" ELSE "dial"
    /\ UNCHANGED <<faults, exit>>

BastionUp ==
    /\ exit = "none" /\ cphase = "bastion"
    /\ cphase' = "dial"
    /\ UNCHANGED <<hosts, bastion, conn, arr, len, failed, sweepVars, faults, exit>>

\* Run returns the error of connectToBastionHost and main exits with it.
BastionDown ==
    /\ exit = "none" /\ cphase = "bastion"
    /\ "bastion" \in MayFail
    /\ exit' = "error"
    /\ faults' = faults \cup {"bastion"}
    /\ UNCHANGED <<hosts, bastion, conn, arr, len, failed, sweepVars, cphase>>

\* The bastion's own inventory panics, like the inventory of a host.
BastionPanics ==
    /\ exit = "none" /\ cphase = "bastion"
    /\ "inventory" \in MayFail
    /\ exit' = "abort"
    /\ faults' = faults \cup {"inventory"}
    /\ UNCHANGED <<hosts, bastion, conn, arr, len, failed, sweepVars, cphase>>

Dialing(e) == exit = "none" /\ cphase = "dial" /\ conn[e] = "dialing"

\* Only Connect fills ConnectOrder, the ssh client configuration.  A remote
\* host behind a bastion is connected with ConnectWith alone, which refuses a
\* client without one.
Configured(e) == e \in Local \/ ~bastion

HostUp(e) ==
    /\ Dialing(e) /\ Configured(e)
    /\ conn' = [conn EXCEPT ![e] = "up"]
    /\ arr' = Append(arr, e)
    /\ len' = len + 1
    /\ UNCHANGED <<hosts, bastion, failed, sweepVars, cphase, faults, exit>>

ReportFailure(e) ==
    /\ conn' = [conn EXCEPT ![e] = "down"]
    /\ failed' = Append(failed, RawName[e])
    /\ faults' = faults \cup {"connect"}
    /\ UNCHANGED <<hosts, bastion, arr, len, sweepVars, cphase, exit>>

\* A dial, an authentication or an inventory command that fails.
HostDown(e) == Dialing(e) /\ Configured(e) /\ "connect" \in MayFail /\ ReportFailure(e)

HostUnconfigured(e) == Dialing(e) /\ ~Configured(e) /\ ReportFailure(e)

\* runRemoteCommand ignores the error of NewSession and uses the nil session:
\* the goroutine panics, and the process with it.
InventoryPanics(e) ==
    /\ Dialing(e) /\ Configured(e) /\ e \notin Local
    /\ "inventory" \in MayFail
    /\ exit' = "abort"
    /\ faults' = faults \cup {"inventory"}
    /\ UNCHANGED <<hosts, bastion, conn, arr, len, failed, sweepVars, cphase>>

\* Mutant of Gathered: the inner loop runs one index too far.
GatheredOneTooFar ==
    /\ exit = "none" /\ cphase = "dial"
    /\ \A e \in hosts : conn[e] \in {"up", "down"}
    /\ cphase' = "sweep"
    /\ at' = 1 /\ n' = 1 /\ lim' = len + 1
    /\ UNCHANGED <<hosts, bastion, conn, arr, len, failed, faults, exit>>

\* Every goroutine has reported; the sweep of the first failed name begins.
Gathered ==
    /\ exit = "none" /\ cphase = "dial"
    /\ \A e \in hosts : conn[e] \in {"up", "down"}
    /\ cphase' = "sweep"
    /\ at' = 1 /\ n' = 1 /\ lim' = len
    /\ UNCHANGED <<hosts, bastion, conn, arr, len, failed, faults, exit>>

Sweeping == exit = "none" /\ cphase = "sweep" /\ at <= Len(failed)

SameName(k) == ClientName[arr[k]] = failed[at]

\* Mutant of SweepMiss: the loop does not advance past a client it keeps.
SweepMissStays ==
    /\ Sweeping /\ n <= lim /\ ~SameName(n)
    /\ UNCHANGED connVars

SweepMiss ==
    /\ Sweeping /\ n <= lim /\ ~SameName(n)
    /\ n' = n + 1
    /\ UNCHANGED <<hosts, bastion, conn, arr, len, failed, at, lim, cphase, faults, exit>>

\* Mutants of removeIndex: the slice keeps its length, or loses the element
\* after the one at k.
removeIndexUnshortened(k) ==
    /\ arr' = [i \in 1 .. Len(arr) |-> IF i \in k .. len - 1 THEN arr[i + 1] ELSE arr[i]]
    /\ len' = len

removeIndexNext(k) ==
    /\ arr' = [i \in 1 .. Len(arr) |-> IF i \in k + 1 .. len - 1 THEN arr[i + 1] ELSE arr[i]]
    /\ len' = len - 1

\* append(s[:n], s[n+1:]...) moves the rest of the slice one place down in
\* place; the old last element stays where it was, beyond the new length.
removeIndex(k) ==
    /\ arr' = [i \in 1 .. Len(arr) |-> IF i \in k .. len - 1 THEN arr[i + 1] ELSE arr[i]]
    /\ len' = len - 1

SweepHit ==
    /\ Sweeping /\ n <= lim /\ SameName(n) /\ n <= len
    /\ removeIndex(n)
    /\ n' = n + 1
    /\ UNCHANGED <<hosts, bastion, conn, failed, at, lim, cphase, faults, exit>>

\* The stale element beyond the slice matches: index out of range, os.Exit(1).
SweepOutOfRange ==
    /\ Sweeping /\ n <= lim /\ SameName(n) /\ n > len
    /\ exit' = "error"
    /\ UNCHANGED <<hosts, bastion, conn, arr, len, failed, sweepVars, cphase, faults>>

SweepNextName ==
    /\ Sweeping /\ n > lim
    /\ at' = at + 1 /\ n' = 1 /\ lim' = len
    /\ UNCHANGED <<hosts, bastion, conn, arr, len, failed, cphase, faults, exit>>

\* Mutant of SweepEnds: the names of the failed hosts are dropped.
SweepEndsSilently ==
    /\ exit = "none" /\ cphase = "sweep" /\ at > Len(failed)
    /\ cphase' = "ready"
    /\ failed' = IF len = 0 THEN <<AllName>> ELSE <<>>
    /\ UNCHANGED <<hosts, bastion, conn, arr, len, sweepVars, faults, exit>>

\* With no client left the helper reports the single name "all" instead.
SweepEnds ==
    /\ exit = "none" /\ cphase = "sweep" /\ at > Len(failed)
    /\ cphase' = "ready"
    /\ failed' = IF len = 0 THEN <<AllName>> ELSE failed
    /\ UNCHANGED <<hosts, bastion, conn, arr, len, sweepVars, faults, exit>>

----------------------------------------------------------------------------

HostAnswers(e) == HostUp(e) \/ HostDown(e) \/ HostUnconfigured(e) \/ InventoryPanics(e)

Sweep == SweepMiss \/ SweepHit \/ SweepOutOfRange \/ SweepNextName \/ SweepEnds

ConnectStep ==
    \/ BastionUp \/ BastionDown \/ BastionPanics
    \/ \E e \in Entry : HostAnswers(e)
    \/ Gathered
    \/ Sweep

ConnInit ==
    /\ hosts \in SUBSET Entry \ {{}}
    /\ bastion \in BOOLEAN
    /\ conn = [e \in Entry |-> IF e \in hosts THEN "dialing" ELSE "idle"]
    /\ arr = <<>> /\ len = 0 /\ failed = <<>>
    /\ at = 1 /\ n = 1 /\ lim = 0
    /\ cphase = IF bastion THEN "bastion" ELSE "dial"
    /\ faults = {}
    /\ exit = "none"

\* The phase on its own stops when Run has the clients or the process is gone.
Settled == exit # "none" \/ cphase = "ready"

ConnNext == ConnectStep \/ (Settled /\ UNCHANGED connVars)

\* The goroutines and the sweep are scheduled; a dial is answered (a TCP dial
\* times out after 500 ms, ssh.go:269).
ConnFairness ==
    /\ WF_connVars(BastionUp \/ BastionDown \/ BastionPanics)
    /\ \A e \in Entry : WF_connVars(HostAnswers(e))
    /\ WF_connVars(Gathered)
    /\ WF_connVars(Sweep)

ConnSpec == ConnInit /\ [][ConnNext]_connVars /\ ConnFairness

----------------------------------------------------------------------------

\* Run gets only connected clients of this play's hosts, each of them once:
\* the in-place removal neither resurrects a host nor serves one twice
\* (run.go:138-142, 171-177).
ClientsConnected ==
    /\ Kept \subseteq Up
    /\ \A i, k \in 1 .. len : arr[i] = arr[k] => i = k

\* A reachable host goes missing from the clients only when its own name is
\* the name of a host that failed: the sweep never drops a bystander
\* (run.go:135-146).
LostOnlyByName ==
    cphase \in {"sweep", "ready"} =>
        \A e \in Up \ Kept :
            \E f \in hosts : conn[f] = "down" /\ RawName[f] = ClientName[e]

\* Run is told of a failure exactly when some host failed (run.go:148-168):
\* neither the sweep nor the "all" placeholder hides or invents one.
FailureTold ==
    (cphase = "ready" /\ hosts # {}) =>
        (failed = <<>> <=> \A e \in hosts : conn[e] = "up")

\* Skipping unreachable hosts keeps every reachable one.
ReachableKept == cphase = "ready" => Up \subseteq Kept

\* Every connection phase ends, in clients or in an exit.
ConnectSettles == <>Settled
=============================================================================
