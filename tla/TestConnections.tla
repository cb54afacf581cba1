-------------------------- MODULE TestConnections --------------------------
(***************************************************************************)
(* ssup -t: doTestConnections connects every network of the Supfile, one   *)
(* after the other, and marks each host "ERR" or "YES"; ParseInitialArgs   *)
(* then shows the networks and ends with the usage error                   *)
(* (src/usecase/appinit/parse_args.go:32-36, 79-123).                      *)
(***************************************************************************)
EXTENDS Connect

CONSTANTS
    Net,         \* the networks of the Supfile
    NetHosts,    \* their hosts
    NetBastion,  \* those with a bastion
    ErrNamed     \* entries whose name begins with "ERR"

ASSUME TestAssumption ==
    /\ NetHosts \in [Net -> SUBSET Entry]
    /\ NetBastion \subseteq Net
    /\ ErrNamed \subseteq Entry

VARIABLES
    todo,        \* networks not yet ranged over: a Go map, in any order
    net,         \* the network being tested, a set of at most one
    bastionErr,  \* the bastion of this or an earlier network failed
    mark         \* mark[t][e]: what network t shows for host e

testVars == <<connVars, todo, net, bastionErr, mark>>
connPhase == <<hosts, bastion, conn, arr, len, failed, at, n, lim, cphase>>

TestTypeOK ==
    /\ ConnTypeOK
    /\ todo \subseteq Net /\ net \subseteq Net
    /\ bastionErr \in BOOLEAN
    /\ mark \in [Net -> [Entry -> {"given", "ERR", "YES"}]]

StartNet(t) ==
    /\ t \in todo /\ net = {}
    /\ StartConnect(NetHosts[t], t \in NetBastion)
    /\ todo' = todo \ {t} /\ net' = {t}
    /\ UNCHANGED <<bastionErr, mark>>

\* The error is kept for later, and the hosts are dialled without the bastion.
BastionSkipped ==
    /\ exit = "none" /\ cphase = "bastion"
    /\ "bastion" \in MayFail
    /\ bastionErr' = TRUE
    /\ bastion' = FALSE /\ cphase' = "dial"
    /\ faults' = faults \cup {"bastion"}
    /\ UNCHANGED <<hosts, conn, arr, len, failed, sweepVars, exit, todo, net, mark>>

Dial ==
    /\ \/ BastionUp \/ BastionPanics
       \/ \E e \in Entry : HostAnswers(e)
       \/ Gathered
       \/ Sweep
    /\ UNCHANGED <<todo, net, bastionErr, mark>>

\* Mutant of MarkOf: the failed names are compared with the connected name.
MarkOfClient(e) ==
    IF \E k \in 1 .. Len(failed) : failed[k] = ClientName[e] THEN "ERR"
    ELSE IF e \in ErrNamed THEN "given"
    ELSE "YES"

\* A host is in error when a failed name is its name; a name that already
\* looks like a mark is left as it is.
MarkOf(e) ==
    IF \E k \in 1 .. Len(failed) : failed[k] = RawName[e] THEN "ERR"
    ELSE IF e \in ErrNamed THEN "given"
    ELSE "YES"

\* Mutants of MarkNet: the marks of other hosts are lost; the bastion's error is
\* forgotten.
MarkNetHostsOnly ==
    /\ exit = "none" /\ cphase = "ready"
    /\ \E t \in net : mark' = [mark EXCEPT ![t] = [e \in hosts |-> MarkOf(e)]]
    /\ net' = {}
    /\ cphase' = "idle"
    /\ exit' = IF bastionErr THEN "error" ELSE "none"
    /\ UNCHANGED <<hosts, bastion, conn, arr, len, failed, sweepVars, faults, todo, bastionErr>>

MarkNetGoesOn ==
    /\ exit = "none" /\ cphase = "ready"
    /\ \E t \in net :
         mark' = [mark EXCEPT ![t] = [e \in Entry |-> IF e \in hosts THEN MarkOf(e) ELSE "given"]]
    /\ net' = {}
    /\ cphase' = "idle"
    /\ UNCHANGED <<hosts, bastion, conn, arr, len, failed, sweepVars, faults, exit, todo, bastionErr>>

MarkNet ==
    /\ exit = "none" /\ cphase = "ready"
    /\ \E t \in net :
         mark' = [mark EXCEPT ![t] = [e \in Entry |-> IF e \in hosts THEN MarkOf(e) ELSE "given"]]
    /\ net' = {}
    /\ cphase' = "idle"
    /\ exit' = IF bastionErr THEN "error" ELSE "none"
    /\ UNCHANGED <<hosts, bastion, conn, arr, len, failed, sweepVars, faults, todo, bastionErr>>

\* The networks are shown; ErrUsage makes main exit with status 2.
ShowAll ==
    /\ exit = "none" /\ net = {} /\ todo = {}
    /\ exit' = "abort"
    /\ UNCHANGED <<connPhase, faults, todo, net, bastionErr, mark>>

TestInit ==
    /\ hosts = {} /\ bastion = FALSE /\ conn = [e \in Entry |-> "idle"]
    /\ arr = <<>> /\ len = 0 /\ failed = <<>>
    /\ at = 1 /\ n = 1 /\ lim = 0
    /\ cphase = "idle" /\ faults = {} /\ exit = "none"
    /\ todo = Net /\ net = {} /\ bastionErr = FALSE
    /\ mark = [t \in Net |-> [e \in Entry |-> "given"]]

TestNext ==
    \/ \E t \in Net : StartNet(t)
    \/ BastionSkipped
    \/ Dial
    \/ MarkNet
    \/ ShowAll
    \/ exit # "none" /\ UNCHANGED testVars

TestSpec == TestInit /\ [][TestNext]_testVars

----------------------------------------------------------------------------

\* When a network is marked, the marks tell the truth about its hosts, as
\* long as a client is left after the sweep and no failed host shares a name
\* with a reachable one (parse_args.go:92-111).
TruthfulMarks ==
    [][ \A t \in net :
          ( /\ mark'[t] # mark[t] /\ len > 0
            /\ \A e, f \in hosts : RawName[e] = RawName[f] => conn[e] = conn[f] )
          => \A e \in hosts \ ErrNamed :
                 (mark'[t][e] = "YES" <=> conn[e] = "up") ]_testVars

\* A failed bastion is never reported as success, and is noticed in the
\* network it belongs to, before another is tried (parse_args.go:86-88, 113-116).
BastionErrorStops ==
    [][ bastionErr => todo' = todo ]_testVars

=============================================================================
