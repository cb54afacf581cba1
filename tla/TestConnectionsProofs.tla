------------------------ MODULE TestConnectionsProofs ------------------------
(***************************************************************************)
(* Proofs about ssup -t, for every Supfile, every naming of its hosts and  *)
(* every set of failures: doTestConnections drives Connect's own actions,  *)
(* so ConnInv holds of each network's connections; NamesWhole adds that    *)
(* the failed names the marks are made from are those of all failed hosts. *)
(***************************************************************************)
EXTENDS TestConnections, ConnectProofs

\* The failed names are those of the failed hosts, all of them, until a sweep
\* that leaves no client puts "all" in their place.
NamesWhole ==
    (cphase \in {"bastion", "dial", "sweep"} \/ (cphase = "ready" /\ len > 0)) =>
        \A e \in hosts : conn[e] = "down" =>
            \E k \in 1 .. Len(failed) : failed[k] = RawName[e]

NamesOnly ==
    (cphase = "ready" /\ len > 0) =>
        \A k \in 1 .. Len(failed) : \E f \in hosts : conn[f] = "down" /\ failed[k] = RawName[f]

\* Connections are being made for a network, and for as long as a bastion's
\* error is kept the process is in that network.
NetHeld ==
    exit = "none" => /\ cphase # "idle" => net # {}
                     /\ bastionErr => net # {}

TestInv == TestTypeOK /\ ConnInv /\ NamesWhole /\ NamesOnly /\ NetHeld

----------------------------------------------------------------------------

LEMMA TestInitInv == TestInit => TestInv
<1> SUFFICES ASSUME TestInit PROVE TestInv
  OBVIOUS
<1> USE DEF TestInit
<1>1. ConnTypeOK
  <2>1. bastion \in BOOLEAN
    OBVIOUS
  <2> QED
    BY <2>1 DEF ConnTypeOK
<1>2. Up = {} /\ Kept = {}
  BY DEF Up, Kept
<1>3. ClientsConnected /\ DialComplete /\ LostOnlyByName
  BY <1>2 DEF ClientsConnected, DialComplete, LostOnlyByName, BeforeSweep
<1>4. DialledHosts /\ NamesFailed /\ AllAnswered /\ FailureTold
  BY DEF DialledHosts, NamesFailed, AllAnswered, FailureTold
<1>5. TestTypeOK
  BY <1>1 DEF TestTypeOK
<1>6. NamesWhole /\ NamesOnly /\ NetHeld
  BY DEF NamesWhole, NamesOnly, NetHeld
<1> QED
  BY <1>1, <1>3, <1>4, <1>5, <1>6 DEF TestInv, ConnInv

LEMMA StartNetInv == ASSUME TestInv, NEW t \in Net, StartNet(t) PROVE TestInv'
<1> USE DEF StartNet
<1>1. NetHosts[t] \in SUBSET Entry /\ (t \in NetBastion) \in BOOLEAN
  BY TestAssumption
<1>2. ConnInv'
  BY <1>1, StartConnectInv DEF TestInv
<1>3. TestTypeOK'
  BY <1>2 DEF TestInv, TestTypeOK, ConnInv
<1>4. NamesWhole' /\ NamesOnly' /\ NetHeld'
  BY <1>1 DEF StartConnect, NamesWhole, NamesOnly, NetHeld
<1> QED
  BY <1>2, <1>3, <1>4 DEF TestInv

LEMMA BastionSkippedInv == ASSUME TestInv, BastionSkipped PROVE TestInv'
<1> USE DEF BastionSkipped, sweepVars
<1>1. faults' \subseteq FaultKind
  BY FaultKinds DEF TestInv, ConnInv, ConnTypeOK
<1>2. ConnTypeOK'
  BY <1>1 DEF TestInv, ConnInv, ConnTypeOK
<1>3. Up' = Up /\ Kept' = Kept
  BY DEF Up, Kept
<1>4. ClientsConnected' /\ DialComplete' /\ LostOnlyByName'
  BY <1>3 DEF TestInv, ConnInv, ClientsConnected, DialComplete, BeforeSweep, LostOnlyByName
<1>5. DialledHosts' /\ AllAnswered' /\ FailureTold' /\ NamesFailed'
  BY DEF TestInv, ConnInv, DialledHosts, AllAnswered, FailureTold, NamesFailed
<1>6. ConnInv'
  BY <1>2, <1>4, <1>5 DEF ConnInv
<1>7. TestTypeOK'
  BY <1>2 DEF TestInv, TestTypeOK
<1>8. NamesWhole' /\ NamesOnly' /\ NetHeld'
  BY DEF TestInv, NamesWhole, NamesOnly, NetHeld
<1> QED
  BY <1>6, <1>7, <1>8 DEF TestInv

\* A host that fails is named; the sweep removes clients, and no name.
LEMMA DialNames == ASSUME TestInv, Dial PROVE NamesWhole' /\ NamesOnly'
<1>1. CASE \E e \in Entry : HostDown(e) \/ HostUnconfigured(e)
  <2>1. PICK e \in Entry : Dialing(e) /\ ReportFailure(e)
    BY <1>1 DEF HostDown, HostUnconfigured
  <2>2. /\ failed \in Seq(Name) /\ RawName[e] \in Name /\ hosts \subseteq Entry
        /\ conn \in [Entry -> {"idle", "dialing", "up", "down"}]
        /\ failed' = Append(failed, RawName[e]) /\ conn' = [conn EXCEPT ![e] = "down"]
        /\ UNCHANGED <<hosts, cphase>> /\ cphase = "dial"
    BY <2>1, ConnectAssumption DEF TestInv, ConnInv, ConnTypeOK, Dialing, ReportFailure
  <2>3. NamesWhole'
    <3> SUFFICES ASSUME NEW f \in hosts, conn'[f] = "down"
                 PROVE  \E k \in 1 .. Len(failed') : failed'[k] = RawName[f]
      BY <2>2 DEF NamesWhole
    <3>1. CASE f = e
      <4>1. failed'[Len(failed) + 1] = RawName[e] /\ Len(failed) + 1 \in 1 .. Len(failed')
        BY <2>2
      <4> QED
        BY <3>1, <4>1
    <3>2. CASE f # e
      <4>1. PICK k \in 1 .. Len(failed) : failed[k] = RawName[f]
        BY <2>2, <3>2 DEF TestInv, NamesWhole
      <4>2. k \in 1 .. Len(failed') /\ failed'[k] = failed[k]
        BY <2>2
      <4> QED
        BY <4>1, <4>2
    <3> QED
      BY <3>1, <3>2
  <2>4. NamesOnly'
    BY <2>2 DEF NamesOnly
  <2> QED
    BY <2>3, <2>4
<1>2. CASE \E e \in Entry : HostUp(e)
  BY <1>2 DEF HostUp, Dialing, TestInv, ConnInv, ConnTypeOK, NamesWhole, NamesOnly
<1>3. CASE BastionUp \/ BastionPanics \/ Gathered \/ \E e \in Entry : InventoryPanics(e)
  BY <1>3 DEF BastionUp, BastionPanics, Gathered, InventoryPanics, Dialing, TestInv, NamesWhole, NamesOnly
<1>4. CASE SweepMiss \/ SweepHit \/ SweepOutOfRange \/ SweepNextName
  BY <1>4 DEF SweepMiss, SweepHit, SweepOutOfRange, SweepNextName, Sweeping, TestInv, NamesWhole, NamesOnly
<1>5. CASE SweepEnds
  <2>1. len' > 0 => failed' = failed
    BY <1>5 DEF SweepEnds
  <2>2. cphase = "sweep" /\ UNCHANGED <<hosts, conn, len>> /\ cphase' = "ready"
    BY <1>5 DEF SweepEnds
  <2> QED
    BY <2>1, <2>2 DEF TestInv, ConnInv, NamesFailed, NamesWhole, NamesOnly
<1> QED
  BY <1>1, <1>2, <1>3, <1>4, <1>5 DEF Dial, HostAnswers, Sweep

LEMMA DialInv == ASSUME TestInv, Dial PROVE TestInv'
<1>1. ConnectStep /\ UNCHANGED <<todo, net, bastionErr, mark>>
  BY DEF Dial, ConnectStep
<1>2. ConnInv'
  BY <1>1, ConnectStepInv DEF TestInv
<1>3. TestTypeOK'
  BY <1>1, <1>2 DEF TestInv, TestTypeOK, ConnInv
<1>4. NetHeld'
  <2>1. exit = "none" /\ cphase # "idle"
    BY DEF Dial, BastionUp, BastionPanics, HostAnswers, HostUp, HostDown, HostUnconfigured, InventoryPanics,
       Dialing, Gathered, Sweep, SweepMiss, SweepHit, SweepOutOfRange, SweepNextName, SweepEnds, Sweeping
  <2> QED
    BY <1>1, <2>1 DEF TestInv, NetHeld
<1> QED
  BY <1>2, <1>3, <1>4, DialNames DEF TestInv

LEMMA MarkNetInv == ASSUME TestInv, MarkNet PROVE TestInv'
<1> USE DEF MarkNet, sweepVars
<1>1. exit' \in {"none", "error"} /\ (bastionErr => exit' = "error")
  BY DEF TestInv, TestTypeOK
<1>2. ConnInv'
  BY <1>1, ConnFrame DEF TestInv, ConnInv, ConnTypeOK
<1>3. mark' \in [Net -> [Entry -> {"given", "ERR", "YES"}]]
  <2>1. PICK t \in net : mark' = [mark EXCEPT ![t] = [e \in Entry |-> IF e \in hosts THEN MarkOf(e) ELSE "given"]]
    OBVIOUS
  <2>2. \A e : MarkOf(e) \in {"given", "ERR", "YES"}
    BY DEF MarkOf
  <2>3. [e \in Entry |-> IF e \in hosts THEN MarkOf(e) ELSE "given"] \in [Entry -> {"given", "ERR", "YES"}]
    BY <2>2
  <2> QED
    BY <2>1, <2>3 DEF TestInv, TestTypeOK
<1>4. TestTypeOK'
  BY <1>2, <1>3 DEF TestInv, TestTypeOK, ConnInv
<1>5. NamesWhole' /\ NamesOnly' /\ NetHeld'
  BY <1>1 DEF NamesWhole, NamesOnly, NetHeld
<1> QED
  BY <1>2, <1>4, <1>5 DEF TestInv

\* Every step of ssup -t keeps the invariant.
LEMMA TestStepInv == ASSUME TestInv, [TestNext]_testVars PROVE TestInv'
<1>1. CASE ShowAll
  <2> USE <1>1 DEF ShowAll, connPhase, sweepVars
  <2>1. ConnInv'
    BY ConnFrame DEF TestInv, ConnInv, ConnTypeOK
  <2>2. TestTypeOK'
    BY <2>1 DEF TestInv, TestTypeOK, ConnInv
  <2>3. NamesWhole' /\ NamesOnly' /\ NetHeld'
    BY DEF TestInv, NamesWhole, NamesOnly, NetHeld
  <2> QED
    BY <2>1, <2>2, <2>3 DEF TestInv
<1>2. CASE UNCHANGED testVars
  <2> USE <1>2 DEF testVars
  <2>1. ConnInv'
    BY ConnStutterInv DEF TestInv
  <2>2. TestTypeOK'
    BY <2>1 DEF TestInv, TestTypeOK, ConnInv
  <2>3. NamesWhole' /\ NamesOnly' /\ NetHeld'
    BY DEF TestInv, NamesWhole, NamesOnly, NetHeld, connVars
  <2> QED
    BY <2>1, <2>2, <2>3 DEF TestInv
<1> QED
  BY <1>1, <1>2, StartNetInv, BastionSkippedInv, DialInv, MarkNetInv DEF TestNext

----------------------------------------------------------------------------

\* The invariant holds in every state of ssup -t.
THEOREM TestInductive == TestSpec => []TestInv
<1>1. TestInit => TestInv
  BY TestInitInv
<1> QED
  BY <1>1, TestStepInv, PTL DEF TestSpec

\* The networks, the kept error and the marks are of their types.
THEOREM TestTypeCorrect == TestSpec => []TestTypeOK
<1>1. TestInv => TestTypeOK
  BY DEF TestInv
<1> QED
  BY <1>1, TestInductive, PTL

\* The marks ssup -t shows tell the truth, if a client is left and no failed
\* host has a reachable one's name: every host the marks say YES to was
\* reached, and every reached one is said YES to (parse_args.go:92-111).
THEOREM TruthfulMarksAlways == TestSpec => TruthfulMarks
<1> DEFINE A == \A t \in net :
                  ( /\ mark'[t] # mark[t] /\ len > 0
                    /\ \A e, f \in hosts : RawName[e] = RawName[f] => conn[e] = conn[f] )
                  => \A e \in hosts \ ErrNamed : (mark'[t][e] = "YES" <=> conn[e] = "up")
<1>1. ASSUME TestInv, TestNext PROVE A
  <2> SUFFICES ASSUME NEW t \in net, mark'[t] # mark[t], len > 0,
                      \A e, f \in hosts : RawName[e] = RawName[f] => conn[e] = conn[f],
                      NEW e \in hosts \ ErrNamed
               PROVE  mark'[t][e] = "YES" <=> conn[e] = "up"
    OBVIOUS
  <2>1. MarkNet
    BY <1>1 DEF TestNext, StartNet, BastionSkipped, Dial, ShowAll, testVars
  <2>2. /\ t \in Net /\ e \in Entry /\ conn[e] \in {"up", "down"} /\ cphase = "ready"
        /\ mark \in [Net -> [Entry -> {"given", "ERR", "YES"}]] /\ net \subseteq Net
    BY <1>1, <2>1 DEF TestInv, TestTypeOK, ConnInv, ConnTypeOK, AllAnswered, MarkNet
  <2>3. PICK s \in net : mark' = [mark EXCEPT ![s] = [g \in Entry |-> IF g \in hosts THEN MarkOf(g) ELSE "given"]]
    BY <2>1 DEF MarkNet
  <2>4. t = s
    BY <2>2, <2>3
  <2>5. mark'[t][e] = MarkOf(e)
    BY <2>2, <2>3, <2>4
  <2>6. (\E k \in 1 .. Len(failed) : failed[k] = RawName[e]) <=> conn[e] = "down"
    BY <1>1, <2>2 DEF TestInv, NamesWhole, NamesOnly
  <2> QED
    BY <2>2, <2>5, <2>6 DEF MarkOf
<1>2. UNCHANGED testVars => [A]_testVars
  OBVIOUS
<1>3. TestInv /\ [TestNext]_testVars => [A]_testVars
  BY <1>1, <1>2
<1> QED
  BY <1>3, TestInductive, PTL DEF TestSpec, TruthfulMarks

\* Once a bastion has failed no further network is tried (parse_args.go:86-88,
\* 113-116).
THEOREM BastionErrorStopsAlways == TestSpec => BastionErrorStops
<1>1. TestInv /\ [TestNext]_testVars => [bastionErr => todo' = todo]_testVars
  BY DEF TestInv, NetHeld, TestNext, StartNet, StartConnect, BastionSkipped, Dial, MarkNet, ShowAll, testVars
<1> QED
  BY <1>1, TestInductive, PTL DEF TestSpec, BastionErrorStops
=============================================================================
