--------------------------- MODULE ConnectProofs ---------------------------
(***************************************************************************)
(* Proofs about the connection phase, for every host list, every naming of *)
(* the hosts and every set of failures.  The inductive invariant ConnInv   *)
(* is stated so that a module that drives Connect's actions with a         *)
(* next-state relation of its own can use the step lemma.                  *)
(***************************************************************************)
EXTENDS Connect, TLAPS

BeforeSweep == cphase \in {"bastion", "dial"}

\* Only hosts of the play are dialled.
DialledHosts == \A e \in Entry : conn[e] # "idle" => e \in hosts

\* Until the sweep the slice fills its array and misses no connected host.
DialComplete == BeforeSweep => len = Len(arr) /\ Up \subseteq Kept

\* The failed names are the names of failed hosts, and no failure is unnamed.
NamesFailed ==
    cphase \in {"bastion", "dial", "sweep"} =>
        /\ \A k \in 1 .. Len(failed) : \E f \in hosts : conn[f] = "down" /\ failed[k] = RawName[f]
        /\ failed = <<>> => \A e \in hosts : conn[e] # "down"

\* The sweep starts when every host has answered.
AllAnswered ==
    cphase \in {"sweep", "ready"} => \A e \in hosts : conn[e] \in {"up", "down"}

ConnInv ==
    /\ ConnTypeOK
    /\ ClientsConnected
    /\ DialledHosts
    /\ DialComplete
    /\ NamesFailed
    /\ AllAnswered
    /\ LostOnlyByName
    /\ FailureTold

----------------------------------------------------------------------------

\* The failures of the connection phase are kinds of failure.
LEMMA FaultKinds == {"bastion", "connect", "inventory"} \subseteq FaultKind
BY DEF FaultKind

\* The phase starts with nothing reported and nothing swept.
LEMMA ConnInitInv == ConnInit => ConnInv
<1> SUFFICES ASSUME ConnInit PROVE ConnInv
    OBVIOUS
<1> USE DEF ConnInit
<1>1. ConnTypeOK
  BY DEF ConnTypeOK
<1>2. Up = {} /\ Kept = {}
  BY DEF Up, Kept
<1>3. ClientsConnected /\ DialComplete /\ LostOnlyByName
  BY <1>2 DEF ClientsConnected, DialComplete, LostOnlyByName
<1>4. DialledHosts /\ NamesFailed /\ AllAnswered /\ FailureTold
  BY DEF DialledHosts, NamesFailed, AllAnswered, FailureTold
<1> QED
  BY <1>1, <1>3, <1>4 DEF ConnInv

\* A play may begin whenever the connection phase is idle.
LEMMA StartConnectInv ==
    ASSUME ConnInv, NEW H \in SUBSET Entry, NEW b \in BOOLEAN, StartConnect(H, b)
    PROVE  ConnInv'
<1> USE DEF StartConnect
<1>1. ConnTypeOK'
  BY DEF ConnInv, ConnTypeOK
<1>2. Up' = {} /\ Kept' = {}
  BY DEF Up, Kept
<1>3. (ClientsConnected /\ DialComplete /\ LostOnlyByName)'
  BY <1>2 DEF ClientsConnected, DialComplete, LostOnlyByName
<1>4. (DialledHosts /\ NamesFailed /\ AllAnswered /\ FailureTold)'
  BY DEF DialledHosts, NamesFailed, AllAnswered, FailureTold
<1> QED
  BY <1>1, <1>3, <1>4 DEF ConnInv

\* A step that leaves the hosts, their answers, the slice and the failed names
\* alone, and does not move the phase, keeps the invariant.
LEMMA ConnFrame ==
    ASSUME ConnInv,
           UNCHANGED <<hosts, bastion, conn, arr, len, failed, sweepVars>>,
           cphase' = cphase \/ cphase' = "idle",
           faults' \subseteq FaultKind,
           exit' \in {"none", "ok", "error", "abort"}
    PROVE  ConnInv'
<1> USE DEF sweepVars
<1>1. ConnTypeOK'
  BY DEF ConnInv, ConnTypeOK
<1>2. Up' = Up /\ Kept' = Kept
  BY DEF Up, Kept
<1>3. (ClientsConnected /\ DialComplete /\ LostOnlyByName)'
  BY <1>2 DEF ConnInv, ClientsConnected, DialComplete, LostOnlyByName, BeforeSweep
<1>4. (DialledHosts /\ NamesFailed /\ AllAnswered /\ FailureTold)'
  BY DEF ConnInv, DialledHosts, NamesFailed, AllAnswered, FailureTold
<1> QED
  BY <1>1, <1>3, <1>4 DEF ConnInv

\* A host that answers is appended to the slice, where it was not yet.
LEMMA HostUpInv ==
    ASSUME ConnInv, NEW e \in Entry, HostUp(e)
    PROVE  ConnInv'
<1> USE DEF HostUp, Dialing, sweepVars
<1>1. ConnTypeOK'
  BY DEF ConnInv, ConnTypeOK
<1>2. /\ len = Len(arr) /\ arr \in Seq(Entry) /\ Up \subseteq Kept /\ Kept \subseteq Up
      /\ e \in hosts /\ e \notin Up
      /\ conn \in [Entry -> {"idle", "dialing", "up", "down"}] /\ hosts \subseteq Entry
  BY DEF ConnInv, ConnTypeOK, DialComplete, BeforeSweep, ClientsConnected, DialledHosts, Up
<1>3. Up' = Up \cup {e}
  BY <1>2 DEF Up
<1>4. /\ len' = len + 1 /\ len \in Nat /\ arr'[len + 1] = e
      /\ \A k \in 1 .. len : arr'[k] = arr[k]
      /\ len' = Len(arr')
  BY <1>2
<1>5. Kept' = Kept \cup {e}
  BY <1>4 DEF Kept
<1>6. ClientsConnected'
  <2>1. Kept' \subseteq Up'
    BY <1>2, <1>3, <1>5
  <2>2. ASSUME NEW i \in 1 .. len', NEW k \in 1 .. len', arr'[i] = arr'[k]
        PROVE  i = k
    <3>1. \A m \in 1 .. len : arr[m] # e
      BY <1>2 DEF Kept
    <3>2. CASE i \in 1 .. len /\ k \in 1 .. len
      BY <2>2, <3>2, <1>4 DEF ConnInv, ClientsConnected
    <3>3. CASE i \notin 1 .. len /\ k \in 1 .. len
      BY <2>2, <3>1, <3>3, <1>4
    <3>4. CASE i \in 1 .. len /\ k \notin 1 .. len
      BY <2>2, <3>1, <3>4, <1>4
    <3>5. CASE i \notin 1 .. len /\ k \notin 1 .. len
      BY <3>5, <1>4
    <3> QED
      BY <3>2, <3>3, <3>4, <3>5
  <2> QED
    BY <2>1, <2>2 DEF ClientsConnected
<1>7. DialComplete' /\ LostOnlyByName'
  BY <1>2, <1>3, <1>4, <1>5 DEF DialComplete, BeforeSweep, LostOnlyByName
<1>8. DialledHosts' /\ AllAnswered' /\ FailureTold'
  BY <1>2 DEF ConnInv, DialledHosts, AllAnswered, FailureTold
<1>9. NamesFailed'
  BY <1>2 DEF ConnInv, NamesFailed
<1> QED
  BY <1>1, <1>6, <1>7, <1>8, <1>9 DEF ConnInv

\* A host that fails adds its name to the failed ones.
LEMMA ReportFailureInv ==
    ASSUME ConnInv, NEW e \in Entry, Dialing(e), ReportFailure(e)
    PROVE  ConnInv'
<1> USE DEF ReportFailure, Dialing, sweepVars
<1>1. ConnTypeOK'
  <2>1. faults' \subseteq FaultKind
    BY FaultKinds DEF ConnInv, ConnTypeOK
  <2>2. RawName[e] \in Name
    BY ConnectAssumption
  <2> QED
    BY <2>1, <2>2 DEF ConnInv, ConnTypeOK
<1>2. /\ e \in hosts /\ hosts \subseteq Entry /\ failed \in Seq(Name)
      /\ conn \in [Entry -> {"idle", "dialing", "up", "down"}]
      /\ RawName[e] \in Name
  BY ConnectAssumption DEF ConnInv, ConnTypeOK, DialledHosts
<1>3. Up' = Up /\ Kept' = Kept
  BY <1>2 DEF Up, Kept
<1>4. ClientsConnected' /\ DialComplete' /\ LostOnlyByName'
  BY <1>3 DEF ConnInv, ClientsConnected, DialComplete, BeforeSweep, LostOnlyByName
<1>5. DialledHosts' /\ AllAnswered' /\ FailureTold'
  BY <1>2 DEF ConnInv, DialledHosts, AllAnswered, FailureTold
<1>6. NamesFailed'
  <2>1. failed' # <<>>
    BY <1>2
  <2>2. ASSUME NEW k \in 1 .. Len(failed')
        PROVE  \E f \in hosts : conn'[f] = "down" /\ failed'[k] = RawName[f]
    <3>1. CASE k \in 1 .. Len(failed)
      <4>1. PICK f \in hosts : conn[f] = "down" /\ failed[k] = RawName[f]
        BY <3>1 DEF ConnInv, NamesFailed
      <4>2. conn'[f] = "down" /\ failed'[k] = failed[k]
        BY <3>1, <4>1, <1>2
      <4> QED
        BY <4>1, <4>2
    <3>2. CASE k = Len(failed) + 1
      BY <3>2, <1>2
    <3> QED
      BY <3>1, <3>2, <1>2
  <2> QED
    BY <2>1, <2>2 DEF NamesFailed
<1> QED
  BY <1>1, <1>4, <1>5, <1>6 DEF ConnInv

\* The sweep begins when every host has reported.
LEMMA GatheredInv == ASSUME ConnInv, Gathered PROVE ConnInv'
<1> USE DEF Gathered
<1>1. ConnTypeOK'
  BY DEF ConnInv, ConnTypeOK
<1>2. Up' = Up /\ Kept' = Kept /\ Up \subseteq Kept
  BY DEF Up, Kept, ConnInv, DialComplete, BeforeSweep
<1>3. ClientsConnected' /\ DialComplete' /\ LostOnlyByName'
  BY <1>2 DEF ConnInv, ClientsConnected, DialComplete, BeforeSweep, LostOnlyByName
<1>4. DialledHosts' /\ AllAnswered' /\ FailureTold' /\ NamesFailed'
  BY DEF ConnInv, DialledHosts, AllAnswered, FailureTold, NamesFailed
<1> QED
  BY <1>1, <1>3, <1>4 DEF ConnInv

\* The steps of the sweep that leave the slice alone.
LEMMA SweepMovesInv ==
    ASSUME ConnInv, SweepMiss \/ SweepNextName \/ SweepOutOfRange
    PROVE  ConnInv'
<1> USE DEF SweepMiss, SweepNextName, SweepOutOfRange, Sweeping, sweepVars
<1>1. ConnTypeOK'
  BY DEF ConnInv, ConnTypeOK
<1>2. Up' = Up /\ Kept' = Kept
  BY DEF Up, Kept
<1>3. ClientsConnected' /\ DialComplete' /\ LostOnlyByName'
  BY <1>2 DEF ConnInv, ClientsConnected, DialComplete, BeforeSweep, LostOnlyByName
<1>4. DialledHosts' /\ AllAnswered' /\ FailureTold' /\ NamesFailed'
  BY DEF ConnInv, DialledHosts, AllAnswered, FailureTold, NamesFailed
<1> QED
  BY <1>1, <1>3, <1>4 DEF ConnInv

\* removeIndex drops exactly the element at the index, and keeps the rest once.
LEMMA RemoveIndexKeeps ==
    ASSUME arr \in Seq(Entry), len \in 0 .. Len(arr), NEW k \in 1 .. len,
           \A i, j \in 1 .. len : arr[i] = arr[j] => i = j,
           removeIndex(k)
    PROVE  /\ arr' \in Seq(Entry) /\ Len(arr') = Len(arr) /\ len' \in 0 .. Len(arr')
           /\ Kept' = Kept \ {arr[k]}
           /\ \A i, j \in 1 .. len' : arr'[i] = arr'[j] => i = j
<1> USE DEF removeIndex
<1>1. arr' \in Seq(Entry) /\ Len(arr') = Len(arr) /\ len' \in 0 .. Len(arr') /\ len' = len - 1
  <2>1. \A i \in 1 .. Len(arr) : arr'[i] \in Entry
    OBVIOUS
  <2> QED
    BY <2>1
<1>2. \A i \in 1 .. len' : arr'[i] = IF i < k THEN arr[i] ELSE arr[i + 1]
  BY <1>1
<1>3. \A i, j \in 1 .. len' : arr'[i] = arr'[j] => i = j
  BY <1>1, <1>2
<1>4. Kept' \subseteq Kept \ {arr[k]}
  <2> SUFFICES ASSUME NEW i \in 1 .. len'
               PROVE  arr'[i] \in Kept /\ arr'[i] # arr[k]
    BY DEF Kept
  <2>1. CASE i < k
    <3>1. arr'[i] = arr[i] /\ i \in 1 .. len
      BY <2>1, <1>1, <1>2
    <3> QED
      BY <3>1, <2>1 DEF Kept
  <2>2. CASE i >= k
    <3>1. arr'[i] = arr[i + 1] /\ i + 1 \in 1 .. len
      BY <2>2, <1>1, <1>2
    <3> QED
      BY <3>1, <2>2 DEF Kept
  <2> QED
    BY <2>1, <2>2, <1>1
<1>5. Kept \ {arr[k]} \subseteq Kept'
  <2>1. ASSUME NEW i \in 1 .. len, arr[i] # arr[k]
        PROVE  \E j \in 1 .. len' : arr'[j] = arr[i]
    <3>1. CASE i < k
      <4>1. i \in 1 .. len' /\ arr'[i] = arr[i]
        BY <3>1, <1>1, <1>2
      <4> QED
        BY <4>1
    <3>2. CASE i > k
      <4>1. i - 1 \in 1 .. len' /\ arr'[i - 1] = arr[i]
        BY <3>2, <1>1, <1>2
      <4> QED
        BY <4>1
    <3> QED
      BY <2>1, <3>1, <3>2
  <2>2. ASSUME NEW x \in Kept, x # arr[k] PROVE x \in Kept'
    <3>1. PICK i \in 1 .. len : arr[i] = x
      BY <2>2 DEF Kept
    <3> QED
      BY <2>1, <2>2, <3>1 DEF Kept
  <2> QED
    BY <2>2
<1> QED
  BY <1>1, <1>3, <1>4, <1>5

\* A removal loses one client, and only for its name.
LEMMA SweepHitInv == ASSUME ConnInv, SweepHit PROVE ConnInv'
<1> USE DEF SweepHit, Sweeping
<1>1. /\ arr \in Seq(Entry) /\ len \in 0 .. Len(arr) /\ n \in 1 .. len /\ lim \in 0 .. Len(arr)
      /\ at \in 1 .. Len(failed) /\ hosts \subseteq Entry
      /\ \A i, k \in 1 .. len : arr[i] = arr[k] => i = k
  BY DEF ConnInv, ConnTypeOK, ClientsConnected
<1>2. /\ arr' \in Seq(Entry) /\ Len(arr') = Len(arr) /\ len' \in 0 .. Len(arr')
      /\ Kept' = Kept \ {arr[n]}
      /\ \A i, k \in 1 .. len' : arr'[i] = arr'[k] => i = k
  BY <1>1, RemoveIndexKeeps
<1>3. ConnTypeOK'
  BY <1>1, <1>2 DEF ConnInv, ConnTypeOK
<1>4. Up' = Up
  BY DEF Up
<1>5. ClientsConnected'
  BY <1>2, <1>4 DEF ConnInv, ClientsConnected
<1>6. LostOnlyByName'
  <2> SUFFICES ASSUME NEW e \in Up \ Kept'
               PROVE  \E f \in hosts : conn[f] = "down" /\ RawName[f] = ClientName[e]
    BY <1>4 DEF LostOnlyByName
  <2>1. CASE e \notin Kept
    BY <2>1 DEF ConnInv, LostOnlyByName
  <2>2. CASE e = arr[n]
    <3>1. PICK f \in hosts : conn[f] = "down" /\ failed[at] = RawName[f]
      BY <1>1 DEF ConnInv, NamesFailed
    <3> QED
      BY <3>1, <2>2 DEF SameName
  <2> QED
    BY <2>1, <2>2, <1>2
<1>7. DialComplete' /\ DialledHosts' /\ AllAnswered' /\ FailureTold' /\ NamesFailed'
  BY DEF ConnInv, DialComplete, BeforeSweep, DialledHosts, AllAnswered, FailureTold, NamesFailed
<1> QED
  BY <1>3, <1>5, <1>6, <1>7 DEF ConnInv

\* The sweep ends with every failed name swept, or with "all".
LEMMA SweepEndsInv == ASSUME ConnInv, SweepEnds PROVE ConnInv'
<1> USE DEF SweepEnds, sweepVars
<1>1. ConnTypeOK'
  BY ConnectAssumption DEF ConnInv, ConnTypeOK
<1>2. Up' = Up /\ Kept' = Kept
  BY DEF Up, Kept
<1>3. ClientsConnected' /\ DialComplete' /\ LostOnlyByName'
  BY <1>2 DEF ConnInv, ClientsConnected, DialComplete, BeforeSweep, LostOnlyByName
<1>4. DialledHosts' /\ AllAnswered' /\ NamesFailed'
  BY DEF ConnInv, DialledHosts, AllAnswered, NamesFailed
<1>5. FailureTold'
  <2> SUFFICES ASSUME hosts # {}
               PROVE  failed' = <<>> <=> \A e \in hosts : conn[e] = "up"
    BY DEF FailureTold
  <2>1. ASSUME \A e \in hosts : conn[e] = "up" PROVE failed = <<>> /\ len # 0
    <3>1. Len(failed) = 0
      BY <2>1 DEF ConnInv, NamesFailed, ConnTypeOK
    <3>2. Up \subseteq Kept /\ Up # {}
      BY <2>1 DEF ConnInv, LostOnlyByName, Up
    <3> QED
      BY <3>1, <3>2 DEF Kept, ConnInv, ConnTypeOK
  <2>2. ASSUME failed = <<>> PROVE \A e \in hosts : conn[e] = "up"
    BY <2>2 DEF ConnInv, NamesFailed, AllAnswered
  <2>3. <<AllName>> # <<>>
    OBVIOUS
  <2> QED
    BY <2>1, <2>2, <2>3
<1> QED
  BY <1>1, <1>3, <1>4, <1>5 DEF ConnInv

\* Every step of the connection phase keeps the invariant.
LEMMA ConnectStepInv == ASSUME ConnInv, ConnectStep PROVE ConnInv'
<1>1. CASE BastionUp
  <2> USE <1>1 DEF BastionUp, sweepVars
  <2>1. ConnTypeOK'
    BY DEF ConnInv, ConnTypeOK
  <2>2. Up' = Up /\ Kept' = Kept
    BY DEF Up, Kept
  <2>3. ClientsConnected' /\ DialComplete' /\ LostOnlyByName'
    BY <2>2 DEF ConnInv, ClientsConnected, DialComplete, BeforeSweep, LostOnlyByName
  <2>4. DialledHosts' /\ AllAnswered' /\ FailureTold' /\ NamesFailed'
    BY DEF ConnInv, DialledHosts, AllAnswered, FailureTold, NamesFailed
  <2> QED
    BY <2>1, <2>3, <2>4 DEF ConnInv
<1>2. CASE BastionDown \/ BastionPanics
  <2>1. faults' \subseteq FaultKind
    BY <1>2, FaultKinds DEF BastionDown, BastionPanics, ConnInv, ConnTypeOK
  <2> QED
    BY <1>2, <2>1, ConnFrame DEF BastionDown, BastionPanics
<1>3. ASSUME NEW e \in Entry, HostAnswers(e) PROVE ConnInv'
  <2>1. CASE HostUp(e)
    BY <2>1, HostUpInv
  <2>2. CASE HostDown(e) \/ HostUnconfigured(e)
    BY <2>2, ReportFailureInv DEF HostDown, HostUnconfigured
  <2>3. CASE InventoryPanics(e)
    <3>1. faults' \subseteq FaultKind
      BY <2>3, FaultKinds DEF InventoryPanics, ConnInv, ConnTypeOK
    <3> QED
      BY <2>3, <3>1, ConnFrame DEF InventoryPanics
  <2> QED
    BY <1>3, <2>1, <2>2, <2>3 DEF HostAnswers
<1>4. CASE Gathered
  BY <1>4, GatheredInv
<1>5. CASE Sweep
  BY <1>5, SweepMovesInv, SweepHitInv, SweepEndsInv DEF Sweep
<1> QED
  BY <1>1, <1>2, <1>3, <1>4, <1>5 DEF ConnectStep

\* Stuttering keeps the invariant.
LEMMA ConnStutterInv == ASSUME ConnInv, UNCHANGED connVars PROVE ConnInv'
BY ConnFrame DEF connVars, sweepVars, ConnInv, ConnTypeOK

----------------------------------------------------------------------------

\* The invariant of the connection phase holds throughout (run.go:127-177, 438-523).
THEOREM ConnInductive == ConnSpec => []ConnInv
<1>1. ConnInit => ConnInv
  BY ConnInitInv
<1>2. ConnInv /\ [ConnNext]_connVars => ConnInv'
  BY ConnectStepInv, ConnStutterInv DEF ConnNext
<1> QED
  BY <1>1, <1>2, PTL DEF ConnSpec

\* Type correctness of the connection phase.
THEOREM ConnTypeCorrect == ConnSpec => []ConnTypeOK
<1>1. ConnInv => ConnTypeOK
  BY DEF ConnInv
<1> QED
  BY <1>1, ConnInductive, PTL

\* Run gets connected clients only, each once, however the hosts are named and
\* whichever of them fail.
THEOREM ClientsConnectedAlways == ConnSpec => []ClientsConnected
<1>1. ConnInv => ClientsConnected
  BY DEF ConnInv
<1> QED
  BY <1>1, ConnInductive, PTL

\* The sweep of removeIndex drops a reachable host only for sharing the name of
\* a failed one.
THEOREM LostOnlyByNameAlways == ConnSpec => []LostOnlyByName
<1>1. ConnInv => LostOnlyByName
  BY DEF ConnInv
<1> QED
  BY <1>1, ConnInductive, PTL

\* Run hears of a failure exactly when a host failed.
THEOREM FailureToldAlways == ConnSpec => []FailureTold
<1>1. ConnInv => FailureTold
  BY DEF ConnInv
<1> QED
  BY <1>1, ConnInductive, PTL

\* The names are distinct when no client is called what another entry is
\* written as; then skipping unreachable hosts keeps every reachable one.
DistinctNames == \A e, f \in Entry : e # f => RawName[f] # ClientName[e]

\* If no two hosts share a name, a reachable host is never dropped from the clients
\* (run.go:135-146).
THEOREM ReachableKeptIfDistinct == ASSUME DistinctNames PROVE ConnSpec => []ReachableKept
<1>1. ConnInv => ReachableKept
  <2> SUFFICES ASSUME ConnInv, cphase = "ready", NEW e \in Up, e \notin Kept
               PROVE  FALSE
    BY DEF ReachableKept
  <2>1. PICK f \in hosts : conn[f] = "down" /\ RawName[f] = ClientName[e]
    BY DEF ConnInv, LostOnlyByName
  <2>2. conn[e] = "up" /\ e \in Entry /\ f \in Entry
    BY DEF Up, ConnInv, ConnTypeOK
  <2>3. e # f
    BY <2>1, <2>2
  <2> QED
    BY <2>1, <2>2, <2>3 DEF DistinctNames
<1> QED
  BY <1>1, ConnInductive, PTL
=============================================================================
