-------------------------- MODULE NamespacesProofs --------------------------
(***************************************************************************)
(* Namespaces takes the wait for a client apart into the fetch of its      *)
(* variables and adds what commands register.  Every behaviour of it is    *)
(* one of Stackup.                                                         *)
(***************************************************************************)
EXTENDS Namespaces, StackupProofs, WellFoundedInduction

LEMMA WaitStep ==
    ASSUME NEW c \in Client, WaitOk(c) \/ WaitStopped(c) \/ WaitFailed(c) \/ TubeFails(c)
    PROVE  Next
BY DEF Next, WaitReturns

LEMMA FetchStep == ASSUME NEW c \in Client, NsFetch(c) PROVE [Next]_vars
<1>1. CASE StatMisses(c) \/ RemoveTube(c) \/ LocalWaitOk(c)
  BY <1>1, WaitStep DEF StatMisses, RemoveTube, LocalWaitOk
<1>2. CASE StatHits(c) \/ DownloadTube(c) \/ SetFromEnvString(c)
  BY <1>2 DEF StatHits, DownloadTube, SetFromEnvString
<1> QED
  BY <1>1, <1>2 DEF NsFetch

\* A step with namespaces is one of the invocation, or none.
LEMMA NsStepImplements == ASSUME NsNext PROVE [Next]_vars
<1>1. CASE NsBeginPlay \/ NsNextCommand \/ NsLaunch
  BY <1>1 DEF NsBeginPlay, NsNextCommand, NsLaunch, Next, MainStep
<1>2. CASE Add
  BY <1>2 DEF Add, Next
<1>3. CASE OtherMainStep
  BY <1>3 DEF Next, MainStep
<1>4. CASE Terminated
  BY <1>4 DEF Next
<1>5. ASSUME NEW c \in Client, Register(c) PROVE UNCHANGED vars
  BY <1>5 DEF Register
<1>6. ASSUME NEW c \in Client, NsFinish(c) PROVE Next
  BY <1>6 DEF NsFinish, Next
<1>7. ASSUME NEW c \in Client, NsWaitFails(c) PROVE Next
  BY <1>7, WaitStep DEF NsWaitFails
<1> QED
  BY <1>1, <1>2, <1>3, <1>4, <1>5, <1>6, <1>7, FetchStep DEF NsNext

\* The fetch of variables and the injection of namespaces implement the waits
\* and starts of Stackup: they add no way for an invocation to go on, end or
\* fail (src/gateway/ssh/ssh.go:435-507).
THEOREM NamespacesImplement == NsSpec => Spec
<1>1. NsInit => Init
  BY DEF NsInit
<1>2. [NsNext]_<<vars, nsVars>> => [Next]_vars
  BY NsStepImplements
<1> QED
  BY <1>1, <1>2, PTL DEF NsSpec, Spec

\* With namespaces an invocation still runs in lock step: no task begins before
\* the wait for every client of the one before, with its fetch, has returned.
THEOREM NamespacesLockStepped == NsSpec => LockStepped
BY NamespacesImplement, LockStepImplemented

----------------------------------------------------------------------------
(* whose variables a namespace holds *)

\* A value of variable v that was meant for the namespace k.
Meant(k, v, x) ==
    \E r \in registered :
        /\ r.var = v /\ r.val = x
        /\ \/ r.dest = k
           \/ r.dest = OwnHost /\ Writer(x) \in Remote /\ HostKey[Writer(x)] = k

\* Lines that were registered in the home h.
From(lines, h) ==
    \A i \in 1 .. Len(lines) : lines[i] \in registered /\ HomeOf[Writer(lines[i].val)] = h

LinesKept ==
    /\ \A h \in Homes : From(file[h], h)
    /\ \A c \in Client : From(got[c], HomeOf[c])

StoreMeant == \A k \in Key, v \in Var : store[k][v] # Unset => Meant(k, v, store[k][v])

EnvMeant ==
    \A c \in Client, v \in Var :
        env[c][v] # Unset =>
            c \in Entry /\ (Meant(TubeOf[c], v, env[c][v]) \/ Meant(HostKey[c], v, env[c][v]))

\* A command may be given what its client was given before, a client what lies
\* in the store, the store what was fetched: each holds only what was meant
\* for it.
NsInv == NamespacesTypeOK /\ LinesKept /\ StoreMeant /\ EnvMeant

\* A set of positions has a last one.
LEMMA LastOne ==
    ASSUME NEW m \in Nat, NEW S \in SUBSET (1 .. m), S # {}
    PROVE  \E i \in S : \A j \in S : j <= i
<1> DEFINE T == {m - i : i \in S}
<1>1. T \subseteq Nat /\ T # {}
  <2>1. \A i \in S : m - i \in Nat
    OBVIOUS
  <2>2. T \subseteq Nat
    BY <2>1
  <2>3. PICK i \in S : TRUE
    OBVIOUS
  <2>4. m - i \in T
    BY <2>3
  <2> QED
    BY <2>2, <2>4
<1> DEFINE R == OpToRel(<, Nat)
<1>2. IsWellFoundedOn(R, Nat)
  BY NatLessThanWellFounded
<1>3. \A x, y \in Nat : x < y => <<x, y>> \in R
  BY DEF OpToRel
<1> HIDE DEF R, T
<1>4. PICK x \in T : \A y \in T : ~(<<y, x>> \in R)
  BY <1>1, <1>2, WFMin
<1>5. \A y \in T : ~(y < x)
  BY <1>1, <1>3, <1>4
<1>6. PICK i \in S : x = m - i
  BY <1>4 DEF T
<1>7. ASSUME NEW j \in S PROVE j <= i
  <2>1. m - j \in T
    BY DEF T
  <2> QED
    BY <1>5, <1>6, <2>1
<1> QED
  BY <1>6, <1>7

\* What was registered stays registered.
LEMMA Remembered ==
    ASSUME registered \subseteq registered'
    PROVE  /\ \A k, v, x : Meant(k, v, x) => Meant(k, v, x)'
           /\ \A lines, h : From(lines, h) => From(lines, h)'
BY DEF Meant, From

\* Of two entries with one home, both remote, each is the other's host.
LEMMA SharedHome ==
    ASSUME NEW c \in Remote, NEW w \in Client, HomeOf[w] = HomeOf[c]
    PROVE  w \in Remote /\ HostKey[w] = HostKey[c]
BY NamespacesAssumption DEF Remote, Client

----------------------------------------------------------------------------
(* the steps *)

LEMMA NsSame ==
    ASSUME NsInv, UNCHANGED nsVars PROVE NsInv'
BY DEF NsInv, nsVars, fetchVars, NamespacesTypeOK, LinesKept, From, StoreMeant, EnvMeant, Meant

\* A client that is made anew has no variables.
LEMMA Renew ==
    ASSUME NsInv, NEW C \in SUBSET Client, UNCHANGED <<store, file, fetchVars>>,
           env' = [c \in Client |-> IF c \in C THEN NoVars ELSE env[c]]
    PROVE  NsInv'
<1>1. NamespacesTypeOK'
  BY DEF NsInv, NamespacesTypeOK, fetchVars, NoVars
<1>2. LinesKept' /\ StoreMeant'
  BY DEF NsInv, LinesKept, From, StoreMeant, Meant, fetchVars
<1>3. EnvMeant'
  <2> SUFFICES ASSUME NEW c \in Client, NEW v \in Var, env'[c][v] # Unset
               PROVE  c \in Entry /\ (Meant(TubeOf[c], v, env'[c][v])
                                        \/ Meant(HostKey[c], v, env'[c][v]))
    BY DEF EnvMeant, Meant, fetchVars
  <2>1. env'[c] = env[c]
    BY DEF NoVars
  <2> QED
    BY <2>1 DEF NsInv, EnvMeant
<1> QED
  BY <1>1, <1>2, <1>3 DEF NsInv

LEMMA InjectInv == ASSUME NsInv, NsLaunch, RunInv PROVE NsInv'
<1>1. PICK d \in Client : d = CS[cur]
  <2>1. CS \in Seq(Client) /\ cur \in 1 .. Len(CS)
    BY TaskFacts DEF NsLaunch, Launch, AtClient, Alive, RunInv, PlaceOK, InTask, RunTypeOK
  <2> QED
    BY <2>1
<1>2. env' = [env EXCEPT ![d] = InjectNamespacesAndEnvs(d)]
  BY <1>1 DEF NsLaunch
<1>3. UNCHANGED <<store, file, fetch, got, registered, tubeFaults>>
      /\ wrote' = [wrote EXCEPT ![d] = 0]
  BY <1>1 DEF NsLaunch
<1>4. InjectNamespacesAndEnvs(d) \in [Var -> Value \cup {Unset}]
  BY <1>1, NamespacesAssumption DEF InjectNamespacesAndEnvs, NsInv, NamespacesTypeOK, NoVars, Remote
<1>5. NamespacesTypeOK'
  BY <1>1, <1>2, <1>3, <1>4 DEF NsInv, NamespacesTypeOK
<1>6. LinesKept' /\ StoreMeant'
  BY <1>3 DEF NsInv, LinesKept, From, StoreMeant, Meant
<1>7. EnvMeant'
  <2> SUFFICES ASSUME NEW c \in Client, NEW v \in Var, env'[c][v] # Unset
               PROVE  c \in Entry /\ (Meant(TubeOf[c], v, env'[c][v])
                                        \/ Meant(HostKey[c], v, env'[c][v]))
    BY <1>3 DEF EnvMeant, Meant
  <2>1. CASE c # d
    <3>1. env'[c] = env[c]
      BY <1>2, <2>1 DEF NsInv, NamespacesTypeOK
    <3> QED
      BY <3>1 DEF NsInv, EnvMeant
  <2>2. CASE c = d
    <3> DEFINE tube == IF c \in Entry /\ TubeOf[c] # NoTube THEN store[TubeOf[c]] ELSE NoVars
               host == IF c \in Remote THEN store[HostKey[c]] ELSE NoVars
    <3>1. env'[c][v] = IF tube[v] # Unset THEN tube[v]
                       ELSE IF host[v] # Unset THEN host[v] ELSE env[c][v]
      BY <1>2, <2>2 DEF InjectNamespacesAndEnvs, NsInv, NamespacesTypeOK
    <3>2. CASE tube[v] # Unset
      <4>1. c \in Entry /\ TubeOf[c] \in Key /\ env'[c][v] = store[TubeOf[c]][v]
        BY <3>1, <3>2, NamespacesAssumption DEF NoVars
      <4> QED
        BY <4>1 DEF NsInv, StoreMeant
    <3>3. CASE tube[v] = Unset /\ host[v] # Unset
      <4>1. c \in Remote /\ HostKey[c] \in Key /\ env'[c][v] = store[HostKey[c]][v]
        BY <3>1, <3>3, NamespacesAssumption DEF NoVars, Remote
      <4> QED
        BY <4>1 DEF NsInv, StoreMeant, Remote
    <3>4. CASE tube[v] = Unset /\ host[v] = Unset
      <4>1. env'[c][v] = env[c][v]
        BY <3>1, <3>4
      <4> QED
        BY <4>1 DEF NsInv, EnvMeant
    <3> QED
      BY <3>2, <3>3, <3>4
  <2> QED
    BY <2>1, <2>2
<1> QED
  BY <1>5, <1>6, <1>7 DEF NsInv

LEMMA AddInv == ASSUME NsInv, Add PROVE NsInv'
<1>1. store' = [k \in Key |-> IF Renewed(k) THEN NoVars ELSE store[k]]
      /\ UNCHANGED <<env, file, fetchVars>>
  BY DEF Add
<1>2. NamespacesTypeOK'
  BY <1>1 DEF NsInv, NamespacesTypeOK, fetchVars, NoVars
<1>3. LinesKept' /\ EnvMeant'
  BY <1>1 DEF NsInv, LinesKept, From, EnvMeant, Meant, fetchVars
<1>4. StoreMeant'
  <2> SUFFICES ASSUME NEW k \in Key, NEW v \in Var, store'[k][v] # Unset
               PROVE  Meant(k, v, store'[k][v])
    BY <1>1 DEF StoreMeant, Meant, fetchVars
  <2>1. store'[k] = store[k]
    BY <1>1 DEF NoVars
  <2> QED
    BY <2>1 DEF NsInv, StoreMeant
<1> QED
  BY <1>2, <1>3, <1>4 DEF NsInv

LEMMA RegisterInv == ASSUME NsInv, RunInv, NEW c \in Client, Register(c) PROVE NsInv'
<1> DEFINE order == Lines[wrote[c] + 1]
           line == [dest |-> order.dest, var |-> order.var, val |-> <<play, cmd, task, c>>]
<1>1. line \in Line /\ Writer(line.val) = c
  <2>1. pc \in {"launch", "io"}
    BY DEF Register, RunInv, NothingLeftBehind
  <2>2. Cmd \in Command /\ tasks[task] \in Task
    BY <2>1, CmdFacts, TaskFacts DEF RunInv, PlaceOK, InTask
  <2>3. Lines \in Seq(Order)
    BY <2>2, NamespacesAssumption DEF Lines, Command, Task, Kind
  <2>4. wrote[c] + 1 \in 1 .. Len(Lines)
    BY <2>3 DEF Register, NsInv, NamespacesTypeOK
  <2>5. order \in Order
    BY <2>3, <2>4
  <2>6. <<play, cmd, task, c>> \in Value
    BY DEF Value, RunInv, RunTypeOK
  <2> QED
    BY <2>5, <2>6 DEF Line, Order, Writer
<1>2. /\ file' = [file EXCEPT ![HomeOf[c]] = Append(@, line)]
      /\ registered' = registered \cup {line}
      /\ wrote' = [wrote EXCEPT ![c] = @ + 1]
      /\ UNCHANGED <<store, env, fetch, got, tubeFaults>>
  BY DEF Register
<1> HIDE DEF line
<1>3. NamespacesTypeOK'
  BY <1>1, <1>2 DEF NsInv, NamespacesTypeOK, Homes
<1>4. LinesKept'
  <2>1. ASSUME NEW h \in Homes PROVE From(file[h], h)'
    <3>1. CASE h # HomeOf[c]
      <4>1. file'[h] = file[h] /\ From(file[h], h)
        BY <1>2, <2>1, <3>1 DEF NsInv, LinesKept, NamespacesTypeOK
      <4>2. registered \subseteq registered'
        BY <1>2
      <4> QED
        BY <4>1, <4>2 DEF From, Writer
    <3>2. CASE h = HomeOf[c]
      <4>1. file[h] \in Seq(Line) /\ file'[h] = Append(file[h], line)
        BY <1>2, <2>1, <3>2 DEF NsInv, NamespacesTypeOK
      <4>2. From(file[h], h)
        BY <2>1 DEF NsInv, LinesKept
      <4> QED
        <5>1. ASSUME NEW i \in 1 .. Len(file'[h])
              PROVE  file'[h][i] \in registered' /\ HomeOf[Writer(file'[h][i].val)] = h
          <6>1. CASE i \in 1 .. Len(file[h])
            <7>1. file'[h][i] = file[h][i]
              BY <1>1, <4>1, <6>1
            <7> QED
              BY <1>2, <4>2, <6>1, <7>1 DEF From
          <6>2. CASE i \notin 1 .. Len(file[h])
            <7>1. file'[h][i] = line
              BY <1>1, <4>1, <5>1, <6>2
            <7> QED
              BY <1>1, <1>2, <3>2, <7>1
          <6> QED
            BY <6>1, <6>2
        <5> QED
          BY <5>1 DEF From, Writer
    <3> QED
      BY <3>1, <3>2
  <2>2. ASSUME NEW d \in Client PROVE From(got[d], HomeOf[d])'
    <3>1. got'[d] = got[d] /\ From(got[d], HomeOf[d])
      BY <1>2, <2>2 DEF NsInv, LinesKept
    <3> QED
      BY <1>2, <3>1 DEF From
  <2> QED
    BY <2>1, <2>2 DEF LinesKept
<1>5. StoreMeant' /\ EnvMeant'
  BY <1>2, Remembered DEF NsInv, StoreMeant, EnvMeant
<1> QED
  BY <1>3, <1>4, <1>5 DEF NsInv

LEMMA DownloadInv == ASSUME NsInv, NEW c \in Client, DownloadTube(c) PROVE NsInv'
<1>1. HomeOf[c] \in Homes
  BY DEF Homes
<1> DEFINE f == file[HomeOf[c]]
<1>2. f \in Seq(Line) /\ From(f, HomeOf[c])
  BY <1>1 DEF NsInv, NamespacesTypeOK, LinesKept
<1>3. PICK k \in 0 .. Len(f) : got' = [got EXCEPT ![c] = SubSeq(f, 1, k)]
  <2>1. f = SubSeq(f, 1, Len(f)) /\ Len(f) \in 0 .. Len(f)
    BY <1>2
  <2> QED
    BY <2>1 DEF DownloadTube
<1>4. /\ fetch' = [fetch EXCEPT ![c] = "set"]
      /\ UNCHANGED <<store, env, file, wrote, registered>>
      /\ tubeFaults' \subseteq {"stat", "read", "remove"}
  BY NamespacesAssumption DEF DownloadTube, Failing, NsInv, NamespacesTypeOK
<1>5. SubSeq(f, 1, k) \in Seq(Line) /\ From(SubSeq(f, 1, k), HomeOf[c])
  <2> HIDE DEF f
  <2>1. Len(f) \in Nat /\ k \in Nat /\ k <= Len(f)
    BY <1>2
  <2>2. \A i \in 1 .. k : f[i] \in Line
    BY <1>2, <2>1
  <2>3. /\ SubSeq(f, 1, k) \in Seq(Line) /\ Len(SubSeq(f, 1, k)) = k
        /\ \A i \in 1 .. k : SubSeq(f, 1, k)[i] = f[i]
    BY <1>2, <2>1, <2>2
  <2> QED
    BY <1>2, <2>1, <2>3 DEF From
<1> HIDE DEF f
<1>6. NamespacesTypeOK'
  BY <1>3, <1>4, <1>5 DEF NsInv, NamespacesTypeOK
<1>7. LinesKept'
  BY <1>3, <1>4, <1>5 DEF NsInv, LinesKept, From, NamespacesTypeOK
<1>8. StoreMeant' /\ EnvMeant'
  BY <1>4 DEF NsInv, StoreMeant, EnvMeant, Meant
<1> QED
  BY <1>6, <1>7, <1>8 DEF NsInv

LEMMA SetInv == ASSUME NsInv, NEW c \in Client, SetFromEnvString(c) PROVE NsInv'
<1> DEFINE last(k, v) == CHOOSE i \in LinesFor(c, k, v) : \A j \in LinesFor(c, k, v) : j <= i
<1>1. got[c] \in Seq(Line) /\ From(got[c], HomeOf[c]) /\ c \in Remote
  BY DEF NsInv, NamespacesTypeOK, LinesKept, SetFromEnvString, Fetching
<1>2. /\ store' = [k \in Key |-> [v \in Var |->
                     IF LinesFor(c, k, v) = {} THEN store[k][v] ELSE got[c][last(k, v)].val]]
      /\ fetch' = [fetch EXCEPT ![c] = "remove"]
      /\ UNCHANGED <<env, file, wrote, got, registered, tubeFaults>>
  BY DEF SetFromEnvString
<1>3. ASSUME NEW k \in Key, NEW v \in Var, LinesFor(c, k, v) # {}
      PROVE  last(k, v) \in LinesFor(c, k, v)
  <2>1. Len(got[c]) \in Nat /\ LinesFor(c, k, v) \in SUBSET (1 .. Len(got[c]))
    BY <1>1 DEF LinesFor
  <2>2. \E i \in LinesFor(c, k, v) : \A j \in LinesFor(c, k, v) : j <= i
    BY <1>3, <2>1, LastOne
  <2> QED
    BY <2>2
<1> HIDE DEF last
<1>4. ASSUME NEW k \in Key, NEW v \in Var, LinesFor(c, k, v) # {}
      PROVE  got[c][last(k, v)].val \in Value /\ Meant(k, v, got[c][last(k, v)].val)
  <2> DEFINE r == got[c][last(k, v)]
  <2>1. /\ last(k, v) \in 1 .. Len(got[c]) /\ r.var = v
        /\ r.dest = k \/ (r.dest = OwnHost /\ HostKey[c] = k)
    BY <1>3, <1>4 DEF LinesFor
  <2>2. r \in Line /\ r \in registered /\ HomeOf[Writer(r.val)] = HomeOf[c]
    BY <1>1, <2>1 DEF From
  <2>3. Writer(r.val) \in Client /\ r.val \in Value
    BY <2>2 DEF Line, Value, Writer
  <2> HIDE DEF r
  <2>4. Writer(r.val) \in Remote /\ HostKey[Writer(r.val)] = HostKey[c]
    BY <1>1, <2>2, <2>3, SharedHome
  <2>5. Meant(k, v, r.val)
    BY <2>1, <2>2, <2>4 DEF Meant
  <2> QED
    BY <2>3, <2>5 DEF r
<1>5. NamespacesTypeOK'
  BY <1>2, <1>4 DEF NsInv, NamespacesTypeOK
<1>6. LinesKept' /\ EnvMeant'
  BY <1>2 DEF NsInv, LinesKept, From, EnvMeant, Meant
<1>7. StoreMeant'
  <2> SUFFICES ASSUME NEW k \in Key, NEW v \in Var, store'[k][v] # Unset
               PROVE  Meant(k, v, store'[k][v])
    BY <1>2 DEF StoreMeant, Meant
  <2> QED
    BY <1>2, <1>4 DEF NsInv, StoreMeant
<1> QED
  BY <1>5, <1>6, <1>7 DEF NsInv

LEMMA RemoveInv == ASSUME NsInv, NEW c \in Client, RemoveTube(c) PROVE NsInv'
<1>1. /\ file' = file \/ file' = [file EXCEPT ![HomeOf[c]] = <<>>]
      /\ fetch' = [fetch EXCEPT ![c] = "no"] /\ got' = [got EXCEPT ![c] = <<>>]
      /\ UNCHANGED <<store, env, wrote, registered>>
      /\ tubeFaults' \subseteq {"stat", "read", "remove"}
  BY NamespacesAssumption DEF RemoveTube, Failing, NsInv, NamespacesTypeOK
<1>2. <<>> \in Seq(Line) /\ Len(<<>>) = 0
  OBVIOUS
<1>3. file' \in [Homes -> Seq(Line)] /\ got' \in [Client -> Seq(Line)]
  BY <1>1, <1>2 DEF NsInv, NamespacesTypeOK
<1>4. NamespacesTypeOK'
  BY <1>1, <1>3 DEF NsInv, NamespacesTypeOK
<1>5. LinesKept'
  <2>1. ASSUME NEW h \in Homes PROVE From(file[h], h)'
    <3>1. file'[h] = <<>> \/ file'[h] = file[h]
      BY <1>1, <2>1 DEF NsInv, NamespacesTypeOK
    <3> QED
      BY <1>1, <1>2, <2>1, <3>1 DEF NsInv, LinesKept, From
  <2>2. ASSUME NEW d \in Client PROVE From(got[d], HomeOf[d])'
    <3>1. got'[d] = <<>> \/ got'[d] = got[d]
      BY <1>1, <2>2 DEF NsInv, NamespacesTypeOK
    <3> QED
      BY <1>1, <1>2, <2>2, <3>1 DEF NsInv, LinesKept, From
  <2> QED
    BY <2>1, <2>2 DEF LinesKept
<1>6. StoreMeant' /\ EnvMeant'
  BY <1>1 DEF NsInv, StoreMeant, EnvMeant, Meant
<1> QED
  BY <1>4, <1>5, <1>6 DEF NsInv

\* Steps that move nothing.
LEMMA StatInv ==
    ASSUME NsInv, NEW c \in Client, StatMisses(c) \/ StatHits(c) PROVE NsInv'
<1>1. /\ UNCHANGED <<store, env, file, wrote, got, registered>>
      /\ fetch' \in [Client -> {"no", "read", "set", "remove"}]
      /\ tubeFaults' \subseteq {"stat", "read", "remove"}
  BY NamespacesAssumption DEF StatMisses, StatHits, Failing, NsInv, NamespacesTypeOK
<1>2. UNCHANGED got
  BY DEF StatMisses, StatHits
<1>3. NamespacesTypeOK'
  BY <1>1, <1>2 DEF NsInv, NamespacesTypeOK
<1>4. LinesKept'
  BY <1>1, <1>2 DEF NsInv, LinesKept, From
<1>5. StoreMeant' /\ EnvMeant'
  BY <1>1 DEF NsInv, StoreMeant, EnvMeant, Meant
<1> QED
  BY <1>3, <1>4, <1>5 DEF NsInv

LEMMA NsInvStep == ASSUME RunInv, NsInv, NsNext PROVE NsInv'
<1>1. CASE NsBeginPlay
  <2>1. env' = [c \in Client |-> IF c \in Client THEN NoVars ELSE env[c]]
    BY <1>1 DEF NsBeginPlay
  <2> QED
    BY <1>1, <2>1, Renew DEF NsBeginPlay
<1>2. CASE NsNextCommand
  <2>1. env' = [c \in Client |-> IF c \in {LocalClient} THEN NoVars ELSE env[c]]
    BY <1>2 DEF NsNextCommand, NsInv, NamespacesTypeOK
  <2>2. {LocalClient} \in SUBSET Client
    BY DEF Client
  <2> QED
    BY <1>2, <2>1, <2>2, Renew DEF NsNextCommand
<1>3. CASE OtherMainStep /\ UNCHANGED nsVars
  BY <1>3, NsSame
<1>4. CASE Terminated /\ UNCHANGED nsVars
  BY <1>4, NsSame
<1>5. ASSUME NEW c \in Client, NsFinish(c) \/ NsWaitFails(c) \/ LocalWaitOk(c) PROVE NsInv'
  BY <1>5, NsSame DEF NsFinish, NsWaitFails, LocalWaitOk
<1>6. ASSUME NEW c \in Client, Register(c) \/ DownloadTube(c) \/ SetFromEnvString(c) PROVE NsInv'
  BY <1>6, RegisterInv, DownloadInv, SetInv
<1>7. ASSUME NEW c \in Client, RemoveTube(c) \/ StatMisses(c) \/ StatHits(c) PROVE NsInv'
  BY <1>7, RemoveInv, StatInv
<1>8. CASE NsLaunch \/ Add
  BY <1>8, InjectInv, AddInv
<1> QED
  BY <1>1, <1>2, <1>3, <1>4, <1>5, <1>6, <1>7, <1>8 DEF NsNext, NsFetch

\* The invariant holds of every behaviour.
THEOREM NsInductive == NsSpec => []NsInv
<1>1. NsInit => NsInv
  BY DEF NsInit, NsInv, NamespacesTypeOK, NoVars, LinesKept, From, StoreMeant, EnvMeant
<1>2. RunInv /\ NsInv /\ [NsNext]_<<vars, nsVars>> => NsInv'
  <2>1. RunInv /\ NsInv /\ NsNext => NsInv'
    BY NsInvStep
  <2>2. NsInv /\ UNCHANGED <<vars, nsVars>> => NsInv'
    BY NsSame
  <2> QED
    BY <2>1, <2>2
<1> QED
  BY <1>1, <1>2, NamespacesImplement, RunInductive, PTL DEF NsSpec

\* Every variable keeps its type.
THEOREM NamespacesTypes == NsSpec => []NamespacesTypeOK
<1>1. NsInv => NamespacesTypeOK
  BY DEF NsInv
<1> QED
  BY <1>1, NsInductive, PTL

\* Whatever hosts, homes and tubes an inventory has and however fetches
\* interleave and fail, a command is given no variable but those registered for
\* its own host or its own tube (src/gateway/namespace/namespace.go:29-61,
\* src/gateway/ssh/ssh.go:503).
THEOREM NoForeignVariableAlways == NsSpec => []NoForeignVariable
<1>1. RunInv /\ NsInv => NoForeignVariable
  <2> SUFFICES ASSUME RunInv, NsInv, NEW c \in Started, NEW v \in Var, env[c][v] # Unset
               PROVE  c \in Entry /\ (Meant(TubeOf[c], v, env[c][v])
                                        \/ Meant(HostKey[c], v, env[c][v]))
    BY DEF NoForeignVariable, Meant
  <2>1. c \in Client
    BY DEF Started, RunInv, RunTypeOK
  <2> QED
    BY <2>1 DEF NsInv, EnvMeant
<1> QED
  BY <1>1, NamespacesImplement, RunInductive, NsInductive, PTL
----------------------------------------------------------------------------
(* nothing is left in the homes *)

\* While clients are waited for, the home of each one that has been is empty.
Emptied ==
    (pc \in {"wait", "fetch"} /\ exit = "none" /\ tubeFaults = {}) =>
        \A c \in waited \cap Remote : file[HomeOf[c]] = <<>>

\* The wait for a task's clients begins when none has been waited for, and only
\* a client whose wait ends well is added.
LEMMA WaitFrame ==
    ASSUME RunInv, Next, pc' \in {"wait", "fetch"}, exit' = "none"
    PROVE  /\ exit = "none"
           /\ pc \in {"wait", "fetch"} \/ waited' = {}
           /\ waited' = waited \/ \E c \in Client : WaitOk(c)
<1> USE DEF Alive, Stop
<1>1. CASE MainStep
  <2>1. CASE \/ BeginPlay \/ PlayRefused \/ NoCommands \/ AllPlaysDone \/ ConnectRefused
             \/ ConnectAccepted \/ CreateTasksPanics \/ CreateTasksFails \/ CommandsDone
             \/ CloseClient \/ CloseFails \/ PlayDone \/ TasksDone \/ NoClients \/ NextCommand
    BY <2>1 DEF BeginPlay, StartConnect, PlayRefused, NoCommands, AllPlaysDone, ConnectRefused,
         ConnectAccepted, CreateTasksPanics, CreateTasksFails, CommandsDone, CloseClient,
         CloseFails, PlayDone, TasksDone, NoClients, NextCommand, runVars, connVars, sessions
  <2>2. CASE Launch \/ BeginTask \/ SkipCancelled \/ UploadFails \/ DistFails \/ LaunchDone
    BY <2>2 DEF Launch, BeginTask, SkipCancelled, UploadFails, DistFails, LaunchDone, connVars,
         AtClient
  <2>3. CASE RunRejected \/ RunFails \/ BuildFails
    BY <2>3 DEF RunRejected, RunFails, BuildFails, AtClient, runVars, sessions
  <2>4. CASE OutputDone
    BY <2>4 DEF OutputDone, RunInv, ClientsOK, connVars, sessions
  <2>5. CASE WaitDone \/ FetchSkipped \/ FetchOk \/ FetchFails \/ FetchDone
    BY <2>5 DEF WaitDone, FetchSkipped, FetchOk, FetchFails, FetchDone, AtFetch, connVars, sessions
  <2> QED
    BY <1>1, <2>1, <2>2, <2>3, <2>4, <2>5 DEF MainStep, OtherMainStep
<1>2. CASE Connecting
  BY <1>2 DEF Connecting, runVars
<1>3. CASE \E c \in Client : Finish(c)
  BY <1>3 DEF Finish
<1>4. CASE \E c \in Client : WaitReturns(c)
  BY <1>4 DEF WaitReturns, WaitStopped, WaitFailed, TubeFails, WaitOk, Waiting, connVars
<1>5. CASE Terminated
  BY <1>5 DEF Terminated, vars, connVars
<1> QED
  BY <1>1, <1>2, <1>3, <1>4, <1>5 DEF Next

\* Which steps write or remove files, and what a wait that ends well leaves.
LEMMA FileFrame ==
    ASSUME RunInv, NsInv, NsNext, exit = "none", pc \in {"wait", "fetch"}
    PROVE  /\ tubeFaults \subseteq tubeFaults'
           /\ \A h \in Homes : file'[h] = file[h] \/ file'[h] = <<>>
<1> USE DEF nsVars, fetchVars
<1>1. CASE NsBeginPlay \/ NsNextCommand \/ NsLaunch \/ Add
  BY <1>1 DEF NsBeginPlay, NsNextCommand, NsLaunch, Add
<1>2. CASE (OtherMainStep \/ Terminated) /\ UNCHANGED nsVars
  BY <1>2
<1>3. ASSUME NEW c \in Client, Register(c) PROVE FALSE
  BY <1>3 DEF Register, RunInv, NothingLeftBehind
<1>4. ASSUME NEW c \in Client, NsFinish(c) \/ NsWaitFails(c) \/ LocalWaitOk(c)
      PROVE  UNCHANGED nsVars
  BY <1>4 DEF NsFinish, NsWaitFails, LocalWaitOk
<1>5. ASSUME NEW c \in Client, \/ StatMisses(c) \/ StatHits(c) \/ DownloadTube(c)
                               \/ SetFromEnvString(c)
      PROVE  UNCHANGED file /\ tubeFaults \subseteq tubeFaults'
  BY <1>5 DEF StatMisses, StatHits, DownloadTube, SetFromEnvString, Failing
<1>6. ASSUME NEW c \in Client, RemoveTube(c)
      PROVE  /\ tubeFaults \subseteq tubeFaults'
             /\ \A h \in Homes : file'[h] = file[h] \/ file'[h] = <<>>
  BY <1>6 DEF RemoveTube, Failing, NsInv, NamespacesTypeOK
<1> QED
  BY <1>1, <1>2, <1>3, <1>4, <1>5, <1>6 DEF NsNext, NsFetch

\* The wait for a remote client ends well with the end of its fetch.
LEMMA WaitedBy ==
    ASSUME NsNext, pc = "wait", NEW c \in Remote, c \in waited', c \notin waited
    PROVE  StatMisses(c) \/ RemoveTube(c)
<1> USE DEF Alive, AtClient
<1>1. ~NsBeginPlay /\ ~NsNextCommand /\ ~NsLaunch
  BY DEF NsBeginPlay, BeginPlay, NsNextCommand, NextCommand, NsLaunch, Launch
<1>2. ~Add /\ ~Terminated
  BY DEF Add, Connecting, Terminated, vars, runVars
<1>3. CASE OtherMainStep
  <2>1. OtherMainStep => UNCHANGED waited \/ waited' = {}
    BY DEF OtherMainStep, PlayRefused, NoCommands, AllPlaysDone, ConnectRefused,
       ConnectAccepted, CreateTasksPanics, CreateTasksFails, CommandsDone, CloseClient,
       CloseFails, PlayDone, TasksDone, NoClients, BeginTask, SkipCancelled, UploadFails,
       DistFails, LaunchDone, RunRejected, RunFails, BuildFails, OutputDone, WaitDone,
       FetchSkipped, FetchOk, FetchFails, FetchDone, runVars, sessions
  <2> QED
    BY <1>3, <2>1
<1>4. ASSUME NEW d \in Client, \/ Register(d) \/ NsFinish(d) \/ StatHits(d) \/ DownloadTube(d)
                               \/ SetFromEnvString(d) \/ NsWaitFails(d)
      PROVE  UNCHANGED waited
  BY <1>4 DEF Register, NsFinish, Finish, StatHits, DownloadTube, SetFromEnvString, NsWaitFails,
       WaitStopped, WaitFailed, TubeFails, vars, runVars
<1>5. ASSUME NEW d \in Client, StatMisses(d) \/ RemoveTube(d) \/ LocalWaitOk(d)
      PROVE  d = c /\ ~LocalWaitOk(d)
  BY <1>5 DEF StatMisses, RemoveTube, LocalWaitOk, WaitOk
<1> QED
  BY <1>1, <1>2, <1>3, <1>4, <1>5 DEF NsNext, NsFetch

\* A remote client whose wait ends well has removed the file, or there was none.
LEMMA WaitEmpties ==
    ASSUME NsInv, NsNext, pc = "wait", tubeFaults' = {},
           NEW c \in Remote, c \in waited', c \notin waited
    PROVE  file'[HomeOf[c]] = <<>>
<1>1. HomeOf[c] \in Homes
  BY DEF Remote, Client, Homes
<1>2. CASE StatMisses(c)
  BY <1>2 DEF StatMisses, Failing
<1>3. CASE RemoveTube(c)
  BY <1>1, <1>3 DEF RemoveTube, Failing, NsInv, NamespacesTypeOK
<1> QED
  BY <1>2, <1>3, WaitedBy

LEMMA EmptiedStep ==
    ASSUME RunInv, NsInv, Emptied, [NsNext]_<<vars, nsVars>> PROVE Emptied'
<1>1. CASE UNCHANGED <<vars, nsVars>>
  BY <1>1 DEF Emptied, vars, runVars, connVars, nsVars, fetchVars
<1>2. CASE NsNext
  <2> SUFFICES ASSUME pc' \in {"wait", "fetch"}, exit' = "none", tubeFaults' = {},
                      NEW c \in Remote, c \in waited'
               PROVE  file'[HomeOf[c]] = <<>>
    BY DEF Emptied
  <2>1. HomeOf[c] \in Homes
    BY DEF Homes, Remote, Client
  <2>2. CASE UNCHANGED vars
    <3>1. pc \in {"wait", "fetch"} /\ exit = "none" /\ c \in waited
      BY <2>2 DEF vars, runVars, connVars
    <3> QED
      BY <1>2, <2>1, <3>1, FileFrame DEF Emptied
  <2>3. CASE Next
    <3>1. /\ exit = "none"
          /\ pc \in {"wait", "fetch"} \/ waited' = {}
          /\ waited' = waited \/ \E d \in Client : WaitOk(d)
      BY <2>3, WaitFrame
    <3>2. pc \in {"wait", "fetch"}
      BY <3>1
    <3>3. CASE c \in waited
      BY <1>2, <2>1, <3>1, <3>2, <3>3, FileFrame DEF Emptied
    <3>4. CASE c \notin waited
      <4>1. pc = "wait"
        BY <3>1, <3>4 DEF WaitOk, Waiting, Alive
      <4> QED
        BY <1>2, <3>1, <3>4, <4>1, WaitEmpties
    <3> QED
      BY <3>3, <3>4
  <2> QED
    BY <1>2, <2>2, <2>3, NsStepImplements
<1> QED
  BY <1>1, <1>2

\* `Emptied` holds in every state (src/gateway/ssh/ssh.go:484-492).
THEOREM EmptiedAlways == NsSpec => []Emptied
<1>1. NsInit => Emptied
  BY DEF NsInit, Init, Emptied
<1>2. RunInv /\ NsInv /\ Emptied /\ [NsNext]_<<vars, nsVars>> => Emptied'
  BY EmptiedStep
<1> QED
  BY <1>1, <1>2, NamespacesImplement, RunInductive, NsInductive, PTL DEF NsSpec

\* Whatever clients share a home and however their fetches interleave, when all
\* of a task have been waited for no line is left there for a later command, if
\* no step of a fetch failed (src/gateway/ssh/ssh.go:484-492).
THEOREM TubesEmptiedAlways == NsSpec => []TubesEmptied
<1>1. Emptied => TubesEmptied
  BY DEF Emptied, TubesEmptied
<1> QED
  BY <1>1, EmptiedAlways, PTL
----------------------------------------------------------------------------
(* what is registered for a tube is handed on *)

\* The tubes: no host has their name, so that no connection empties them.
Tubes == {k \in Key : k # BastionKey /\ \A e \in Entry : HostKey[e] # k}

\* A line a remote command registered for a tube.
ForTube(r) == r.dest \in Tubes /\ Writer(r.val) \in Remote

\* Lines are registered by the clients that were started with the current task,
\* or were so by those of tasks that are over.
RegisteredPlaced ==
    \A r \in registered : Past(r.val) \/ (Here(r.val) /\ Writer(r.val) \in launched)

\* Only clients still to be waited for are fetching.
FetchHeld ==
    \A c \in Client :
        /\ fetch[c] # "no" => pc = "wait" /\ c \in Remote /\ c \in Members \ waited
        /\ fetch[c] \in {"no", "read"} => got[c] = <<>>

\* No line of a task that is over is in the home of a remote client, or on its
\* way from there.
LinesHere(lines) == \A i \in 1 .. Len(lines) : Here(lines[i].val)
FilesHere == tubeFaults = {} => \A c \in Remote : LinesHere(file[HomeOf[c]]) /\ LinesHere(got[c])

\* The value x stands for the value y: it is y, or was registered by no earlier task.
Follows(x, y) == x # Unset /\ ~Before(TaskOf(x), TaskOf(y))
InStore(r) == Follows(store[r.dest][r.var], r.val)
Among(r, lines) == \E i \in 1 .. Len(lines) : lines[i] = r

\* What is registered for a tube is in the home until it is in the store.
TubeKept(r) ==
    /\ Among(r, file[HomeOf[Writer(r.val)]]) \/ InStore(r)
    /\ \A c \in Remote : Among(r, file[HomeOf[c]]) =>
          /\ fetch[c] = "set" => Among(r, got[c])
          /\ fetch[c] = "remove" => InStore(r)

TubesKept == tubeFaults = {} => \A r \in registered : ForTube(r) => TubeKept(r)

\* A started client has what was in the store of its tube.
TubeGiven(c) ==
    \A r \in registered : (ForTube(r) /\ r.dest = TubeOf[c] /\ Past(r.val)) =>
        Follows(env[c][r.var], r.val)

TubesGiven == tubeFaults = {} => \A c \in Started \cap Entry : TubeGiven(c)

TubeInv == RegisteredPlaced /\ FetchHeld /\ FilesHere /\ TubesKept /\ TubesGiven

----------------------------------------------------------------------------

LEMMA LineFacts ==
    ASSUME NsInv, NEW r \in registered
    PROVE  /\ r.dest \in Key \cup {OwnHost} /\ r.var \in Var
           /\ r.val \in Value /\ r.val # Unset /\ Writer(r.val) \in Client
           /\ r.val[1] \in Nat /\ r.val[2] \in Nat /\ r.val[3] \in Nat
<1>1. r \in Line
  BY DEF NsInv, NamespacesTypeOK
<1> QED
  BY <1>1 DEF Line, Value, Writer, Unset

\* What the current task registered follows on everything.
LEMMA HereFollows ==
    ASSUME RunInv, NEW x \in Value, NEW y \in Value, Here(x), Past(y) \/ Here(y)
    PROVE  Follows(x, y)
<1>1. play \in Nat /\ cmd \in Nat /\ task \in Nat
  BY DEF RunInv, RunTypeOK
<1>2. /\ x # Unset
      /\ y[1] \in Nat /\ y[2] \in Nat /\ y[3] \in Nat
      /\ x[1] = play /\ x[2] = cmd /\ x[3] = task
  BY DEF Value, Unset, Here
<1>3. ~Before(<<play, cmd, task>>, TaskOf(y))
  <2>1. CASE Past(y)
    BY <1>1, <1>2, <2>1 DEF Past, Before, TaskOf
  <2>2. CASE Here(y)
    BY <1>1, <1>2, <2>2 DEF Here, Before, TaskOf
  <2> QED
    BY <2>1, <2>2
<1> QED
  BY <1>2, <1>3 DEF Follows, TaskOf

\* Most steps touch neither files nor fetches nor the store.
Plain == UNCHANGED <<store, file, fetch, got, registered, tubeFaults>>

LEMMA NsKinds ==
    ASSUME [NsNext]_<<vars, nsVars>>
    PROVE  \/ Plain \/ Add
           \/ \E c \in Client : \/ Register(c) \/ StatMisses(c) \/ StatHits(c) \/ DownloadTube(c)
                              \/ SetFromEnvString(c) \/ RemoveTube(c)
<1> USE DEF Plain, nsVars, fetchVars
<1>1. CASE NsBeginPlay \/ NsNextCommand \/ NsLaunch
  BY <1>1 DEF NsBeginPlay, NsNextCommand, NsLaunch
<1>2. ASSUME NEW c \in Client, NsFinish(c) \/ NsWaitFails(c) \/ LocalWaitOk(c) PROVE Plain
  BY <1>2 DEF NsFinish, NsWaitFails, LocalWaitOk
<1> QED
  BY <1>1, <1>2 DEF NsNext, NsFetch

LEMMA FaultsStay == ASSUME [NsNext]_<<vars, nsVars>> PROVE tubeFaults \subseteq tubeFaults'
<1>1. CASE Plain \/ Add
  BY <1>1 DEF Plain, Add, fetchVars
<1>2. ASSUME NEW c \in Client, \/ Register(c) \/ StatMisses(c) \/ StatHits(c) \/ DownloadTube(c)
                               \/ SetFromEnvString(c) \/ RemoveTube(c)
      PROVE  tubeFaults \subseteq tubeFaults'
  BY <1>2 DEF Register, StatMisses, StatHits, DownloadTube, SetFromEnvString, RemoveTube, Failing
<1> QED
  BY <1>1, <1>2, NsKinds

\* A value of the current task is of the current task or of one that is over.
LEMMA ValuePasses ==
    ASSUME RunInv, [NsNext]_<<vars, nsVars>>, NEW x \in Value
    PROVE  /\ Past(x) => Past(x)'
           /\ Here(x) => Here(x)' \/ (FetchDone /\ Past(x)')
<1>1. x[1] \in Nat /\ x[2] \in Nat /\ x[3] \in Nat
  BY DEF Value
<1>2. CASE UNCHANGED vars
  BY <1>2 DEF vars, runVars, Past, Here, InTask, InPlay, InCommand
<1>3. CASE Next
  BY <1>1, <1>3, PlacePasses
<1> QED
  BY <1>2, <1>3, NsStepImplements

\* What a running command registers.
LEMMA RegisterFacts ==
    ASSUME RunInv, NsInv, NEW c \in Client, Register(c)
    PROVE  \E line \in Line :
             /\ Writer(line.val) = c /\ Here(line.val) /\ c \in launched
             /\ file' = [file EXCEPT ![HomeOf[c]] = Append(@, line)]
             /\ registered' = registered \cup {line}
             /\ pc \in {"launch", "io"}
             /\ UNCHANGED <<vars, store, env, fetch, got, tubeFaults>>
<1> DEFINE order == Lines[wrote[c] + 1]
           line == [dest |-> order.dest, var |-> order.var, val |-> <<play, cmd, task, c>>]
<1>1. pc \in {"launch", "io"} /\ c \in launched
  BY DEF Register, RunInv, NothingLeftBehind
<1>2. line \in Line /\ Writer(line.val) = c /\ Here(line.val)
  <2>1. Cmd \in Command /\ tasks[task] \in Task
    BY <1>1, CmdFacts, TaskFacts DEF RunInv, PlaceOK, InTask
  <2>2. Lines \in Seq(Order)
    BY <2>1, NamespacesAssumption DEF Lines, Command, Task, Kind
  <2>3. wrote[c] + 1 \in 1 .. Len(Lines)
    BY <2>2 DEF Register, NsInv, NamespacesTypeOK
  <2>4. order \in Order
    BY <2>2, <2>3
  <2>5. <<play, cmd, task, c>> \in Value
    BY DEF Value, RunInv, RunTypeOK
  <2>6. line \in Line /\ Writer(line.val) = c
    BY <2>4, <2>5 DEF Line, Order, Writer
  <2>7. Here(line.val)
    BY <1>1 DEF Here, InTask
  <2> QED
    BY <2>6, <2>7
<1>3. /\ file' = [file EXCEPT ![HomeOf[c]] = Append(@, line)]
      /\ registered' = registered \cup {line}
      /\ UNCHANGED <<vars, store, env, fetch, got, tubeFaults>>
  BY DEF Register
<1> HIDE DEF line
<1> QED
  BY <1>1, <1>2, <1>3

LEMMA RegisteredPlacedStep ==
    ASSUME RunInv, NsInv, RegisteredPlaced, [NsNext]_<<vars, nsVars>>
    PROVE  RegisteredPlaced'
<1>1. \A r \in registered : Past(r.val)' \/ (Here(r.val)' /\ Writer(r.val) \in launched')
  <2>1. TAKE r \in registered
  <2>2. r.val \in Value
    BY LineFacts
  <2>3. CASE Past(r.val)
    BY <2>2, <2>3, ValuePasses
  <2>4. CASE Here(r.val) /\ Writer(r.val) \in launched
    <3>1. CASE Past(r.val)'
      BY <3>1
    <3>2. CASE Here(r.val)'
      <4>1. CASE UNCHANGED vars
        BY <2>4, <3>2, <4>1 DEF vars, runVars
      <4>2. CASE Next
        <5>1. InTask /\ InTask'
          BY <2>4, <3>2 DEF Here
        <5>2. ~BeginTask
          BY <5>1 DEF BeginTask, Alive, InTask
        <5> QED
          BY <2>4, <3>2, <4>2, <5>1, <5>2, TaskFrame
      <4> QED
        BY <4>1, <4>2, NsStepImplements
    <3> QED
      BY <2>2, <2>4, <3>1, <3>2, ValuePasses
  <2> QED
    BY <2>3, <2>4 DEF RegisteredPlaced
<1>2. CASE registered' = registered
  BY <1>1, <1>2 DEF RegisteredPlaced, Writer
<1>3. ASSUME NEW c \in Client, Register(c) PROVE RegisteredPlaced'
  <2>1. PICK line : /\ Writer(line.val) = c /\ Here(line.val) /\ c \in launched
                    /\ registered' = registered \cup {line} /\ UNCHANGED vars
    BY <1>3, RegisterFacts
  <2>2. Here(line.val)' /\ c \in launched'
    BY <2>1 DEF Here, InTask, vars, runVars
  <2> QED
    BY <1>1, <2>1, <2>2 DEF RegisteredPlaced, Writer
<1>4. ASSUME NEW c \in Client, \/ StatMisses(c) \/ StatHits(c) \/ DownloadTube(c)
                               \/ SetFromEnvString(c) \/ RemoveTube(c)
      PROVE  registered' = registered
  BY <1>4 DEF StatMisses, StatHits, DownloadTube, SetFromEnvString, RemoveTube
<1> QED
  BY <1>2, <1>3, <1>4, NsKinds DEF Plain, Add, fetchVars

\* The wait for the clients of a task ends when none is left.
LEMMA WaitPlace ==
    ASSUME [Next]_vars, pc = "wait"
    PROVE  UNCHANGED tasks /\ UNCHANGED task /\ (pc' = "wait" \/ (pc' = "fetch" /\ Members \subseteq waited))
<1> USE DEF Alive, InTask, inputs, place, sessions, AtClient, AtFetch
<1>1. CASE UNCHANGED vars
  BY <1>1 DEF vars, runVars
<1>2. CASE \/ BeginPlay \/ ConnectRefused \/ ConnectAccepted \/ NextCommand \/ CommandsDone
           \/ TasksDone \/ PlayDone \/ CloseClient \/ BeginTask \/ FetchDone
           \/ SkipCancelled \/ UploadFails \/ DistFails \/ Launch \/ LaunchDone
           \/ OutputDone \/ FetchSkipped \/ FetchOk \/ FetchFails
  BY <1>2 DEF BeginPlay, ConnectRefused, ConnectAccepted, NextCommand, CommandsDone,
     TasksDone, PlayDone, CloseClient, BeginTask, FetchDone, SkipCancelled, UploadFails, DistFails,
     Launch, LaunchDone, OutputDone, FetchSkipped, FetchOk, FetchFails
<1>3. CASE \/ PlayRefused \/ NoCommands \/ AllPlaysDone \/ CreateTasksPanics \/ CreateTasksFails
           \/ NoClients \/ RunRejected \/ RunFails \/ BuildFails \/ CloseFails
  BY <1>3 DEF PlayRefused, NoCommands, AllPlaysDone, CreateTasksPanics, CreateTasksFails,
     NoClients, RunRejected, RunFails, BuildFails, CloseFails, runVars
<1>4. CASE WaitDone
  BY <1>4 DEF WaitDone, Members
<1>5. CASE Connecting
  BY <1>5 DEF Connecting, runVars
<1>6. CASE \E c \in Client : Finish(c) \/ WaitReturns(c)
  BY <1>6 DEF Finish, WaitReturns, WaitStopped, WaitFailed, TubeFails, WaitOk, runVars
<1>7. CASE Terminated
  BY <1>7 DEF Terminated, vars, runVars
<1> QED
  BY <1>1, <1>2, <1>3, <1>4, <1>5, <1>6, <1>7 DEF Next, MainStep, OtherMainStep

\* A step of a fetch that touches neither the store nor the home.
LEMMA FetchMoves ==
    ASSUME NsInv, FetchHeld, [NsNext]_<<vars, nsVars>>, NEW c \in Client
    PROVE  /\ fetch'[c] # "no" => (fetch[c] # "no" /\ ~RemoveTube(c)) \/ StatHits(c)
           /\ fetch'[c] \in {"no", "read"} => got'[c] = <<>>
<1> USE DEF NsInv, NamespacesTypeOK
<1>1. fetch[c] \in {"no", "read"} => got[c] = <<>>
  BY DEF FetchHeld
<1>2. CASE Plain \/ Add
  BY <1>1, <1>2 DEF Plain, Add, fetchVars, RemoveTube
<1>3. ASSUME NEW d \in Client, Register(d) \/ StatMisses(d) \/ SetFromEnvString(d)
      PROVE  /\ fetch'[c] # "no" => (fetch[c] # "no" /\ ~RemoveTube(c)) \/ StatHits(c)
             /\ fetch'[c] \in {"no", "read"} => got'[c] = <<>>
  BY <1>1, <1>3 DEF Register, StatMisses, SetFromEnvString, RemoveTube, Fetching
<1>4. ASSUME NEW d \in Client, StatHits(d) \/ DownloadTube(d) \/ RemoveTube(d)
      PROVE  /\ fetch'[c] # "no" => (fetch[c] # "no" /\ ~RemoveTube(c)) \/ StatHits(c)
             /\ fetch'[c] \in {"no", "read"} => got'[c] = <<>>
  <2>1. CASE d = c
    BY <1>1, <1>4, <2>1 DEF StatHits, DownloadTube, RemoveTube, Fetching
  <2>2. CASE d # c
    BY <1>1, <1>4, <2>2 DEF StatHits, DownloadTube, RemoveTube, Fetching
  <2> QED
    BY <2>1, <2>2
<1> QED
  BY <1>2, <1>3, <1>4, NsKinds

LEMMA FetchHeldStep ==
    ASSUME RunInv, NsInv, FetchHeld, [NsNext]_<<vars, nsVars>>
    PROVE  FetchHeld'
<1> SUFFICES ASSUME NEW c \in Client, fetch'[c] # "no"
             PROVE  pc' = "wait" /\ c \in Remote /\ c \in Members' \ waited'
  BY FetchMoves DEF FetchHeld
<1>1. CASE StatHits(c)
  <2>1. pc = "wait" /\ c \in Remote /\ c \in Members \ waited /\ UNCHANGED vars
    BY <1>1 DEF StatHits, Fetching, Waiting, Alive, Members
  <2>2. UNCHANGED <<pc, tasks, task, waited>>
    BY <2>1 DEF vars, runVars
  <2> QED
    BY <2>1, <2>2 DEF Members, CS
<1>2. CASE fetch[c] # "no" /\ ~RemoveTube(c)
  <2>1. pc = "wait" /\ c \in Remote /\ c \in Members \ waited
    BY <1>2 DEF FetchHeld
  <2>2. [Next]_vars
    BY NsStepImplements
  <2>3. pc' = "wait" /\ UNCHANGED tasks /\ UNCHANGED task
    BY <2>1, <2>2, WaitPlace
  <2>4. c \notin waited'
    <3>1. ~StatMisses(c)
      BY <1>2 DEF StatMisses, Fetching
    <3>2. NsNext => c \notin waited'
      BY <1>2, <2>1, <3>1, WaitedBy
    <3>3. UNCHANGED <<vars, nsVars>> => waited' = waited
      BY DEF vars, runVars
    <3> QED
      BY <2>1, <3>2, <3>3
  <2> QED
    BY <2>1, <2>3, <2>4 DEF Members, CS
<1> QED
  BY <1>1, <1>2, FetchMoves

LEMMA LinesOf ==
    ASSUME NsInv, NEW c \in Remote
    PROVE  /\ c \in Client /\ HomeOf[c] \in Homes
           /\ file[HomeOf[c]] \in Seq(Line) /\ got[c] \in Seq(Line)
           /\ \A i \in 1 .. Len(file[HomeOf[c]]) :
                LET x == file[HomeOf[c]][i] IN
                x \in registered /\ Writer(x.val) \in Remote /\ HomeOf[Writer(x.val)] = HomeOf[c]
           /\ \A i \in 1 .. Len(got[c]) : got[c][i] \in registered
<1>1. c \in Client /\ HomeOf[c] \in Homes
  BY DEF Remote, Client, Homes
<1>2. file[HomeOf[c]] \in Seq(Line) /\ got[c] \in Seq(Line)
  BY <1>1 DEF NsInv, NamespacesTypeOK
<1>3. \A i \in 1 .. Len(got[c]) : got[c][i] \in registered
  BY <1>1 DEF NsInv, LinesKept, From
<1>4. ASSUME NEW i \in 1 .. Len(file[HomeOf[c]]), NEW x, x = file[HomeOf[c]][i]
      PROVE  x \in registered /\ Writer(x.val) \in Remote /\ HomeOf[Writer(x.val)] = HomeOf[c]
  <2>1. x \in registered /\ HomeOf[Writer(x.val)] = HomeOf[c]
    BY <1>1, <1>4 DEF NsInv, LinesKept, From
  <2>2. Writer(x.val) \in Client
    BY <2>1, LineFacts
  <2> QED
    BY <2>1, <2>2, SharedHome
<1> QED
  BY <1>1, <1>2, <1>3, <1>4

\* At the end of a task the homes of its clients are empty, and those of all
\* other remote clients were.
LEMMA EmptyAtFetch ==
    ASSUME RunInv, NsInv, Emptied, RegisteredPlaced, FetchHeld, FilesHere,
           pc = "fetch", exit = "none", tubeFaults = {}, NEW c \in Remote
    PROVE  1 .. Len(file[HomeOf[c]]) = {} /\ got[c] = <<>>
<1>1. got[c] = <<>>
  BY LinesOf DEF FetchHeld
<1>2. ASSUME NEW i \in 1 .. Len(file[HomeOf[c]]) PROVE FALSE
  <2>1. PICK x : x = file[HomeOf[c]][i]
    OBVIOUS
  <2>2. x \in registered /\ Writer(x.val) \in Remote /\ HomeOf[Writer(x.val)] = HomeOf[c]
    BY <1>2, <2>1, LinesOf
  <2>3. x.val \in Value /\ Here(x.val)
    BY <1>2, <2>1, <2>2, LineFacts DEF FilesHere, LinesHere
  <2>4. x.val[1] \in Nat /\ x.val[2] \in Nat /\ x.val[3] \in Nat
        /\ play \in Nat /\ cmd \in Nat /\ task \in Nat
    BY <2>3 DEF Value, RunInv, RunTypeOK
  <2>5. ~Past(x.val)
    BY <2>3, <2>4 DEF Past, Here
  <2>6. Writer(x.val) \in launched
    BY <2>2, <2>5 DEF RegisteredPlaced
  <2>7. Writer(x.val) \in waited
    BY <2>6 DEF RunInv, ClientsOK, InTask
  <2>8. file[HomeOf[Writer(x.val)]] = <<>>
    BY <2>2, <2>7 DEF Emptied
  <2>9. Len(<<>>) = 0
    OBVIOUS
  <2> QED
    BY <1>2, <2>2, <2>8, <2>9
<1> QED
  BY <1>1, <1>2

LEMMA FilesHereStep ==
    ASSUME RunInv, NsInv, Emptied, RegisteredPlaced, FetchHeld, FilesHere, [NsNext]_<<vars, nsVars>>
    PROVE  FilesHere'
<1> SUFFICES ASSUME tubeFaults' = {}, NEW c \in Remote
             PROVE  LinesHere(file[HomeOf[c]])' /\ LinesHere(got[c])'
  BY DEF FilesHere
<1>1. tubeFaults = {}
  BY FaultsStay
<1>2. /\ c \in Client /\ HomeOf[c] \in Homes
      /\ file[HomeOf[c]] \in Seq(Line) /\ got[c] \in Seq(Line)
  BY LinesOf
<1>3. LinesHere(file[HomeOf[c]]) /\ LinesHere(got[c])
  BY <1>1 DEF FilesHere
<1>4. ASSUME ~FetchDone, NEW lines \in Seq(Line), LinesHere(lines)
      PROVE  \A i \in 1 .. Len(lines) : Here(lines[i].val)'
  <2>1. TAKE i \in 1 .. Len(lines)
  <2>2. lines[i] \in Line
    BY <1>4
  <2>3. lines[i].val \in Value /\ Here(lines[i].val)
    BY <1>4, <2>2 DEF LinesHere, Line
  <2> QED
    BY <1>4, <2>3, ValuePasses
<1>5. CASE /\ file'[HomeOf[c]] = file[HomeOf[c]] /\ got'[c] = got[c]
  <2>1. CASE ~FetchDone
    BY <1>2, <1>3, <1>4, <1>5, <2>1 DEF LinesHere
  <2>2. CASE FetchDone
    <3>1. 1 .. Len(file[HomeOf[c]]) = {} /\ got[c] = <<>>
      BY <1>1, <2>2, EmptyAtFetch DEF FetchDone, Alive
    <3>2. Len(<<>>) = 0
      OBVIOUS
    <3> QED
      BY <1>5, <3>1, <3>2 DEF LinesHere
  <2> QED
    BY <2>1, <2>2
<1>6. ASSUME NEW d \in Client, Register(d) PROVE LinesHere(file[HomeOf[c]])' /\ LinesHere(got[c])'
  <2>1. PICK line \in Line :
             /\ Here(line.val)
             /\ file' = [file EXCEPT ![HomeOf[d]] = Append(@, line)]
             /\ UNCHANGED got /\ UNCHANGED vars
    BY <1>6, RegisterFacts
  <2>2. \A x : Here(x)' = Here(x)
    BY <2>1 DEF Here, InTask, vars, runVars
  <2>3. CASE HomeOf[c] # HomeOf[d]
    <3>1. file'[HomeOf[c]] = file[HomeOf[c]]
      BY <1>2, <2>1, <2>3 DEF NsInv, NamespacesTypeOK
    <3> QED
      BY <2>1, <3>1, <1>5
  <2>4. CASE HomeOf[c] = HomeOf[d]
    <3>1. file'[HomeOf[c]] = Append(file[HomeOf[c]], line)
      BY <1>2, <2>1, <2>4 DEF NsInv, NamespacesTypeOK
    <3>2. ASSUME NEW i \in 1 .. Len(Append(file[HomeOf[c]], line))
          PROVE  Here(Append(file[HomeOf[c]], line)[i].val)
      <4>1. CASE i \in 1 .. Len(file[HomeOf[c]])
        <5>1. Append(file[HomeOf[c]], line)[i] = file[HomeOf[c]][i]
          BY <1>2, <4>1
        <5> QED
          BY <1>3, <4>1, <5>1 DEF LinesHere
      <4>2. CASE i \notin 1 .. Len(file[HomeOf[c]])
        <5>1. Append(file[HomeOf[c]], line)[i] = line
          BY <1>2, <3>2, <4>2
        <5> QED
          BY <2>1, <5>1
      <4> QED
        BY <4>1, <4>2
    <3>3. LinesHere(file[HomeOf[c]])'
      BY <2>2, <3>1, <3>2 DEF LinesHere
    <3> QED
      BY <1>3, <2>1, <2>2, <3>3 DEF LinesHere
  <2> QED
    BY <2>3, <2>4
<1>7. ASSUME NEW d \in Client, DownloadTube(d) PROVE LinesHere(file[HomeOf[c]])' /\ LinesHere(got[c])'
  <2>1. /\ got' = [got EXCEPT ![d] = file[HomeOf[d]]]
        /\ UNCHANGED file /\ UNCHANGED vars
    BY <1>7 DEF DownloadTube, Failing
  <2>2. \A x : Here(x)' = Here(x)
    BY <2>1 DEF Here, InTask, vars, runVars
  <2>3. got'[c] = got[c] \/ (d = c /\ got'[c] = file[HomeOf[c]])
    BY <1>2, <2>1 DEF NsInv, NamespacesTypeOK
  <2> QED
    BY <1>3, <2>1, <2>2, <2>3 DEF LinesHere
<1>8. ASSUME NEW d \in Client, RemoveTube(d) PROVE LinesHere(file[HomeOf[c]])' /\ LinesHere(got[c])'
  <2>1. /\ file' = [file EXCEPT ![HomeOf[d]] = <<>>]
        /\ got' = [got EXCEPT ![d] = <<>>]
        /\ pc = "wait"
    BY <1>8 DEF RemoveTube, Failing, Fetching, Waiting, Alive
  <2>2. /\ file'[HomeOf[c]] \in {file[HomeOf[c]], <<>>}
        /\ got'[c] \in {got[c], <<>>}
    BY <1>2, <2>1 DEF NsInv, NamespacesTypeOK
  <2>3. ~FetchDone
    BY <2>1 DEF FetchDone, Alive
  <2>4. Len(<<>>) = 0
    OBVIOUS
  <2>5. PICK f : f = file[HomeOf[c]]
    OBVIOUS
  <2>6. PICK g : g = got[c]
    OBVIOUS
  <2>7. \A i \in 1 .. Len(f) : Here(f[i].val)'
    BY <1>2, <1>3, <1>4, <2>3, <2>5
  <2>8. \A i \in 1 .. Len(g) : Here(g[i].val)'
    BY <1>2, <1>3, <1>4, <2>3, <2>6
  <2>9. LinesHere(file[HomeOf[c]])'
    BY <2>2, <2>4, <2>5, <2>7 DEF LinesHere
  <2>10. LinesHere(got[c])'
    BY <2>2, <2>4, <2>6, <2>8 DEF LinesHere
  <2> QED
    BY <2>9, <2>10
<1>9. CASE Plain \/ Add
  BY <1>5, <1>9 DEF Plain, Add, fetchVars
<1>10. ASSUME NEW d \in Client, StatMisses(d) \/ StatHits(d) \/ SetFromEnvString(d)
       PROVE  file'[HomeOf[c]] = file[HomeOf[c]] /\ got'[c] = got[c]
  BY <1>10 DEF StatMisses, StatHits, SetFromEnvString
<1> QED
  BY <1>5, <1>6, <1>7, <1>8, <1>9, <1>10, NsKinds

\* The store takes the lines of a fetch over, all those for tubes.
LEMMA SetFollows ==
    ASSUME RunInv, NsInv, RegisteredPlaced, FilesHere, tubeFaults = {},
           NEW d \in Client, SetFromEnvString(d),
           NEW r \in registered, ForTube(r)
    PROVE  InStore(r) \/ Among(r, got[d]) => InStore(r)'
<1> DEFINE k == r.dest
           v == r.var
           last == CHOOSE i \in LinesFor(d, k, v) : \A j \in LinesFor(d, k, v) : j <= i
<1>1. d \in Remote /\ k \in Key /\ v \in Var /\ r.val \in Value
  BY LineFacts DEF SetFromEnvString, Fetching, ForTube, Tubes
<1>2. store'[k][v] = IF LinesFor(d, k, v) = {} THEN store[k][v] ELSE got[d][last].val
  BY <1>1 DEF SetFromEnvString
<1>3. Len(got[d]) \in Nat /\ LinesFor(d, k, v) \in SUBSET (1 .. Len(got[d]))
  BY <1>1, LinesOf DEF LinesFor
<1>4. LinesFor(d, k, v) # {} => last \in LinesFor(d, k, v)
  <2>1. LinesFor(d, k, v) # {} =>
            \E i \in LinesFor(d, k, v) : \A j \in LinesFor(d, k, v) : j <= i
    BY <1>3, LastOne
  <2> QED
    BY <2>1
<1>5. LinesFor(d, k, v) # {} => Follows(got[d][last].val, r.val)
  <2> SUFFICES ASSUME LinesFor(d, k, v) # {} PROVE Follows(got[d][last].val, r.val)
    OBVIOUS
  <2>1. last \in 1 .. Len(got[d])
    BY <1>3, <1>4
  <2>2. got[d][last] \in registered /\ Here(got[d][last].val)
    BY <1>1, <2>1, LinesOf DEF FilesHere, LinesHere
  <2>3. got[d][last].val \in Value
    BY <2>2, LineFacts
  <2>4. Past(r.val) \/ Here(r.val)
    BY DEF RegisteredPlaced
  <2> HIDE DEF last
  <2> QED
    BY <1>1, <2>2, <2>3, <2>4, HereFollows
<1>6. Among(r, got[d]) => LinesFor(d, k, v) # {}
  BY DEF Among, LinesFor
<1>7. CASE LinesFor(d, k, v) = {}
  BY <1>2, <1>6, <1>7 DEF InStore, Follows
<1>8. CASE LinesFor(d, k, v) # {}
  BY <1>2, <1>5, <1>8 DEF InStore, Follows
<1> QED
  BY <1>7, <1>8

LEMMA TubesKeptStep ==
    ASSUME RunInv, NsInv, RegisteredPlaced, FetchHeld, FilesHere, TubesKept,
           [NsNext]_<<vars, nsVars>>
    PROVE  TubesKept'
<1> SUFFICES ASSUME tubeFaults' = {} PROVE \A r \in registered' : ForTube(r) => TubeKept(r)'
  BY DEF TubesKept, ForTube, Writer
<1>1. tubeFaults = {}
  BY FaultsStay
<1>2. \A r \in registered : ForTube(r) => TubeKept(r)
  BY <1>1 DEF TubesKept
<1>3. ASSUME UNCHANGED <<file, fetch, got, registered>>,
             \A k \in Tubes : store'[k] = store[k]
      PROVE  \A r \in registered' : ForTube(r) => TubeKept(r)'
  <2>1. TAKE r \in registered'
  <2>2. HAVE ForTube(r)
  <2>3. r \in registered /\ TubeKept(r) /\ store'[r.dest] = store[r.dest]
    BY <1>2, <1>3, <2>2 DEF ForTube
  <2> QED
    BY <1>3, <2>3 DEF TubeKept, InStore, Among, Follows, Before, TaskOf, Writer
<1>4. CASE Plain
  BY <1>3, <1>4 DEF Plain
<1>5. CASE Add
  <2>1. \A k \in Tubes : ~Renewed(k)
    BY DEF Tubes, Renewed, Remote
  <2>2. \A k \in Tubes : store'[k] = store[k]
    BY <1>5, <2>1 DEF Add, Tubes
  <2> QED
    BY <1>3, <1>5, <2>2 DEF Add, fetchVars
<1>6. ASSUME NEW d \in Client, StatMisses(d)
      PROVE  \A r \in registered' : ForTube(r) => TubeKept(r)'
  BY <1>3, <1>6 DEF StatMisses
<1>7. ASSUME NEW d \in Client, Register(d)
      PROVE  \A r \in registered' : ForTube(r) => TubeKept(r)'
  <2>1. PICK line \in Line :
             /\ Writer(line.val) = d
             /\ file' = [file EXCEPT ![HomeOf[d]] = Append(@, line)]
             /\ registered' = registered \cup {line}
             /\ pc \in {"launch", "io"}
             /\ UNCHANGED <<store, fetch, got>>
    BY <1>7, RegisterFacts
  <2>2. \A c \in Client : fetch[c] = "no"
    BY <2>1 DEF FetchHeld, NsInv, NamespacesTypeOK
  <2>3. HomeOf[d] \in Homes /\ file[HomeOf[d]] \in Seq(Line)
    BY DEF Homes, NsInv, NamespacesTypeOK
  <2>4. /\ file'[HomeOf[d]] = Append(file[HomeOf[d]], line)
        /\ \A h \in Homes \ {HomeOf[d]} : file'[h] = file[h]
    BY <2>1, <2>3 DEF NsInv, NamespacesTypeOK
  <2>5. /\ Len(Append(file[HomeOf[d]], line)) = Len(file[HomeOf[d]]) + 1
        /\ Len(file[HomeOf[d]]) \in Nat
        /\ Append(file[HomeOf[d]], line)[Len(file[HomeOf[d]]) + 1] = line
        /\ \A i \in 1 .. Len(file[HomeOf[d]]) :
              Append(file[HomeOf[d]], line)[i] = file[HomeOf[d]][i]
    BY <2>3
  <2>6. TAKE r \in registered'
  <2>7. HAVE ForTube(r)
  <2>8. Writer(r.val) \in Client /\ HomeOf[Writer(r.val)] \in Homes
    BY <2>7 DEF ForTube, Remote, Client, Homes
  <2>9. Among(r, file'[HomeOf[Writer(r.val)]]) \/ InStore(r)
    <3>1. CASE r = line
      <4>1. Len(file[HomeOf[d]]) + 1 \in 1 .. Len(Append(file[HomeOf[d]], line))
        BY <2>5
      <4> QED
        BY <2>1, <2>4, <2>5, <3>1, <4>1 DEF Among
    <3>2. CASE r \in registered /\ ~InStore(r)
      <4>1. Among(r, file[HomeOf[Writer(r.val)]])
        BY <1>2, <2>7, <3>2 DEF TubeKept
      <4>2. CASE HomeOf[Writer(r.val)] # HomeOf[d]
        BY <2>4, <2>8, <4>1, <4>2
      <4>3. CASE HomeOf[Writer(r.val)] = HomeOf[d]
        <5>1. PICK i \in 1 .. Len(file[HomeOf[d]]) : file[HomeOf[d]][i] = r
          BY <4>1, <4>3 DEF Among
        <5>2. i \in 1 .. Len(Append(file[HomeOf[d]], line))
          BY <2>5
        <5> QED
          BY <2>4, <2>5, <4>3, <5>1, <5>2 DEF Among
      <4> QED
        BY <4>2, <4>3
    <3> QED
      BY <2>1, <3>1, <3>2
  <2>10. \A c \in Remote : fetch'[c] = "no"
    BY <2>1, <2>2 DEF Remote, Client
  <2>11. InStore(r)' = InStore(r)
    BY <2>1 DEF InStore, Follows, Before, TaskOf
  <2> QED
    BY <2>9, <2>10, <2>11 DEF TubeKept, Among, Writer
<1>8. ASSUME NEW d \in Client, StatHits(d) \/ DownloadTube(d)
      PROVE  \A r \in registered' : ForTube(r) => TubeKept(r)'
  <2>1. TAKE r \in registered'
  <2>2. HAVE ForTube(r)
  <2>3. UNCHANGED <<store, file>> /\ r \in registered /\ TubeKept(r)
    BY <1>2, <1>8, <2>2 DEF StatHits, DownloadTube
  <2>4. InStore(r)' = InStore(r)
    BY <2>3 DEF InStore, Follows, Before, TaskOf
  <2>5. ASSUME NEW c \in Remote
        PROVE  \/ fetch'[c] = fetch[c] /\ got'[c] = got[c]
               \/ fetch'[c] = "read"
               \/ fetch'[c] = "set" /\ got'[c] = file[HomeOf[c]]
    <3>1. c \in Client
      BY DEF Remote, Client
    <3>2. CASE StatHits(d)
      BY <3>1, <3>2 DEF StatHits, NsInv, NamespacesTypeOK
    <3>3. CASE DownloadTube(d)
      <4>1. got' = [got EXCEPT ![d] = file[HomeOf[d]]] /\ fetch' = [fetch EXCEPT ![d] = "set"]
        BY <3>3 DEF DownloadTube, Failing
      <4> QED
        BY <3>1, <4>1 DEF NsInv, NamespacesTypeOK
    <3> QED
      BY <1>8, <3>2, <3>3
  <2> QED
    BY <2>3, <2>4, <2>5 DEF TubeKept, Among, Writer
<1>9. ASSUME NEW d \in Client, SetFromEnvString(d)
      PROVE  \A r \in registered' : ForTube(r) => TubeKept(r)'
  <2>1. TAKE r \in registered'
  <2>2. HAVE ForTube(r)
  <2>3. UNCHANGED <<file, got>> /\ r \in registered /\ TubeKept(r) /\ fetch[d] = "set" /\ d \in Remote
        /\ fetch' = [fetch EXCEPT ![d] = "remove"]
    BY <1>2, <1>9, <2>2 DEF SetFromEnvString, Fetching
  <2>4. InStore(r) \/ Among(r, got[d]) => InStore(r)'
    BY <1>1, <1>9, <2>2, <2>3, SetFollows
  <2>5. \A c \in Remote : c # d => fetch'[c] = fetch[c]
    BY <2>3 DEF Remote, Client, NsInv, NamespacesTypeOK
  <2> QED
    BY <2>3, <2>4, <2>5 DEF TubeKept, Among, Writer
<1>10. ASSUME NEW d \in Client, RemoveTube(d)
       PROVE  \A r \in registered' : ForTube(r) => TubeKept(r)'
  <2>1. TAKE r \in registered'
  <2>2. HAVE ForTube(r)
  <2>3. /\ UNCHANGED store /\ r \in registered /\ TubeKept(r) /\ fetch[d] = "remove" /\ d \in Remote
        /\ file' = [file EXCEPT ![HomeOf[d]] = <<>>]
        /\ fetch' = [fetch EXCEPT ![d] = "no"] /\ got' = [got EXCEPT ![d] = <<>>]
    BY <1>2, <1>10, <2>2 DEF RemoveTube, Failing, Fetching
  <2>4. InStore(r)' = InStore(r)
    BY <2>3 DEF InStore, Follows, Before, TaskOf
  <2>5. \A c \in Remote : /\ c \in Client /\ HomeOf[c] \in Homes
                          /\ file'[HomeOf[c]] = IF HomeOf[c] = HomeOf[d] THEN <<>> ELSE file[HomeOf[c]]
    BY <2>3 DEF Remote, Client, Homes, NsInv, NamespacesTypeOK
  <2>6. \A c \in Remote : c # d => fetch'[c] = fetch[c] /\ got'[c] = got[c]
    BY <2>3, <2>5 DEF NsInv, NamespacesTypeOK
  <2>7. ~Among(r, <<>>)
    <3>1. Len(<<>>) = 0
      OBVIOUS
    <3> QED
      BY <3>1 DEF Among
  <2>8. Among(r, file'[HomeOf[Writer(r.val)]]) \/ InStore(r)
    <3>1. CASE HomeOf[Writer(r.val)] = HomeOf[d]
      BY <2>3, <3>1 DEF TubeKept
    <3>2. CASE HomeOf[Writer(r.val)] # HomeOf[d]
      BY <2>2, <2>3, <2>5, <3>2 DEF TubeKept, ForTube
    <3> QED
      BY <3>1, <3>2
  <2>9. \A c \in Remote : Among(r, file'[HomeOf[c]]) =>
            c # d /\ Among(r, file[HomeOf[c]])
    BY <2>5, <2>7
  <2> QED
    BY <2>3, <2>4, <2>6, <2>8, <2>9 DEF TubeKept, Among, Writer
<1> QED
  BY <1>4, <1>5, <1>6, <1>7, <1>8, <1>9, <1>10, NsKinds

\* A client is given what the store holds for its tube.
LEMMA LaunchGives ==
    ASSUME RunInv, NsInv, RegisteredPlaced, FilesHere, TubesKept, tubeFaults = {},
           NsLaunch, NEW c \in Entry, c = CS[cur]
    PROVE  TubeGiven(c)'
<1>1. /\ UNCHANGED <<registered, store>> /\ UNCHANGED place /\ InTask /\ InTask'
      /\ env' = [env EXCEPT ![c] = InjectNamespacesAndEnvs(c)]
  BY DEF NsLaunch, Launch, AtClient, Alive, InTask
<1>2. c \in Client
  BY DEF Client
<1>3. env'[c] = InjectNamespacesAndEnvs(c)
  BY <1>1, <1>2 DEF NsInv, NamespacesTypeOK
<1> SUFFICES ASSUME NEW r \in registered, ForTube(r), r.dest = TubeOf[c], Past(r.val)
             PROVE  Follows(env'[c][r.var], r.val)
  BY <1>1 DEF TubeGiven, Past, InPlay, InCommand, InTask, ForTube, Writer, place,
     Follows, Before, TaskOf
<1>4. r.var \in Var /\ r.val \in Value /\ Writer(r.val) \in Remote /\ TubeOf[c] # NoTube
  BY LineFacts, NamespacesAssumption DEF ForTube, Tubes
<1>5. InStore(r)
  <2> SUFFICES ASSUME Among(r, file[HomeOf[Writer(r.val)]]) PROVE FALSE
    BY DEF TubesKept, TubeKept
  <2>1. Here(r.val)
    BY <1>4 DEF Among, FilesHere, LinesHere
  <2>2. play \in Nat /\ cmd \in Nat /\ task \in Nat
    BY DEF RunInv, RunTypeOK
  <2> QED
    BY <1>4, <2>1, <2>2 DEF Past, Here
<1>6. env'[c][r.var] = store[r.dest][r.var]
  BY <1>3, <1>4, <1>5 DEF InjectNamespacesAndEnvs, InStore, Follows
<1> QED
  BY <1>5, <1>6 DEF InStore

\* No line is registered for the past.
LEMMA GivenStays ==
    ASSUME RunInv, NsInv, [NsNext]_<<vars, nsVars>>,
           NEW c \in Entry, c \in Started, c \in Started', TubeGiven(c), env'[c] = env[c]
    PROVE  TubeGiven(c)'
<1>1. InTask /\ InTask'
  BY DEF Started, InTask
<1>2. UNCHANGED place
  <2>1. CASE UNCHANGED vars
    BY <2>1 DEF vars, runVars, place
  <2>2. CASE Next
    <3>1. ~BeginTask
      BY <1>1 DEF BeginTask, Alive, InTask
    <3> QED
      BY <1>1, <2>2, <3>1, TaskFrame DEF place
  <2> QED
    BY <2>1, <2>2, NsStepImplements
<1>3. \A x : Past(x)' = Past(x)
  BY <1>1, <1>2 DEF Past, InPlay, InCommand, InTask, place
<1>4. \A r \in registered' : r \in registered \/ ~Past(r.val)
  <2>1. CASE registered' = registered
    BY <2>1
  <2>2. ASSUME NEW d \in Client, Register(d) PROVE \A r \in registered' : r \in registered \/ ~Past(r.val)
    <3>1. PICK line \in Line : Here(line.val) /\ registered' = registered \cup {line}
      BY <2>2, RegisterFacts
    <3>2. play \in Nat /\ cmd \in Nat /\ task \in Nat
      BY DEF RunInv, RunTypeOK
    <3>3. ~Past(line.val)
      BY <3>1, <3>2 DEF Past, Here
    <3> QED
      BY <3>1, <3>3
  <2>3. ASSUME NEW d \in Client, \/ StatMisses(d) \/ StatHits(d) \/ DownloadTube(d)
                                 \/ SetFromEnvString(d) \/ RemoveTube(d)
        PROVE  registered' = registered
    BY <2>3 DEF StatMisses, StatHits, DownloadTube, SetFromEnvString, RemoveTube
  <2> QED
    BY <2>1, <2>2, <2>3, NsKinds DEF Plain, Add, fetchVars
<1> QED
  BY <1>3, <1>4 DEF TubeGiven, ForTube, Follows, Before, TaskOf, Writer

\* Only the launch of a client, a new play and a new command touch an
\* environment, and only the launch adds to the clients of a task.
LEMMA EnvFrame ==
    ASSUME [NsNext]_<<vars, nsVars>>
    PROVE  NsLaunch \/ (Started' \subseteq Started /\ (Started' = {} \/ UNCHANGED env))
<1> USE DEF Started
<1>1. CASE NsBeginPlay \/ NsNextCommand
  BY <1>1 DEF NsBeginPlay, BeginPlay, NsNextCommand, NextCommand
<1>2. CASE Add
  BY <1>2 DEF Add, Connecting, runVars
<1>3. CASE OtherMainStep /\ UNCHANGED nsVars
  <2> USE DEF Alive, AtClient, AtFetch, sessions
  <2>1. CASE \/ PlayRefused \/ NoCommands \/ AllPlaysDone \/ CreateTasksPanics \/ CreateTasksFails
             \/ NoClients \/ RunRejected \/ RunFails \/ BuildFails \/ CloseFails
    BY <1>3, <2>1 DEF PlayRefused, NoCommands, AllPlaysDone, CreateTasksPanics, CreateTasksFails,
       NoClients, RunRejected, RunFails, BuildFails, CloseFails, runVars, nsVars
  <2>2. CASE \/ ConnectRefused \/ ConnectAccepted \/ CommandsDone \/ TasksDone \/ PlayDone
             \/ CloseClient \/ BeginTask \/ FetchDone
    BY <1>3, <2>2 DEF ConnectRefused, ConnectAccepted, CommandsDone, TasksDone, PlayDone,
       CloseClient, BeginTask, FetchDone, nsVars
  <2>3. CASE \/ SkipCancelled \/ UploadFails \/ DistFails \/ LaunchDone
             \/ OutputDone \/ WaitDone \/ FetchSkipped \/ FetchOk \/ FetchFails
    BY <1>3, <2>3 DEF SkipCancelled, UploadFails, DistFails, LaunchDone, OutputDone,
       WaitDone, FetchSkipped, FetchOk, FetchFails, nsVars
  <2> QED
    BY <1>3, <2>1, <2>2, <2>3 DEF OtherMainStep
<1>4. ASSUME NEW c \in Client, \/ Register(c) \/ NsFinish(c) \/ NsWaitFails(c) \/ LocalWaitOk(c)
                               \/ StatMisses(c) \/ StatHits(c) \/ DownloadTube(c)
                               \/ SetFromEnvString(c) \/ RemoveTube(c)
      PROVE  UNCHANGED <<pc, launched, env>>
  <2>1. CASE Register(c) \/ StatHits(c) \/ DownloadTube(c) \/ SetFromEnvString(c)
    BY <2>1 DEF Register, StatHits, DownloadTube, SetFromEnvString, vars, runVars
  <2>2. CASE NsFinish(c) \/ NsWaitFails(c) \/ LocalWaitOk(c) \/ StatMisses(c) \/ RemoveTube(c)
    BY <2>2 DEF NsFinish, NsWaitFails, LocalWaitOk, StatMisses, RemoveTube, Finish, WaitStopped,
       WaitFailed, TubeFails, WaitOk, runVars, nsVars, place
  <2> QED
    BY <1>4, <2>1, <2>2
<1>5. CASE Terminated /\ UNCHANGED nsVars
  BY <1>5 DEF Terminated, vars, runVars, nsVars
<1>6. CASE UNCHANGED <<vars, nsVars>>
  BY <1>6 DEF vars, runVars, nsVars
<1> QED
  BY <1>1, <1>2, <1>3, <1>4, <1>5, <1>6 DEF NsNext, NsFetch

LEMMA TubesGivenStep ==
    ASSUME RunInv, NsInv, RegisteredPlaced, FilesHere, TubesKept, TubesGiven,
           [NsNext]_<<vars, nsVars>>
    PROVE  TubesGiven'
<1> SUFFICES ASSUME tubeFaults' = {}, NEW c \in Entry, c \in Started' PROVE TubeGiven(c)'
  BY DEF TubesGiven
<1>1. tubeFaults = {}
  BY FaultsStay
<1>2. CASE c \in Started /\ env'[c] = env[c]
  BY <1>1, <1>2, GivenStays DEF TubesGiven
<1>3. CASE NsLaunch
  <2>1. CASE c = CS[cur]
    BY <1>1, <1>3, <2>1, LaunchGives
  <2>2. CASE c # CS[cur]
    <3>1. pc = "launch" /\ c \in launched
      BY <1>3, <2>2 DEF NsLaunch, Launch, AtClient, Alive, Started
    <3>2. env' = [env EXCEPT ![CS[cur]] = InjectNamespacesAndEnvs(CS[cur])]
      BY <1>3 DEF NsLaunch
    <3>3. env'[c] = env[c]
      BY <2>2, <3>2 DEF NsInv, NamespacesTypeOK, Client
    <3> QED
      BY <1>2, <3>1, <3>3 DEF Started
  <2> QED
    BY <2>1, <2>2
<1> QED
  BY <1>2, <1>3, EnvFrame

LEMMA TubeInvInit == NsInit => TubeInv
<1> SUFFICES ASSUME NsInit PROVE TubeInv
  OBVIOUS
<1>1. registered = {} /\ pc = "play"
  BY DEF NsInit, Init
<1>2. \A c \in Client : HomeOf[c] \in Homes /\ file[HomeOf[c]] = <<>> /\ got[c] = <<>> /\ fetch[c] = "no"
  BY DEF NsInit, Homes
<1>3. Len(<<>>) = 0
  OBVIOUS
<1>4. FilesHere
  BY <1>2, <1>3 DEF FilesHere, LinesHere, Remote, Client
<1> QED
  BY <1>1, <1>2, <1>4 DEF TubeInv, RegisteredPlaced, FetchHeld, TubesKept, TubesGiven, Started

LEMMA TubeInvHands ==
    ASSUME RunInv, NsInv, TubeInv PROVE TubeHandedOn
<1> SUFFICES ASSUME tubeFaults = {}, NEW c \in Started \cap Entry, NEW r \in registered,
                    r.dest = TubeOf[c], Writer(r.val) \in Remote,
                    Before(TaskOf(r.val), <<play, cmd, task>>),
                    TubeOf[c] # BastionKey, \A e \in Entry : HostKey[e] # TubeOf[c]
             PROVE  Follows(env[c][r.var], r.val)
  BY DEF TubeHandedOn, Follows
<1>1. ForTube(r)
  BY LineFacts, NamespacesAssumption DEF ForTube, Tubes
<1>2. Past(r.val)
  BY DEF Before, TaskOf, Past, InPlay, InCommand, InTask, Started
<1> QED
  BY <1>1, <1>2 DEF TubeInv, TubesGiven, TubeGiven

\* What remote commands registered for a tube reaches every later command with
\* that tube, unless a step of a fetch failed: however the fetches of clients
\* that share a home interleave, none loses a line, brings an older one back or
\* leaves one to be taken for a later task's (src/gateway/ssh/ssh.go:478-506,
\* src/gateway/namespace/namespace.go:29-61).
THEOREM TubeHandedOnAlways == NsSpec => []TubeHandedOn
<1>1. NsInit => TubeInv
  BY TubeInvInit
<1>2. RunInv /\ NsInv /\ Emptied /\ TubeInv /\ [NsNext]_<<vars, nsVars>> => TubeInv'
  BY RegisteredPlacedStep, FetchHeldStep, FilesHereStep, TubesKeptStep, TubesGivenStep DEF TubeInv
<1>3. RunInv /\ NsInv /\ TubeInv => TubeHandedOn
  BY TubeInvHands
<1>4. NsSpec => []Emptied
  BY EmptiedAlways
<1> QED
  BY <1>1, <1>2, <1>3, <1>4, NamespacesImplement, RunInductive, NsInductive, PTL DEF NsSpec

=============================================================================
