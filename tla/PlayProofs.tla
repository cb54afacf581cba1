------------------------------ MODULE PlayProofs ------------------------------
(***************************************************************************)
(* Proofs about the plays of an invocation.  First the hosts and the       *)
(* variables of a play, for every setup (PlaySetup); then the playbook,    *)
(* for every Supfile and command line (Playbook).                          *)
(***************************************************************************)
EXTENDS Playbook, PlaySetup, SequenceTheorems, FiniteSetTheorems, WellFoundedInduction, TLAPS

----------------------------------------------------------------------------
(* filtering a sequence *)

\* A set of numbers that has 0, and with a number the next one, has them all.
LEMMA Climbs ==
    ASSUME NEW m \in Nat, NEW T, 0 \in T, \A i \in 0 .. m : (i < m /\ i \in T) => i + 1 \in T
    PROVE  \A i \in 0 .. m : i \in T
<1> SUFFICES ASSUME NEW b \in 0 .. m, b \notin T PROVE FALSE
  OBVIOUS
<1> DEFINE R == OpToRel(<, Nat)
           B == {i \in 0 .. m : i \notin T}
<1>1. IsWellFoundedOn(R, Nat)
  BY NatLessThanWellFounded
<1>2. \A x, y \in Nat : x < y => <<x, y>> \in R
  BY DEF OpToRel
<1>3. B \subseteq Nat /\ B # {}
  OBVIOUS
<1> HIDE DEF R, B
<1>4. PICK x \in B : \A y \in B : ~(<<y, x>> \in R)
  BY <1>1, <1>3, WFMin
<1>5. x \in 0 .. m /\ x \notin T /\ x # 0
  BY <1>4 DEF B
<1>6. x - 1 \in 0 .. m /\ x - 1 < m /\ x - 1 < x /\ (x - 1) + 1 = x
  BY <1>5
<1>7. x - 1 \notin B
  <2>1. x - 1 \in Nat /\ x \in Nat
    BY <1>5, <1>6
  <2>2. <<x - 1, x>> \in R
    BY <1>2, <1>6, <2>1
  <2> QED
    BY <1>4, <2>2
<1>8. x - 1 \in T
  BY <1>6, <1>7 DEF B
<1> QED
  BY <1>5, <1>6, <1>8

\* What Filtered has after i elements, from what it had before.
FilterStep(s, S, k, i) ==
    IF i = 0 THEN <<>>
    ELSE IF s[i] \in S THEN Append(k[i - 1], s[i]) ELSE k[i - 1]
UpTo(s, S, k, m) == k = [i \in 0 .. m |-> FilterStep(s, S, k, i)]

LEMMA UpToExists == ASSUME NEW s, NEW S, NEW m \in Nat PROVE \E k : UpTo(s, S, k, m)
<1> DEFINE T == {j \in 0 .. m : \E k : UpTo(s, S, k, j)}
<1>1. 0 \in T
  <2> DEFINE k == [i \in 0 .. 0 |-> <<>>]
  <2>1. \A i \in 0 .. 0 : FilterStep(s, S, k, i) = <<>>
    BY DEF FilterStep
  <2>2. UpTo(s, S, k, 0)
    BY <2>1 DEF UpTo
  <2> QED
    BY <2>2
<1>2. ASSUME NEW j \in 0 .. m, j < m, j \in T PROVE j + 1 \in T
  <2>1. PICK k : k = [i \in 0 .. j |-> FilterStep(s, S, k, i)]
    BY <1>2 DEF UpTo
  <2> DEFINE g == [i \in 0 .. j + 1 |-> IF i = j + 1 THEN FilterStep(s, S, k, i) ELSE k[i]]
  <2>2. ASSUME NEW i \in 0 .. j + 1 PROVE g[i] = FilterStep(s, S, g, i)
    <3>1. i # 0 => g[i - 1] = k[i - 1]
      OBVIOUS
    <3>2. FilterStep(s, S, g, i) = FilterStep(s, S, k, i)
      BY <3>1 DEF FilterStep
    <3>3. i # j + 1 => k[i] = FilterStep(s, S, k, i)
      BY <2>1
    <3> QED
      BY <3>2, <3>3
  <2>3. g = [i \in 0 .. j + 1 |-> FilterStep(s, S, g, i)]
    BY <2>2
  <2> HIDE DEF g
  <2> QED
    BY <1>2, <2>3 DEF UpTo
<1> HIDE DEF T
<1>3. m \in T
  BY <1>1, <1>2, Climbs
<1> QED
  BY <1>3 DEF T

LEMMA FilteredUpTo ==
    ASSUME NEW X, NEW s \in Seq(X), NEW S
    PROVE  \E k : UpTo(s, S, k, Len(s)) /\ Filtered(s, S) = k[Len(s)]
<1> DEFINE k == CHOOSE k : UpTo(s, S, k, Len(s))
<1>1. UpTo(s, S, k, Len(s))
  BY UpToExists
<1>2. Filtered(s, S) = k[Len(s)]
  BY DEF Filtered, UpTo, FilterStep
<1> QED
  BY <1>1, <1>2

\* The places of an element that is added.
LEMMA PlacesAppend ==
    ASSUME NEW X, NEW q \in Seq(X), NEW x \in X, NEW B
    PROVE  Places(Append(q, x), B) = IF x \in B THEN Places(q, B) \cup {Len(q) + 1} ELSE Places(q, B)
<1>1. DOMAIN q = 1 .. Len(q) /\ DOMAIN Append(q, x) = 1 .. Len(q) + 1
  OBVIOUS
<1>2. \A i \in 1 .. Len(q) : Append(q, x)[i] = q[i]
  OBVIOUS
<1>3. Append(q, x)[Len(q) + 1] = x
  OBVIOUS
<1>4. ASSUME NEW i PROVE i \in Places(Append(q, x), B) <=> i \in Places(q, B) \/ (x \in B /\ i = Len(q) + 1)
  <2>1. i \in 1 .. Len(q) + 1 <=> i \in 1 .. Len(q) \/ i = Len(q) + 1
    OBVIOUS
  <2>2. Len(q) + 1 \notin 1 .. Len(q)
    OBVIOUS
  <2> QED
    BY <1>1, <1>2, <1>3, <2>1, <2>2 DEF Places
<1> QED
  BY <1>4

LEMMA PlacesFinite ==
    ASSUME NEW X, NEW q \in Seq(X), NEW B
    PROVE  /\ IsFiniteSet(Places(q, B)) /\ Cardinality(Places(q, B)) \in Nat
           /\ Len(q) + 1 \notin Places(q, B)
<1>1. IsFiniteSet(1 .. Len(q))
  BY FS_Interval
<1>2. Places(q, B) \in SUBSET (1 .. Len(q))
  BY DEF Places
<1>3. IsFiniteSet(Places(q, B))
  BY <1>1, <1>2, FS_Subset
<1>4. Cardinality(Places(q, B)) \in Nat
  BY <1>3, FS_CardinalityType
<1> QED
  BY <1>2, <1>3, <1>4

\* The first i places of s with elements of C.
FirstPlaces(s, C, i) == {j \in 1 .. i : s[j] \in C}

LEMMA FirstPlacesNext ==
    ASSUME NEW s, NEW C, NEW i \in Nat, IsFiniteSet(FirstPlaces(s, C, i))
    PROVE  /\ IsFiniteSet(FirstPlaces(s, C, i + 1))
           /\ Cardinality(FirstPlaces(s, C, i + 1)) =
                  Cardinality(FirstPlaces(s, C, i)) + (IF s[i + 1] \in C THEN 1 ELSE 0)
<1> DEFINE F == FirstPlaces(s, C, i)
<1>1. FirstPlaces(s, C, i + 1) = IF s[i + 1] \in C THEN F \cup {i + 1} ELSE F
  <2>1. \A j : j \in 1 .. i + 1 <=> j \in 1 .. i \/ j = i + 1
    OBVIOUS
  <2> QED
    BY <2>1 DEF FirstPlaces
<1>2. i + 1 \notin F
  BY DEF FirstPlaces
<1>3. Cardinality(F) \in Nat
  BY FS_CardinalityType
<1> HIDE DEF F
<1> QED
  BY <1>1, <1>2, <1>3, FS_AddElement DEF F

\* What Filtered keeps of the first i elements of s.
KeptOf(X, s, S, B, q, i) ==
    /\ q \in Seq(X)
    /\ \A x : x \in Range(q) <=> \E j \in 1 .. i : s[j] = x /\ x \in S
    /\ IsFiniteSet(FirstPlaces(s, S \cap B, i))
    /\ Cardinality(Places(q, B)) = Cardinality(FirstPlaces(s, S \cap B, i))

LEMMA KeptNext ==
    ASSUME NEW X, NEW s \in Seq(X), NEW S, NEW B, NEW i \in Nat, i < Len(s),
           NEW q, KeptOf(X, s, S, B, q, i)
    PROVE  KeptOf(X, s, S, B, IF s[i + 1] \in S THEN Append(q, s[i + 1]) ELSE q, i + 1)
<1>1. i + 1 \in 1 .. Len(s) /\ s[i + 1] \in X /\ q \in Seq(X)
  <2>1. i + 1 \in 1 .. Len(s)
    OBVIOUS
  <2> QED
    BY <2>1 DEF KeptOf
<1>2. PICK x \in X : x = s[i + 1]
  BY <1>1
<1>4. \A j : j \in 1 .. i + 1 <=> j \in 1 .. i \/ j = i + 1
  OBVIOUS
<1>5. /\ IsFiniteSet(FirstPlaces(s, S \cap B, i + 1))
      /\ Cardinality(FirstPlaces(s, S \cap B, i + 1)) =
             Cardinality(Places(q, B)) + (IF s[i + 1] \in S \cap B THEN 1 ELSE 0)
  BY FirstPlacesNext DEF KeptOf
<1>6. /\ IsFiniteSet(Places(q, B)) /\ Cardinality(Places(q, B)) \in Nat
      /\ Len(q) + 1 \notin Places(q, B)
  BY <1>1, PlacesFinite
<1>7. CASE x \in S
  <2> DEFINE p == Append(q, x)
  <2>1. p \in Seq(X)
    BY <1>1
  <2>2. \A y : y \in Range(p) <=> y \in Range(q) \/ y = x
    <3>1. DOMAIN q = 1 .. Len(q) /\ DOMAIN p = 1 .. Len(q) + 1
      BY <1>1
    <3>2. \A j \in 1 .. Len(q) : p[j] = q[j]
      BY <1>1
    <3>3. p[Len(q) + 1] = x /\ Len(q) + 1 \in 1 .. Len(q) + 1
      BY <1>1
    <3>4. \A j : j \in 1 .. Len(q) + 1 <=> j \in 1 .. Len(q) \/ j = Len(q) + 1
      BY <1>1
    <3> HIDE DEF p
    <3> QED
      BY <3>1, <3>2, <3>3, <3>4 DEF Range
  <2>3. Places(p, B) = IF x \in B THEN Places(q, B) \cup {Len(q) + 1} ELSE Places(q, B)
    BY <1>1, PlacesAppend
  <2> HIDE DEF p
  <2>4. Cardinality(Places(p, B)) = Cardinality(Places(q, B)) + (IF x \in B THEN 1 ELSE 0)
    <3>1. Cardinality(Places(q, B) \cup {Len(q) + 1}) = Cardinality(Places(q, B)) + 1
      BY <1>6, FS_AddElement
    <3> QED
      BY <1>6, <2>3, <3>1
  <2>5. \A y : y \in Range(p) <=> \E j \in 1 .. i + 1 : s[j] = y /\ y \in S
    BY <1>2, <1>4, <1>7, <2>2 DEF KeptOf
  <2>6. KeptOf(X, s, S, B, p, i + 1)
    BY <1>2, <1>5, <1>7, <2>1, <2>4, <2>5 DEF KeptOf
  <2> QED
    BY <1>2, <1>7, <2>6 DEF p
<1>8. CASE x \notin S
  <2>1. \A y : y \in Range(q) <=> \E j \in 1 .. i + 1 : s[j] = y /\ y \in S
    BY <1>2, <1>4, <1>8 DEF KeptOf
  <2>2. Cardinality(FirstPlaces(s, S \cap B, i + 1)) = Cardinality(Places(q, B))
    BY <1>2, <1>5, <1>6, <1>8
  <2> QED
    BY <1>1, <1>2, <1>5, <1>8, <2>1, <2>2 DEF KeptOf
<1> QED
  BY <1>7, <1>8

\* Filtered keeps the elements that are asked for, each as often as it is there.
LEMMA FilteredKeeps ==
    ASSUME NEW X, NEW s \in Seq(X), NEW S, NEW B
    PROVE  /\ Filtered(s, S) \in Seq(X)
           /\ Range(Filtered(s, S)) = Range(s) \cap S
           /\ Cardinality(Places(Filtered(s, S), B)) = Cardinality(Places(s, S \cap B))
<1>1. PICK k : k = [i \in 0 .. Len(s) |-> FilterStep(s, S, k, i)] /\ Filtered(s, S) = k[Len(s)]
  BY FilteredUpTo DEF UpTo
<1> DEFINE T == {i \in 0 .. Len(s) : KeptOf(X, s, S, B, k[i], i)}
<1>2. Len(s) \in Nat
  OBVIOUS
<1>3. 0 \in T
  <2>1. k[0] = <<>>
    BY <1>1, <1>2 DEF FilterStep
  <2>2. FirstPlaces(s, S \cap B, 0) = {}
    BY DEF FirstPlaces
  <2>3. Range(<<>>) = {} /\ Places(<<>>, B) = {}
    BY DEF Range, Places
  <2>4. <<>> \in Seq(X)
    OBVIOUS
  <2>5. \A x : x \in Range(<<>>) <=> \E j \in 1 .. 0 : s[j] = x /\ x \in S
    BY <2>3
  <2>6. /\ IsFiniteSet(FirstPlaces(s, S \cap B, 0))
        /\ Cardinality(Places(<<>>, B)) = Cardinality(FirstPlaces(s, S \cap B, 0))
    BY <2>2, <2>3, FS_EmptySet
  <2>7. KeptOf(X, s, S, B, <<>>, 0)
    BY <2>4, <2>5, <2>6 DEF KeptOf
  <2> QED
    BY <1>2, <2>1, <2>7
<1>4. ASSUME NEW i \in 0 .. Len(s), i < Len(s), i \in T PROVE i + 1 \in T
  <2>1. i \in Nat /\ KeptOf(X, s, S, B, k[i], i) /\ i + 1 \in 0 .. Len(s)
    BY <1>2, <1>4
  <2>2. k[i + 1] = IF s[i + 1] \in S THEN Append(k[i], s[i + 1]) ELSE k[i]
    <3>1. k[i + 1] = FilterStep(s, S, k, i + 1)
      BY <1>1, <2>1
    <3>2. i + 1 # 0 /\ (i + 1) - 1 = i
      BY <2>1
    <3> QED
      BY <3>1, <3>2 DEF FilterStep
  <2>3. KeptOf(X, s, S, B, k[i + 1], i + 1)
    BY <1>4, <2>1, <2>2, KeptNext
  <2> QED
    BY <2>1, <2>3
<1>5. Len(s) \in T
  <2> HIDE DEF T
  <2>1. PICK m \in Nat : m = Len(s)
    BY <1>2
  <2>2. \A i \in 0 .. m : i \in T
    BY <1>3, <1>4, <2>1, Climbs
  <2> QED
    BY <2>1, <2>2
<1>6. KeptOf(X, s, S, B, Filtered(s, S), Len(s))
  BY <1>1, <1>5
<1>7. FirstPlaces(s, S \cap B, Len(s)) = Places(s, S \cap B)
  BY DEF Places, FirstPlaces
<1>8. Range(Filtered(s, S)) = Range(s) \cap S
  <2>1. \A x : x \in Range(s) <=> \E j \in 1 .. Len(s) : s[j] = x
    BY DEF Range
  <2> QED
    BY <1>6, <2>1 DEF KeptOf
<1> QED
  BY <1>6, <1>7, <1>8 DEF KeptOf

LEMMA FilteredLen ==
    ASSUME NEW X, NEW s \in Seq(X), NEW S
    PROVE  Len(Filtered(s, S)) = Cardinality(Places(s, S))
<1>1. PICK f : f = Filtered(s, S)
  OBVIOUS
<1>2. f \in Seq(X) /\ Range(f) = Range(s) \cap S
  BY <1>1, FilteredKeeps
<1>3. Cardinality(Places(f, S)) = Cardinality(Places(s, S))
  <2>1. Cardinality(Places(f, S)) = Cardinality(Places(s, S \cap S))
    BY <1>1, FilteredKeeps
  <2>2. S \cap S = S
    OBVIOUS
  <2> QED
    BY <2>1, <2>2
<1>4. Places(f, S) = 1 .. Len(f)
  BY <1>2 DEF Places, Range
<1>5. Cardinality(1 .. Len(f)) = Len(f)
  <2>1. PICK m \in Nat : m = Len(f)
    BY <1>2
  <2>2. Cardinality(1 .. m) = IF 1 > m THEN 0 ELSE m - 1 + 1
    BY FS_Interval
  <2> QED
    BY <2>1, <2>2
<1> QED
  BY <1>1, <1>3, <1>4, <1>5

----------------------------------------------------------------------------
(* the inductive invariant *)

Prepared == pc \in {"command", "create", "resolveCommand", "run"}

HostsTyped ==
    network \in [DOMAIN setup.plays -> [hosts : Seq(Host), user : Lit \cup {""}]]

\* The command and its parts: those without a task yet, and those with one.
Positions ==
    /\ cmd \in Nat \ {0} /\ parts \in Seq(Part) /\ tasks \in Seq(Part)
    /\ pc \in {"create", "resolveCommand", "run"} => cmd \in DOMAIN Play.cmds
    /\ pc \in {"create", "resolveCommand"} => Range(tasks) \cup Range(parts) = Cmd.parts
    /\ pc = "run" => Range(tasks) \subseteq Cmd.parts
    /\ pc \in {"args", "play", "merge", "resolve", "command"} => tasks = <<>>

ShellOnlyInRun == pc # "run" => shell = NoShell
ClientsKnown == Prepared => DOMAIN clientEnv = Clients

\* Every -e has a value.
FlagsRead == pc \notin {"args", "ended"} => ~Malformed

PlaceInv == PlaySetupTypeOK /\ HostsTyped /\ Positions /\ ShellOnlyInRun /\ ClientsKnown /\ FlagsRead

\* The variables of a network, once the arguments are read.
NetworkEnv(n) == Set(SetAll(setup.netEnv[n], FlagKeys), <<"SUP_NETWORK">>, Lits(DefaultNetwork(n)))
NetEnvRead ==
    /\ pc = "args" => netEnv = setup.netEnv
    /\ pc \notin {"args", "ended"} =>
          \A i \in DOMAIN setup.plays :
              netEnv[setup.plays[i].network] = NetworkEnv(setup.plays[i].network)

\* The names "v=l" are those of -e.
OddFromFlags(e) == \A k \in DOMAIN e : Len(k) = 2 => k \in Range(setup.flags)
OddsKnown ==
    /\ pc = "resolve" \/ Prepared => OddFromFlags(vars)
    /\ Prepared => \A h \in DOMAIN clientEnv : OddFromFlags(clientEnv[h])

\* What a reference to w may become, after w is resolved and before.
Became(w, after) == Odds(w) \cup {IF after THEN PlayValue(w) ELSE OsEnv[w]}

IsPlain(v) == PlayValue(v).kind = "text"
IsReference(v) ==
    /\ PlayValue(v).kind = "ref" /\ PlayValue(v).of # v
    /\ IsPlain(PlayValue(v).of)
AsWritten(v, x) ==
    /\ IsPlain(v) => x = PlayValue(v)
    /\ IsReference(v) => x \in Became(PlayValue(v).of, <<v>> \in late)

\* While the variables of the play are resolved, those to do are as in the Supfile.
PlayResolved ==
    pc = "resolve" =>
        /\ \A v \in Var : <<v>> \in DOMAIN vars <=> InSupfile(v)
        /\ \A v \in Var : InSupfile(v) =>
              IF <<v>> \in todo THEN vars[<<v>>] = PlayValue(v) ELSE AsWritten(v, vars[<<v>>])
        /\ \A w \in Var : IsPlain(w) => exported[w] \in Became(w, <<w>> \in DOMAIN vars \ todo)
        /\ late \cap todo = {}

\* The commands of the play up to m that set v, and the commands whose variables
\* are set already.
SettersTo(v, m) == {j \in 1 .. m : /\ <<v>> \in DOMAIN Play.cmds[j].env
                                  /\ Play.cmds[j].parts \cap {"local", "run"} # {}}
OwnSet == pc = "run" \/ (pc \in {"create", "resolveCommand"} /\ Range(tasks) \cap {"local", "run"} # {})
SetUpTo == IF OwnSet THEN cmd ELSE cmd - 1

Meant(v, S, x) ==
    IF S # {} THEN Play.cmds[Max(S)].env[<<v>>].kind = "text" => x = Play.cmds[Max(S)].env[<<v>>]
    ELSE IF v \in Flagged THEN x = FlagValue(v)
    ELSE AsWritten(v, x)

CommandsResolved ==
    Prepared => \A v \in Var : LET S == SettersTo(v, SetUpTo) IN
        (S # {} \/ v \in Flagged \/ InSupfile(v)) => <<v>> \in DOMAIN vars /\ Meant(v, S, vars[<<v>>])

ValueInv == NetEnvRead /\ OddsKnown /\ PlayResolved /\ CommandsResolved /\ NearestWins /\ ReferencesResolve

\* What the host flags make of a play's hosts.
Asked(p) == (Range(NetHosts[setup.plays[p].network]) \cap setup.only) \ setup.except
Sent(S) == {setup.sshconfig[a].to : a \in S \cap DOMAIN setup.sshconfig}
Chained == Sent(Asked(play)) \cap DOMAIN setup.sshconfig # {}

Raw(o) == network[o].hosts = NetHosts[setup.plays[o].network]
FilteredOnce ==
    /\ Asked(play) # {} /\ Clients = Asked(play) \cup Sent(Asked(play))
    /\ Len(Net.hosts) = Cardinality(Places(NetHosts[Play.network], Asked(play)))
                        + Cardinality(Places(NetHosts[Play.network], Asked(play) \cap DOMAIN setup.sshconfig))
FilteredAgain ==
    /\ Asked(play) # {} /\ Asked(play) \subseteq Clients
    /\ Clients \subseteq Asked(play) \cup Sent(Host)
    /\ ~Chained => Clients = Asked(play) \cup Sent(Asked(play))

HostsInv ==
    /\ ~setup.makefile =>
          /\ \A p \in DOMAIN setup.plays :
                p > play \/ (p = play /\ pc \in {"args", "play"}) => Raw(p)
          /\ Underway => FilteredOnce
    /\ setup.makefile /\ pc # "ended" =>
          IF play = 1 /\ pc \in {"args", "play"} THEN Raw(1) ELSE FilteredAgain

----------------------------------------------------------------------------
(* keys, values and maps *)

LEMMA SetupKnown == ASSUME NEW s \in Setups PROVE IsSetup(s)
  BY PlaySetupAssumption

LEMMA KeyNamed == ASSUME NEW v \in Var PROVE <<v>> \in Key /\ Len(<<v>>) = 1 /\ <<v>>[1] = v
  BY DEF Key

LEMMA KeyKinds ==
    ASSUME NEW k \in Key
    PROVE  \/ Len(k) = 1 /\ k[1] \in Var /\ k = <<k[1]>>
           \/ Len(k) = 2 /\ k[1] \in Var /\ k[2] \in Lit
  BY DEF Key

LEMMA ValueKinds ==
    ASSUME NEW x \in Value
    PROVE  /\ x.kind \in {"text", "ref", "shell", "odd"}
           /\ x.kind = "ref" => x.of \in Var
           /\ x.kind = "shell" => x.of \in Lit
<1>1. CASE \E l \in Lit \cup {""} : x = Lits(l)
  <2>1. PICK l \in Lit \cup {""} : x = [kind |-> "text", of |-> l]
    BY <1>1 DEF Lits
  <2> QED
    BY <2>1
<1>2. CASE \E v \in Var : x = Ref(v)
  <2>1. PICK v \in Var : x = [kind |-> "ref", of |-> v]
    BY <1>2 DEF Ref
  <2> QED
    BY <2>1
<1>3. CASE \E l \in Lit : x = Subshell(l)
  <2>1. PICK l \in Lit : x = [kind |-> "shell", of |-> l]
    BY <1>3 DEF Subshell
  <2> QED
    BY <2>1
<1>4. CASE \E l \in Lit : x = Odd(l)
  <2>1. PICK l \in Lit : x = [kind |-> "odd", of |-> l]
    BY <1>4 DEF Odd
  <2> QED
    BY <2>1
<1> QED
  BY <1>1, <1>2, <1>3, <1>4 DEF Value

LEMMA ValuesMade ==
    /\ \A l \in Lit \cup {""} : Lits(l) \in Value /\ Lits(l).kind = "text"
    /\ \A l \in Lit : Odd(l) \in Value /\ Odd(l).kind = "odd"
    /\ Empty \in Value /\ Empty.kind = "text"
  BY DEF Value, Lits, Odd, Empty

LEMMA OsEnvTyped == OsEnv \in [Var -> Value] /\ \A v \in Var : OsEnv[v].kind = "text"
<1>1. \A x \in {Lits(l) : l \in Lit \cup {""}} : x \in Value /\ x.kind = "text"
  BY ValuesMade
<1> QED
  BY <1>1, PlaySetupAssumption

LEMMA SetTyped ==
    ASSUME NEW e, IsEnvList(e), NEW k \in Key, NEW x \in Value
    PROVE  IsEnvList(Set(e, k, x))
  BY DEF IsEnvList, Set

LEMMA SetAllTyped ==
    ASSUME NEW e, IsEnvList(e), NEW s, IsEnvList(s)
    PROVE  IsEnvList(SetAll(e, s))
  BY DEF IsEnvList, SetAll

LEMMA SetAllGives ==
    ASSUME NEW e, NEW s
    PROVE  /\ DOMAIN SetAll(e, s) = DOMAIN e \cup DOMAIN s
           /\ \A k \in DOMAIN s : SetAll(e, s)[k] = s[k]
           /\ \A k \in DOMAIN e \ DOMAIN s : SetAll(e, s)[k] = e[k]
  BY DEF SetAll

LEMMA SetGives ==
    ASSUME NEW e, NEW k, NEW x
    PROVE  /\ DOMAIN Set(e, k, x) = DOMAIN e \cup {k}
           /\ Set(e, k, x)[k] = x
           /\ \A j \in DOMAIN e \ {k} : Set(e, k, x)[j] = e[j]
  BY DEF Set

LEMMA EchoedTyped ==
    ASSUME NEW x \in Value, NEW e \in [Var -> Value]
    PROVE  /\ Echoed(x, e) \in Value
           /\ x.kind \in {"text", "odd"} => Echoed(x, e) = x
           /\ x.kind = "ref" => Echoed(x, e) = e[x.of]
<1>1. x.kind \in {"text", "ref", "shell", "odd"}
  BY ValueKinds
<1>2. CASE x.kind = "ref"
  BY <1>2, ValueKinds DEF Echoed
<1>3. CASE x.kind = "shell"
  BY <1>3, ValueKinds, ValuesMade DEF Echoed
<1>4. CASE x.kind \in {"text", "odd"}
  BY <1>4 DEF Echoed
<1> QED
  BY <1>1, <1>2, <1>3, <1>4

LEMMA ExportedTyped ==
    ASSUME NEW e \in [Var -> Value], NEW k \in Key, NEW x \in Value
    PROVE  Exported(e, k, x) \in [Var -> Value]
<1>1. (IF Len(k) = 1 THEN x ELSE Odd(k[2])) \in Value
  BY KeyKinds, ValuesMade
<1> QED
  BY <1>1 DEF Exported

\* The flags, as keys with an empty value.
LEMMA FlagKeysTyped ==
    ASSUME IsSetup(setup)
    PROVE  IsEnvList(FlagKeys)
<1>1. Range(setup.flags) \subseteq Key
  <2>1. PICK f \in Seq(Key) : f = setup.flags
    BY DEF IsSetup
  <2> QED
    BY <2>1 DEF Range
<1> QED
  BY <1>1, ValuesMade DEF FlagKeys, IsEnvList

LEMMA MaxIsIn ==
    ASSUME NEW m \in Nat, NEW S \in SUBSET (1 .. m), S # {}
    PROVE  Max(S) \in S /\ \A y \in S : Max(S) >= y
<1> SUFFICES \E x \in S : \A y \in S : x >= y
  BY DEF Max
<1> SUFFICES ASSUME \A x \in S : \E y \in S : y > x PROVE FALSE
  OBVIOUS
<1> DEFINE T == {i \in 0 .. m : \E y \in S : y > i}
<1>1. 0 \in T
  <2>1. PICK y \in S : y \in 1 .. m
    OBVIOUS
  <2>2. y > 0
    BY <2>1
  <2> QED
    BY <2>1, <2>2
<1>2. ASSUME NEW i \in 0 .. m, i < m, i \in T PROVE i + 1 \in T
  <2>1. PICK y \in S : y > i
    BY <1>2
  <2>2. PICK z \in S : z > y
    OBVIOUS
  <2>3. z > i + 1 /\ i + 1 \in 0 .. m
    BY <1>2, <2>1, <2>2
  <2> QED
    BY <2>3
<1>3. m \in T
  <2> HIDE DEF T
  <2>1. \A i \in 0 .. m : i \in T
    BY <1>1, <1>2, Climbs
  <2> QED
    BY <2>1
<1> QED
  BY <1>3

\* Where every -e has a value.
LEMMA FlagsGive ==
    ASSUME IsSetup(setup), ~Malformed
    PROVE  /\ \A k \in Range(setup.flags) :
                 k \in Key /\ Len(k) = 2 /\ Odd(k[2]) \in Odds(k[1])
           /\ \A v \in Var : \A x \in Odds(v) : x \in Value /\ x.kind = "odd"
           /\ \A v \in Flagged : FlagValue(v) \in Value /\ FlagValue(v).kind = "text"
<1>1. PICK f \in Seq(Key) : f = setup.flags
  BY DEF IsSetup
<1>2. \A i \in DOMAIN f : f[i] \in Key /\ f[i] \in Range(f)
  BY DEF Range
<1>3. \A k \in Range(f) : k \in Key /\ Len(k) # 1
  BY <1>1, <1>2 DEF Malformed, Range
<1>4. \A k \in Range(f) : Len(k) = 2 /\ k[1] \in Var /\ k[2] \in Lit
  BY <1>3, KeyKinds
<1>5. \A k \in Range(f) : Odd(k[2]) \in Odds(k[1])
  BY <1>1 DEF Odds, FlagsFor, Range
<1>6. \A v \in Var : \A x \in Odds(v) : x \in Value /\ x.kind = "odd"
  <2> SUFFICES ASSUME NEW v \in Var, NEW x \in Odds(v) PROVE x \in Value /\ x.kind = "odd"
    OBVIOUS
  <2>1. PICK i \in DOMAIN f : x = Odd(f[i][2])
    BY <1>1 DEF Odds, FlagsFor
  <2>2. f[i][2] \in Lit
    BY <1>2, <1>4
  <2> QED
    BY <2>1, <2>2, ValuesMade
<1>7. ASSUME NEW v \in Flagged PROVE FlagValue(v) \in Value /\ FlagValue(v).kind = "text"
  <2>1. PICK m \in Nat : m = Len(f) /\ DOMAIN f = 1 .. m
    OBVIOUS
  <2>2. FlagsFor(v) \in SUBSET (1 .. m) /\ FlagsFor(v) # {}
    BY <1>1, <1>7, <2>1 DEF FlagsFor, Flagged
  <2>3. Max(FlagsFor(v)) \in 1 .. m
    BY <2>2, MaxIsIn
  <2>4. f[Max(FlagsFor(v))][2] \in Lit
    BY <1>2, <1>4, <2>1, <2>3
  <2> QED
    BY <1>1, <2>4, ValuesMade DEF FlagValue
<1> QED
  BY <1>1, <1>3, <1>4, <1>5, <1>6, <1>7

LEMMA WithFlagsTyped ==
    ASSUME IsSetup(setup), ~Malformed, NEW e, IsEnvList(e)
    PROVE  IsEnvList(WithFlags(e))
<1>1. IsEnvList([k \in {<<v>> : v \in Flagged} |-> FlagValue(k[1])])
  BY FlagsGive, KeyNamed DEF IsEnvList, Flagged
<1> QED
  BY <1>1, SetAllTyped DEF WithFlags

LEMMA SeesTyped ==
    ASSUME NEW e, IsEnvList(e), NEW h, NEW v \in Var, NEW x \in Sees(e, h, v)
    PROVE  /\ x \in Value
           /\ <<v>> \in DOMAIN e => \/ x = e[<<v>>]
                                    \/ \E k \in DOMAIN e : Len(k) = 2 /\ k[1] = v /\ x = Odd(k[2])
<1>1. CASE x \in {IF h \in LocalHost THEN OsEnv[v] ELSE Empty} /\ <<v>> \notin DOMAIN e
  <2>1. x = OsEnv[v] \/ x = Empty
    BY <1>1
  <2> QED
    BY <1>1, <2>1, OsEnvTyped, ValuesMade
<1>2. CASE x \in {e[k] : k \in DOMAIN e \cap {<<v>>}}
  BY <1>2 DEF IsEnvList
<1>3. CASE x \in {Odd(k[2]) : k \in {j \in DOMAIN e : Len(j) = 2 /\ j[1] = v}}
  <2>1. PICK k \in DOMAIN e : Len(k) = 2 /\ k[1] = v /\ x = Odd(k[2])
    BY <1>3
  <2>2. k \in Key
    BY DEF IsEnvList
  <2>3. k[2] \in Lit
    BY <2>1, <2>2, KeyKinds
  <2>4. x \in Value
    BY <2>1, <2>3, ValuesMade
  <2> QED
    BY <2>1, <2>4
<1>4. \/ x \in {e[k] : k \in DOMAIN e \cap {<<v>>}}
      \/ x \in {Odd(k[2]) : k \in {j \in DOMAIN e : Len(j) = 2 /\ j[1] = v}}
      \/ x \in {IF h \in LocalHost THEN OsEnv[v] ELSE Empty} /\ <<v>> \notin DOMAIN e
  <2> DEFINE A == {e[k] : k \in DOMAIN e \cap {<<v>>}}
             B == {Odd(k[2]) : k \in {j \in DOMAIN e : Len(j) = 2 /\ j[1] = v}}
             C == {IF h \in LocalHost THEN OsEnv[v] ELSE Empty}
  <2>1. Sees(e, h, v) = IF A \cup B # {} THEN A \cup B ELSE C
    BY DEF Sees
  <2>2. <<v>> \in DOMAIN e => e[<<v>>] \in A
    OBVIOUS
  <2> HIDE DEF A, B, C
  <2>3. x \in A \/ x \in B \/ (x \in C /\ <<v>> \notin DOMAIN e)
    BY <2>1, <2>2
  <2> QED
    BY <2>3 DEF A, B, C
<1> QED
  BY <1>1, <1>2, <1>3, <1>4

----------------------------------------------------------------------------
(* where a play is *)

\* What IsSetup says of the plays.
LEMMA PlaysKnown ==
    ASSUME IsSetup(setup)
    PROVE  /\ Len(setup.plays) \in Nat \ {0} /\ DOMAIN setup.plays = 1 .. Len(setup.plays)
           /\ \A i \in DOMAIN setup.plays :
                 /\ setup.plays[i].network \in Network
                 /\ Len(setup.plays[i].cmds) \in Nat
                 /\ DOMAIN setup.plays[i].cmds = 1 .. Len(setup.plays[i].cmds)
                 /\ \A j \in DOMAIN setup.plays[i].cmds : IsCommand(setup.plays[i].cmds[j])
<1>1. PICK p \in Seq(Range(setup.plays)) : p = setup.plays
  BY DEF IsSetup, IsSeq
<1>2. Len(p) \in Nat /\ Len(p) # 0 /\ DOMAIN p = 1 .. Len(p)
  BY <1>1 DEF IsSetup
<1>3. ASSUME NEW i \in DOMAIN setup.plays
      PROVE  /\ setup.plays[i].network \in Network
             /\ Len(setup.plays[i].cmds) \in Nat
             /\ DOMAIN setup.plays[i].cmds = 1 .. Len(setup.plays[i].cmds)
             /\ \A j \in DOMAIN setup.plays[i].cmds : IsCommand(setup.plays[i].cmds[j])
  <2>1. IsPlay(setup.plays[i])
    BY DEF IsSetup
  <2>2. PICK c \in Seq(Range(setup.plays[i].cmds)) : c = setup.plays[i].cmds
    BY <2>1 DEF IsPlay, IsSeq
  <2> QED
    BY <2>1, <2>2 DEF IsPlay
<1> QED
  BY <1>1, <1>2, <1>3

LEMMA ObjectKnown ==
    ASSUME IsSetup(setup), play \in DOMAIN setup.plays
    PROVE  Object(play) \in DOMAIN setup.plays
  BY PlaysKnown DEF Object

LEMMA SupEnvTyped == ASSUME NEW e, IsSupEnv(e) PROVE IsEnvList(e)
  BY DEF IsSupEnv

LEMMA PlaceInit == PSInit => PlaceInv
<1> SUFFICES ASSUME PSInit PROVE PlaceInv
  OBVIOUS
<1>1. IsSetup(setup) /\ setup \in Setups
  BY SetupKnown DEF PSInit
<1>2. PlaySetupTypeOK
  <2>1. \A n \in Network : IsEnvList(netEnv[n])
    BY <1>1 DEF PSInit, IsSetup, IsSupEnv
  <2>2. IsEnvList(vars) /\ exported \in [Var -> Value] /\ todo \subseteq DOMAIN vars
    BY OsEnvTyped DEF PSInit, IsEnvList, NoEnv
  <2>3. shell.var \in Var /\ shell.sees \in Value
    BY ValuesMade, PlaySetupAssumption DEF PSInit, NoShell
  <2>4. play \in DOMAIN setup.plays
    <3>1. Len(setup.plays) \in Nat \ {0} /\ DOMAIN setup.plays = 1 .. Len(setup.plays)
      BY <1>1, PlaysKnown
    <3>2. play = 1
      BY DEF PSInit
    <3> QED
      BY <3>1, <3>2
  <2>5. \A h \in DOMAIN clientEnv : IsEnvList(clientEnv[h])
    BY DEF PSInit
  <2> QED
    BY <1>1, <2>1, <2>2, <2>3, <2>4, <2>5 DEF PSInit, PlaySetupTypeOK
<1>3. HostsTyped
  <2>1. \A p \in DOMAIN setup.plays : setup.plays[p].network \in Network
    BY <1>1, PlaysKnown
  <2>2. \A n \in Network : NetHosts[n] \in Seq(Host)
    BY PlaySetupAssumption
  <2> QED
    BY <2>1, <2>2 DEF PSInit, HostsTyped
<1>4. Positions
  <2>1. cmd = 1 /\ parts = <<>> /\ tasks = <<>> /\ pc = "args"
    BY DEF PSInit
  <2>2. <<>> \in Seq(Part)
    OBVIOUS
  <2> QED
    BY <2>1, <2>2 DEF Positions
<1>5. ShellOnlyInRun /\ ClientsKnown /\ FlagsRead
  BY DEF PSInit, ShellOnlyInRun, ClientsKnown, Prepared, FlagsRead
<1> QED
  BY <1>2, <1>3, <1>4, <1>5 DEF PlaceInv

\* Which steps change what.
LEMMA Frames ==
    ASSUME [PSNext]_psVars
    PROVE  /\ setup' = setup
           /\ CheckInitialArgs \/ UNCHANGED network
           /\ ReadArgs \/ UNCHANGED netEnv
           /\ PlayDone \/ UNCHANGED play
           /\ StartPlay \/ CommandDone \/ UNCHANGED cmd
           /\ StartPlay \/ RunTask \/ UNCHANGED clientEnv
           /\ RunTask \/ CommandDone \/ UNCHANGED shell
           /\ CreateTask \/ RunTask \/ UNCHANGED tasks
           /\ NextCommand \/ CreateTask \/ UNCHANGED parts
           /\ MergeVars \/ (\E k \in todo : ResolveKey(k)) \/ StartPlay \/ CreateTask \/ UNCHANGED vars
           /\ MergeVars \/ (\E k \in todo : ResolveKey(k)) \/ CreateTask \/ UNCHANGED <<todo, exported>>
           /\ MergeVars \/ (\E k \in todo : ResolveKey(k)) \/ UNCHANGED late
<1>1. CASE \E k \in todo : ResolveKey(k) \/ ResolveFails(k)
  BY <1>1 DEF ResolveKey, ResolveFails
<1>2. CASE ~ \E k \in todo : ResolveKey(k) \/ ResolveFails(k)
  BY <1>2 DEF PSNext, psVars, ReadArgs, FlagPanics, CheckInitialArgs, MergeVars, StartPlay, NextCommand,
              CreateTask, CommandResolved, TasksCreated, RunTask, CommandDone, PlayDone, Ended, StartResolving
<1> QED
  BY <1>1, <1>2

\* The places of an invocation, and what leaves each.
LEMMA Flow ==
    ASSUME PlaySetupTypeOK, [PSNext]_psVars
    PROVE  /\ pc' \in {"args", "play", "merge", "resolve", "command", "create", "resolveCommand", "run", "ended"}
           /\ exit' \in {"none", "0", "2", "41", "42", "43", "44", "45", "panic"}
<1>1. CASE \E k \in todo : ResolveKey(k) \/ ResolveFails(k)
  BY <1>1 DEF ResolveKey, ResolveFails, PlaySetupTypeOK, Exit
<1>2. CASE ~ \E k \in todo : ResolveKey(k) \/ ResolveFails(k)
  BY <1>2 DEF PSNext, psVars, ReadArgs, FlagPanics, CheckInitialArgs, MergeVars, StartPlay, NextCommand,
              CreateTask, CommandResolved, TasksCreated, RunTask, CommandDone, PlayDone, Ended, StartResolving,
              Exit, PlaySetupTypeOK
<1> QED
  BY <1>1, <1>2

LEMMA HostsTypedStep == ASSUME PlaceInv, [PSNext]_psVars PROVE HostsTyped'
<1>1. IsSetup(setup) /\ setup' = setup
  BY SetupKnown, Frames DEF PlaceInv, PlaySetupTypeOK
<1>2. CASE CheckInitialArgs
  <2>1. Object(play) \in DOMAIN setup.plays /\ Net \in [hosts : Seq(Host), user : Lit \cup {""}]
    BY <1>1, ObjectKnown DEF PlaceInv, PlaySetupTypeOK, HostsTyped, Net
  <2>2. PICK f \in Seq(Host) : f = Except
    <3>1. Only \in Seq(Host)
      BY <2>1, FilteredKeeps DEF Only
    <3> QED
      BY <3>1, FilteredKeeps DEF Except
  <2>3. PICK a \in Seq(Host) : a = Aliases /\ Range(a) = Range(f) \cap DOMAIN setup.sshconfig
    BY <2>2, FilteredKeeps DEF Aliases
  <2>4. \A i \in DOMAIN a : setup.sshconfig[a[i]].to \in Host /\ setup.sshconfig[a[i]].user \in Lit \cup {""}
    BY <1>1, <2>3 DEF IsSetup, IsSshConfig, Range
  <2>5. f \o [i \in DOMAIN a |-> setup.sshconfig[a[i]].to] \in Seq(Host)
    <3> DEFINE g == [i \in DOMAIN a |-> setup.sshconfig[a[i]].to]
    <3>1. PICK m \in Nat : DOMAIN a = 1 .. m
      OBVIOUS
    <3>2. g \in [1 .. m -> Host]
      BY <2>4, <3>1
    <3>3. g \in Seq(Host)
      BY <3>2, SeqDef
    <3>4. \A q \in Seq(Host) : f \o q \in Seq(Host)
      OBVIOUS
    <3> QED
      BY <3>3, <3>4
  <2>6. (IF a = <<>> THEN Net.user ELSE setup.sshconfig[a[Len(a)]].user) \in Lit \cup {""}
    <3>1. a # <<>> => Len(a) \in DOMAIN a
      BY EmptySeq
    <3> QED
      BY <2>1, <2>4, <3>1
  <2>7. PICK r \in [hosts : Seq(Host), user : Lit \cup {""}] :
            r = [hosts |-> f \o [i \in DOMAIN a |-> setup.sshconfig[a[i]].to],
                 user |-> IF a = <<>> THEN Net.user ELSE setup.sshconfig[a[Len(a)]].user]
    BY <2>5, <2>6
  <2>8. network' = network \/ network' = [network EXCEPT ![Object(play)] = r]
    BY <1>2, <2>2, <2>3, <2>7 DEF CheckInitialArgs, Net
  <2> QED
    BY <1>1, <2>1, <2>8 DEF HostsTyped, PlaceInv
<1>3. CASE UNCHANGED network
  BY <1>1, <1>3 DEF HostsTyped, PlaceInv
<1> QED
  BY <1>2, <1>3, Frames

LEMMA RangeAppend ==
    ASSUME NEW X, NEW q \in Seq(X), NEW x \in X
    PROVE  Append(q, x) \in Seq(X) /\ Range(Append(q, x)) = Range(q) \cup {x}
<1>1. DOMAIN q = 1 .. Len(q) /\ DOMAIN Append(q, x) = 1 .. Len(q) + 1
  OBVIOUS
<1>2. \A j \in 1 .. Len(q) : Append(q, x)[j] = q[j]
  OBVIOUS
<1>3. Append(q, x)[Len(q) + 1] = x /\ Len(q) + 1 \in 1 .. Len(q) + 1
  OBVIOUS
<1>4. \A j : j \in 1 .. Len(q) + 1 <=> j \in 1 .. Len(q) \/ j = Len(q) + 1
  OBVIOUS
<1>5. Append(q, x) \in Seq(X)
  OBVIOUS
<1> QED
  BY <1>1, <1>2, <1>3, <1>4, <1>5 DEF Range

LEMMA RangeHeadTail ==
    ASSUME NEW X, NEW q \in Seq(X), q # <<>>
    PROVE  /\ Head(q) \in X /\ Tail(q) \in Seq(X)
           /\ Range(q) = {Head(q)} \cup Range(Tail(q))
<1>1. Head(q) \in X /\ Tail(q) \in Seq(X) /\ Head(q) = q[1]
  OBVIOUS
<1>2. Len(q) \in Nat /\ Len(q) # 0 /\ DOMAIN q = 1 .. Len(q)
  BY EmptySeq
<1>3. DOMAIN Tail(q) = 1 .. Len(q) - 1 /\ \A j \in 1 .. Len(q) - 1 : Tail(q)[j] = q[j + 1]
  BY <1>2
<1>4. \A j : j \in 1 .. Len(q) <=> j = 1 \/ (j \in Int /\ j - 1 \in 1 .. Len(q) - 1)
  BY <1>2
<1>5. ASSUME NEW j \in 1 .. Len(q), j # 1 PROVE q[j] \in Range(Tail(q))
  <2>1. j - 1 \in 1 .. Len(q) - 1 /\ (j - 1) + 1 = j
    BY <1>2, <1>5
  <2> QED
    BY <1>3, <2>1 DEF Range
<1>6. ASSUME NEW j \in 1 .. Len(q) - 1 PROVE q[j + 1] \in Range(q)
  <2>1. j + 1 \in 1 .. Len(q)
    BY <1>2
  <2> QED
    BY <1>2, <2>1 DEF Range
<1>7. q[1] \in Range(q)
  BY <1>2 DEF Range
<1>8. \A x \in Range(q) : x = Head(q) \/ x \in Range(Tail(q))
  BY <1>1, <1>2, <1>5 DEF Range
<1>9. \A x \in Range(Tail(q)) : x \in Range(q)
  BY <1>3, <1>6 DEF Range
<1> QED
  BY <1>1, <1>7, <1>8, <1>9

\* The command a play is at.
LEMMA CmdKnown ==
    ASSUME IsSetup(setup), play \in DOMAIN setup.plays
    PROVE  /\ Len(Play.cmds) \in Nat /\ DOMAIN Play.cmds = 1 .. Len(Play.cmds)
           /\ cmd \in DOMAIN Play.cmds => IsCommand(Cmd) /\ Cmd.parts \subseteq Part /\ IsEnvList(Cmd.env)
<1>1. Len(Play.cmds) \in Nat /\ DOMAIN Play.cmds = 1 .. Len(Play.cmds)
  BY PlaysKnown DEF Play
<1>2. cmd \in DOMAIN Play.cmds => IsCommand(Cmd)
  BY PlaysKnown DEF Play, Cmd
<1> QED
  BY <1>1, <1>2, SupEnvTyped DEF IsCommand

LEMMA PositionsStep == ASSUME PlaceInv, [PSNext]_psVars PROVE Positions'
<1>1. IsSetup(setup) /\ setup' = setup /\ play \in DOMAIN setup.plays
  BY SetupKnown, Frames DEF PlaceInv, PlaySetupTypeOK
<1>2. play' = play => Play' = Play
  BY <1>1 DEF Play
<1>3. Positions
  BY DEF PlaceInv
<1>4. Range(<<>>) = {}
  BY DEF Range
<1>5. CASE NextCommand
  <2>1. play' = play /\ cmd' = cmd /\ tasks' = <<>> /\ pc' = "create"
    BY <1>3, <1>5 DEF NextCommand, Positions
  <2>2. cmd \in DOMAIN Play.cmds
    BY <1>1, <1>3, <1>5, CmdKnown DEF NextCommand, Positions
  <2>3. PICK c : c = Cmd.parts /\ c \subseteq Part
    BY <1>1, <2>2, CmdKnown
  <2>4. PICK q \in Seq(Part) : q = <<"script", "local", "run">> /\ Range(q) = Part
    <3> DEFINE q == <<"script", "local", "run">>
    <3>1. q \in Seq(Part) /\ DOMAIN q = 1 .. 3
      BY DEF Part
    <3>2. q[1] = "script" /\ q[2] = "local" /\ q[3] = "run"
      OBVIOUS
    <3>3. \A i : i \in 1 .. 3 <=> i = 1 \/ i = 2 \/ i = 3
      OBVIOUS
    <3> HIDE DEF q
    <3>4. Range(q) = Part
      BY <3>1, <3>2, <3>3 DEF Part, Range
    <3> QED
      BY <3>1, <3>4 DEF q
  <2>5. Filtered(q, c) \in Seq(Part) /\ Range(Filtered(q, c)) = Range(q) \cap c
    BY FilteredKeeps
  <2>6. parts' \in Seq(Part) /\ Range(parts') = c
    BY <1>5, <2>3, <2>4, <2>5 DEF NextCommand
  <2>7. Cmd' = Cmd /\ (Range(tasks))' = {} /\ (Range(parts))' = c /\ <<>> \in Seq(Part)
    BY <1>2, <1>4, <2>1, <2>6 DEF Cmd, Range
  <2> QED
    BY <1>2, <1>3, <2>1, <2>2, <2>3, <2>6, <2>7 DEF Positions
<1>6. CASE CreateTask
  <2>1. /\ play' = play /\ cmd' = cmd /\ pc' \in {"create", "resolveCommand"} /\ pc = "create" /\ parts # <<>>
        /\ tasks' = Append(tasks, Head(parts)) /\ parts' = Tail(parts)
    BY <1>6 DEF CreateTask
  <2>2. parts \in Seq(Part) /\ tasks \in Seq(Part) /\ cmd \in DOMAIN Play.cmds /\ cmd \in Nat \ {0}
        /\ Range(tasks) \cup Range(parts) = Cmd.parts
    BY <1>3, <2>1 DEF Positions
  <2>3. /\ Head(parts) \in Part /\ Tail(parts) \in Seq(Part)
        /\ Range(parts) = {Head(parts)} \cup Range(Tail(parts))
    BY <2>1, <2>2, RangeHeadTail
  <2>4. Append(tasks, Head(parts)) \in Seq(Part) /\ Range(Append(tasks, Head(parts))) = Range(tasks) \cup {Head(parts)}
    BY <2>2, <2>3, RangeAppend
  <2>5. Cmd' = Cmd /\ (Range(tasks))' = Range(tasks) \cup {Head(parts)} /\ (Range(parts))' = Range(Tail(parts))
    BY <1>2, <2>1, <2>4 DEF Cmd, Range
  <2> QED
    BY <1>2, <2>1, <2>2, <2>3, <2>4, <2>5 DEF Positions
<1>7. CASE RunTask
  <2>1. UNCHANGED <<play, cmd, pc, parts>> /\ pc = "run" /\ tasks # <<>> /\ tasks' = Tail(tasks)
    BY <1>7 DEF RunTask
  <2>2. tasks \in Seq(Part) /\ cmd \in DOMAIN Play.cmds /\ Range(tasks) \subseteq Cmd.parts
    BY <1>3, <2>1 DEF Positions
  <2>3. Tail(tasks) \in Seq(Part) /\ Range(Tail(tasks)) \subseteq Range(tasks)
    BY <2>1, <2>2, RangeHeadTail
  <2>4. Cmd' = Cmd /\ (Range(tasks))' = Range(Tail(tasks))
    BY <1>2, <2>1 DEF Cmd, Range
  <2> QED
    BY <1>2, <1>3, <2>1, <2>2, <2>3, <2>4 DEF Positions
<1>8. CASE CommandDone
  <2>1. tasks' = <<>> /\ pc' = "command" /\ cmd' = cmd + 1 /\ parts' = parts
    BY <1>8 DEF CommandDone
  <2>2. cmd + 1 \in Nat \ {0} /\ <<>> \in Seq(Part) /\ parts \in Seq(Part)
    BY <1>3 DEF Positions
  <2> QED
    BY <2>1, <2>2 DEF Positions
<1>9. CASE PlayDone
  <2>1. UNCHANGED <<cmd, parts, tasks>> /\ pc' \in {"play", "ended"} /\ tasks = <<>>
    BY <1>3, <1>9 DEF PlayDone, Exit, Positions
  <2> QED
    BY <1>3, <2>1 DEF Positions
<1>10. CASE StartPlay
  <2>1. UNCHANGED <<parts, tasks>> /\ cmd' = 1 /\ pc' = "command" /\ tasks = <<>>
    BY <1>3, <1>10 DEF StartPlay, Positions
  <2> QED
    BY <1>3, <2>1 DEF Positions
<1>11. CASE TasksCreated
  <2>1. UNCHANGED <<play, cmd, tasks, parts>> /\ pc = "create" /\ pc' = "run"
    BY <1>11 DEF TasksCreated
  <2>2. Cmd' = Cmd /\ (Range(tasks))' = Range(tasks)
    BY <1>2, <2>1 DEF Cmd, Range
  <2> QED
    BY <1>2, <1>3, <2>1, <2>2 DEF Positions
<1>12. CASE CommandResolved
  <2>1. UNCHANGED <<play, cmd, tasks, parts>> /\ pc = "resolveCommand" /\ pc' = "create"
    BY <1>12 DEF CommandResolved
  <2>2. Cmd' = Cmd /\ (Range(tasks))' = Range(tasks) /\ (Range(parts))' = Range(parts)
    BY <1>2, <2>1 DEF Cmd, Range
  <2> QED
    BY <1>2, <1>3, <2>1, <2>2 DEF Positions
<1>13. CASE UNCHANGED <<play, cmd, parts, tasks, pc>>
  <2>1. Cmd' = Cmd /\ (Range(tasks))' = Range(tasks) /\ (Range(parts))' = Range(parts)
    BY <1>2, <1>13 DEF Cmd, Range
  <2> QED
    BY <1>2, <1>3, <1>13, <2>1 DEF Positions
<1>14. CASE UNCHANGED <<play, cmd, parts, tasks>> /\ pc \in {"args", "play", "merge", "resolve", "command"}
            /\ pc' \in {"play", "merge", "resolve", "ended"}
  BY <1>3, <1>14 DEF Positions
<1>15. CASE UNCHANGED <<play, cmd, parts, tasks>> /\ pc' = "ended"
  BY <1>3, <1>15 DEF Positions
<1>16. CASE \E k \in todo : ResolveKey(k) \/ ResolveFails(k)
  BY <1>13, <1>15, <1>16 DEF ResolveKey, ResolveFails, Exit
<1>17. CASE ReadArgs \/ FlagPanics \/ CheckInitialArgs \/ MergeVars
  BY <1>14, <1>17 DEF ReadArgs, FlagPanics, CheckInitialArgs, MergeVars, Exit
<1> QED
  BY <1>5, <1>6, <1>7, <1>8, <1>9, <1>10, <1>11, <1>12, <1>13, <1>16, <1>17 DEF PSNext, psVars, Ended

LEMMA ShellStep == ASSUME PlaceInv, [PSNext]_psVars PROVE ShellOnlyInRun' /\ ClientsKnown'
<1>1. IsSetup(setup) /\ setup' = setup /\ play \in DOMAIN setup.plays
  BY SetupKnown, Frames DEF PlaceInv, PlaySetupTypeOK
<1>2. play' = play /\ network' = network => Clients' = Clients
  BY <1>1 DEF Clients, Net, Object, Range
<1>3. ShellOnlyInRun /\ ClientsKnown
  BY DEF PlaceInv
<1>4. CASE RunTask
  <2>1. pc = "run" /\ UNCHANGED <<pc, play, network>>
    BY <1>4 DEF RunTask
  <2>2. clientEnv' = clientEnv \/ DOMAIN clientEnv' = Clients
    BY <1>4 DEF RunTask, EnvsAfter
  <2> QED
    BY <1>2, <1>3, <2>1, <2>2 DEF ShellOnlyInRun, ClientsKnown, Prepared
<1>5. CASE StartPlay
  <2>1. pc = "resolve" /\ pc' = "command" /\ UNCHANGED <<play, network, shell>> /\ DOMAIN clientEnv' = Clients
    BY <1>5 DEF StartPlay
  <2> QED
    BY <1>2, <1>3, <2>1 DEF ShellOnlyInRun, ClientsKnown
<1>6. CASE CommandDone
  <2>1. pc = "run" /\ shell' = NoShell /\ UNCHANGED <<play, network, clientEnv>>
    BY <1>6 DEF CommandDone
  <2> QED
    BY <1>2, <1>3, <2>1 DEF ShellOnlyInRun, ClientsKnown, Prepared
<1>7. CASE PlayDone
  <2>1. pc = "command" /\ pc' \in {"play", "ended"} /\ UNCHANGED shell
    BY <1>7 DEF PlayDone, Exit
  <2> QED
    BY <1>3, <2>1 DEF ShellOnlyInRun, ClientsKnown, Prepared
<1>8. CASE \E k \in todo : ResolveKey(k) \/ ResolveFails(k)
  <2>1. pc \in {"resolve", "resolveCommand"} /\ pc' \in {pc, "ended"} /\ UNCHANGED <<play, network, shell, clientEnv>>
    BY <1>8 DEF ResolveKey, ResolveFails, Resolving, Exit
  <2> QED
    BY <1>2, <1>3, <2>1 DEF ShellOnlyInRun, ClientsKnown, Prepared
<1>9. CASE NextCommand \/ CreateTask \/ CommandResolved \/ TasksCreated
  <2>1. UNCHANGED <<play, network, shell, clientEnv>> /\ Prepared /\ pc # "run"
    BY <1>9 DEF NextCommand, CreateTask, CommandResolved, TasksCreated, Prepared
  <2> QED
    BY <1>2, <1>3, <2>1 DEF ShellOnlyInRun, ClientsKnown
<1>10. CASE ReadArgs \/ FlagPanics \/ CheckInitialArgs \/ MergeVars
  <2>1. pc \in {"args", "play", "merge"} /\ pc' \in {"play", "merge", "resolve", "ended"} /\ UNCHANGED shell
    BY <1>10 DEF ReadArgs, FlagPanics, CheckInitialArgs, MergeVars, Exit
  <2> QED
    BY <1>3, <2>1 DEF ShellOnlyInRun, ClientsKnown, Prepared
<1>11. CASE UNCHANGED psVars
  BY <1>2, <1>3, <1>11 DEF psVars, ShellOnlyInRun, ClientsKnown, Prepared
<1> QED
  BY <1>4, <1>5, <1>6, <1>7, <1>8, <1>9, <1>10, <1>11 DEF PSNext, Ended

\* The variables of a play and of its clients, and what the exports give.
MapsTyped ==
    /\ IsEnvList(vars) /\ todo \subseteq DOMAIN vars /\ exported \in [Var -> Value]
    /\ \A n \in Network : IsEnvList(netEnv[n])
    /\ \A h \in DOMAIN clientEnv : IsEnvList(clientEnv[h])
    /\ shell.var \in Var /\ shell.sees \in Value

\* The keys of vars stay, and so do the values of the others.
LEMMA ResolveKeeps ==
    ASSUME IsEnvList(vars), todo \subseteq DOMAIN vars, exported \in [Var -> Value], NEW k \in todo, ResolveKey(k)
    PROVE  /\ k \in Key /\ vars[k] \in Value /\ DOMAIN vars' = DOMAIN vars
           /\ exported' \in [Var -> Value] /\ exported' = Exported(exported, k, vars[k])
           /\ Echoed(vars[k], exported') \in Value
           /\ vars'[k] = Echoed(vars[k], exported')
           /\ \A j \in DOMAIN vars \ {k} : vars'[j] = vars[j]
           /\ IsEnvList(vars') /\ todo' \subseteq DOMAIN vars'
<1>1. k \in Key /\ vars[k] \in Value /\ k \in DOMAIN vars
  BY DEF IsEnvList
<1>2. exported' = Exported(exported, k, vars[k])
  BY DEF ResolveKey
<1>3. exported' \in [Var -> Value]
  BY <1>1, <1>2, ExportedTyped
<1>4. Echoed(vars[k], exported') \in Value
  <2>1. PICK e : e = exported'
    OBVIOUS
  <2> QED
    BY <1>1, <1>3, <2>1, EchoedTyped
<1>5. vars' = [vars EXCEPT ![k] = Echoed(vars[k], exported')] /\ todo' = todo \ {k}
  BY DEF ResolveKey
<1>6. IsEnvList(vars')
  BY <1>1, <1>4, <1>5 DEF IsEnvList
<1> QED
  BY <1>1, <1>2, <1>3, <1>4, <1>5, <1>6

LEMMA FlagsReadStep == ASSUME PlaceInv, [PSNext]_psVars PROVE FlagsRead'
<1>1. setup' = setup
  BY Frames
<1>2. Malformed' <=> Malformed
  BY <1>1 DEF Malformed, Range
<1>3. pc \notin {"args", "ended"} \/ ReadArgs \/ pc' \in {"args", "ended"}
  <2>1. CASE \E k \in todo : ResolveKey(k) \/ ResolveFails(k)
    BY <2>1 DEF ResolveKey, ResolveFails, Resolving
  <2>2. CASE FlagPanics \/ UNCHANGED psVars
    BY <2>2 DEF FlagPanics, Exit, psVars
  <2>3. CASE CheckInitialArgs \/ MergeVars \/ StartPlay \/ NextCommand \/ CreateTask \/ CommandResolved
              \/ TasksCreated \/ RunTask \/ CommandDone \/ PlayDone
    BY <2>3 DEF CheckInitialArgs, MergeVars, StartPlay, NextCommand, CreateTask, CommandResolved,
                TasksCreated, RunTask, CommandDone, PlayDone
  <2> QED
    BY <2>1, <2>2, <2>3 DEF PSNext, Ended
<1> QED
  BY <1>2, <1>3 DEF PlaceInv, FlagsRead, ReadArgs

LEMMA WithTaskTyped ==
    ASSUME IsSetup(setup), IsEnvList(vars), HostsTyped, play \in DOMAIN setup.plays,
           NEW e, IsEnvList(e), NEW h \in Host, NEW part
    PROVE  IsEnvList(WithTask(e, h, part))
<1>1. IsEnvList(SetAll(e, vars))
  BY SetAllTyped
<1>2. Object(play) \in DOMAIN setup.plays
  BY ObjectKnown
<1>3. User(h) \in Lit \cup {""}
  BY <1>2, PlaySetupAssumption DEF User, Net, HostsTyped
<1>4. Lits(User(h)) \in Value /\ <<"SUP_USER">> \in Key
  BY <1>3, ValuesMade, KeyNamed, PlaySetupAssumption
<1>5. IsEnvList(Set(SetAll(e, vars), <<"SUP_USER">>, Lits(User(h))))
  BY <1>1, <1>4, SetTyped
<1> QED
  BY <1>1, <1>5 DEF WithTask

LEMMA HostEnvTyped ==
    ASSUME NEW h \in Host
    PROVE  IsEnvList(Set(NoEnv, <<"SUP_HOST">>, Lits(h)))
<1>1. h \in Lit /\ "SUP_HOST" \in Var
  BY PlaySetupAssumption
<1>2. Lits(h) \in Value /\ <<"SUP_HOST">> \in Key
  BY <1>1, ValuesMade, KeyNamed
<1>3. IsEnvList(NoEnv)
  BY DEF IsEnvList, NoEnv
<1> QED
  BY <1>2, <1>3, SetTyped

\* The maps of the clients of a task: those of the play, or one for "localhost".
LEMMA EnvsTyped ==
    ASSUME IsSetup(setup), PlaceInv, pc = "run", NEW part \in Part
    PROVE  /\ \A h \in DOMAIN EnvsAfter(part) : IsEnvList(EnvsAfter(part)[h])
           /\ part # "local" => DOMAIN EnvsAfter(part) = Clients
<1>1. IsEnvList(vars) /\ HostsTyped /\ play \in DOMAIN setup.plays /\ DOMAIN clientEnv = Clients
      /\ \A h \in DOMAIN clientEnv : IsEnvList(clientEnv[h])
  BY DEF PlaceInv, PlaySetupTypeOK, ClientsKnown, Prepared
<1>2. Clients \subseteq Host
  <2>1. PICK o \in DOMAIN setup.plays : o = Object(play)
    BY <1>1, ObjectKnown
  <2>2. network[o].hosts \in Seq(Host)
    BY <1>1, <2>1 DEF HostsTyped
  <2> QED
    BY <2>1, <2>2 DEF Clients, Net, Range
<1>3. CASE part = "local"
  <2>1. \A h \in DOMAIN EnvsAfter(part) : h = "localhost"
        /\ EnvsAfter(part)[h] = WithTask(Set(NoEnv, <<"SUP_HOST">>, Lits("localhost")), h, part)
    BY <1>3 DEF EnvsAfter
  <2>2. "localhost" \in Lit /\ "localhost" \in LocalHost
    BY PlaySetupAssumption
  <2>3. PICK e : e = Set(NoEnv, <<"SUP_HOST">>, Lits("localhost"))
    OBVIOUS
  <2>4. IsEnvList(e)
    <3>1. Lits("localhost") \in Value /\ <<"SUP_HOST">> \in Key
      BY <2>2, ValuesMade, KeyNamed, PlaySetupAssumption
    <3>2. IsEnvList(NoEnv)
      BY DEF IsEnvList, NoEnv
    <3> QED
      BY <2>3, <3>1, <3>2, SetTyped
  <2>5. IsEnvList(SetAll(e, vars))
    BY <1>1, <2>4, SetAllTyped
  <2> QED
    BY <1>3, <2>1, <2>2, <2>3, <2>5 DEF WithTask
<1>4. CASE part # "local"
  <2>1. DOMAIN EnvsAfter(part) = Clients
        /\ \A h \in Clients : EnvsAfter(part)[h] = WithTask(clientEnv[h], h, part)
    BY <1>4 DEF EnvsAfter
  <2> QED
    BY <1>1, <1>2, <2>1, WithTaskTyped
<1> QED
  BY <1>3, <1>4

LEMMA NetEnvTyped ==
    ASSUME IsSetup(setup), NEW e, IsEnvList(e), NEW n
    PROVE  IsEnvList(Set(SetAll(e, FlagKeys), <<"SUP_NETWORK">>, Lits(DefaultNetwork(n))))
<1>1. IsEnvList(SetAll(e, FlagKeys))
  BY FlagKeysTyped, SetAllTyped
<1>2. Lits(DefaultNetwork(n)) \in Value /\ <<"SUP_NETWORK">> \in Key
  BY ValuesMade, KeyNamed, PlaySetupAssumption DEF IsSetup, DefaultNetwork
<1> QED
  BY <1>1, <1>2, SetTyped

LEMMA MapsStep == ASSUME PlaceInv, [PSNext]_psVars PROVE MapsTyped'
<1>1. IsSetup(setup) /\ setup' = setup /\ play \in DOMAIN setup.plays
  BY SetupKnown, Frames DEF PlaceInv, PlaySetupTypeOK
<1>2. MapsTyped /\ FlagsRead /\ Positions
  BY DEF PlaceInv, PlaySetupTypeOK, MapsTyped
<1>3. CASE ReadArgs
  <2>1. \A n \in Network : IsEnvList(netEnv'[n])
    BY <1>1, <1>2, <1>3, NetEnvTyped DEF ReadArgs, MapsTyped
  <2> QED
    BY <1>2, <1>3, <2>1 DEF ReadArgs, MapsTyped
<1>4. CASE MergeVars
  <2>1. IsEnvList(Merged)
    <3>1. IsEnvList(setup.conf) /\ IsEnvList(netEnv[Play.network])
      BY <1>1, <1>2, SupEnvTyped, PlaysKnown DEF IsSetup, MapsTyped, Play
    <3> QED
      BY <3>1, SetAllTyped DEF Merged
  <2> QED
    BY <1>2, <1>4, <2>1, OsEnvTyped DEF MergeVars, StartResolving, MapsTyped
<1>5. ASSUME NEW k \in todo, ResolveKey(k) PROVE MapsTyped'
  BY <1>2, <1>5, ResolveKeeps DEF ResolveKey, MapsTyped
<1>6. CASE StartPlay
  <2>1. ~Malformed
    BY <1>2, <1>6 DEF StartPlay, FlagsRead
  <2>2. IsEnvList(WithFlags(vars)) /\ todo = {}
    BY <1>1, <1>2, <1>6, <2>1, WithFlagsTyped DEF MapsTyped, StartPlay
  <2>3. Clients \subseteq Host
    <3>1. PICK o \in DOMAIN setup.plays : o = Object(play)
      BY <1>1, ObjectKnown
    <3>2. network[o].hosts \in Seq(Host)
      BY <3>1 DEF HostsTyped, PlaceInv
    <3> QED
      BY <3>1, <3>2 DEF Clients, Net, Range
  <2>4. \A h \in DOMAIN clientEnv' : IsEnvList(clientEnv'[h])
    BY <1>6, <2>3, HostEnvTyped DEF StartPlay
  <2> QED
    BY <1>2, <1>6, <2>2, <2>4 DEF StartPlay, MapsTyped
<1>7. CASE CreateTask
  <2>1. CASE UNCHANGED <<vars, todo, exported>>
    BY <1>2, <1>7, <2>1 DEF CreateTask, MapsTyped
  <2>2. CASE StartResolving(SetAll(vars, Cmd.env))
    <3>1. IsEnvList(Cmd.env)
      BY <1>1, <1>2, <1>7, CmdKnown DEF CreateTask, Positions
    <3>2. IsEnvList(SetAll(vars, Cmd.env))
      BY <1>2, <3>1, SetAllTyped DEF MapsTyped
    <3> QED
      BY <1>2, <1>7, <2>2, <3>2, OsEnvTyped DEF CreateTask, StartResolving, MapsTyped
  <2> QED
    BY <1>7, <2>1, <2>2 DEF CreateTask
<1>8. CASE RunTask
  <2>1. PICK part \in Part : part = Head(tasks)
    BY <1>2, <1>8, RangeHeadTail DEF RunTask, Positions
  <2>2. \A h \in DOMAIN EnvsAfter(part) : IsEnvList(EnvsAfter(part)[h])
    BY <1>1, <1>8, <2>1, EnvsTyped DEF RunTask
  <2>3. PICK h \in DOMAIN EnvsAfter(part), v \in Var : \E x \in Sees(EnvsAfter(part)[h], h, v) :
            shell' = [client |-> h, part |-> part, var |-> v, sees |-> x]
    BY <1>8, <2>1 DEF RunTask
  <2>4. shell'.var \in Var /\ shell'.sees \in Value
    <3>1. PICK e : e = EnvsAfter(part)[h] /\ IsEnvList(e)
      BY <2>2
    <3>2. PICK x \in Sees(e, h, v) : shell' = [client |-> h, part |-> part, var |-> v, sees |-> x]
      BY <2>3, <3>1
    <3>3. x \in Value
      BY <3>1, SeesTyped
    <3> QED
      BY <3>2, <3>3
  <2>5. \A c \in DOMAIN clientEnv' : IsEnvList(clientEnv'[c])
    BY <1>2, <1>8, <2>1, <2>2 DEF RunTask, MapsTyped
  <2> QED
    BY <1>2, <1>8, <2>4, <2>5 DEF RunTask, MapsTyped
<1>9. CASE CommandDone
  <2>1. NoShell.var \in Var /\ NoShell.sees \in Value
    BY ValuesMade, PlaySetupAssumption DEF NoShell
  <2> QED
    BY <1>2, <1>9, <2>1 DEF CommandDone, MapsTyped
<1>10. CASE UNCHANGED <<vars, todo, exported, netEnv, clientEnv, shell>>
  BY <1>2, <1>10 DEF MapsTyped
<1> QED
  BY <1>3, <1>4, <1>5, <1>6, <1>7, <1>8, <1>9, <1>10, Frames

LEMMA PlaceStep == ASSUME PlaceInv, [PSNext]_psVars PROVE PlaceInv'
<1>1. IsSetup(setup) /\ setup' = setup /\ setup \in Setups /\ play \in DOMAIN setup.plays
  BY SetupKnown, Frames DEF PlaceInv, PlaySetupTypeOK
<1>2. play' \in DOMAIN setup.plays
  <2>1. CASE PlayDone
    <3>1. play \in 1 .. Len(setup.plays) /\ Len(setup.plays) \in Nat /\ DOMAIN setup.plays = 1 .. Len(setup.plays)
      BY <1>1, PlaysKnown
    <3>2. play' = play \/ (play # Len(setup.plays) /\ play' = play + 1)
      BY <2>1 DEF PlayDone
    <3> QED
      BY <3>1, <3>2
  <2> QED
    BY <1>1, <2>1, Frames
<1>4. late' \subseteq Key
  <2>1. todo \subseteq Key /\ late \subseteq Key
    BY DEF PlaceInv, PlaySetupTypeOK, IsEnvList
  <2>2. CASE MergeVars
    BY <2>2 DEF MergeVars
  <2>3. ASSUME NEW k \in todo, ResolveKey(k) PROVE late' \subseteq Key
    BY <2>1, <2>3 DEF ResolveKey
  <2> QED
    BY <2>1, <2>2, <2>3, Frames
<1>3. PlaySetupTypeOK'
  BY <1>1, <1>2, <1>4, MapsStep, Flow DEF PlaySetupTypeOK, MapsTyped, PlaceInv
<1> QED
  BY <1>3, HostsTypedStep, PositionsStep, ShellStep, FlagsReadStep DEF PlaceInv

----------------------------------------------------------------------------
(* the hosts of a play *)

\* What two sequences one after the other have.
LEMMA RangeConcat ==
    ASSUME NEW X, NEW p \in Seq(X), NEW q \in Seq(X)
    PROVE  Range(p \o q) = Range(p) \cup Range(q) /\ Len(p \o q) = Len(p) + Len(q)
<1>1. Len(p \o q) = Len(p) + Len(q) /\ p \o q \in Seq(X) /\ Len(p) \in Nat /\ Len(q) \in Nat
  OBVIOUS
<1>2. \A i \in 1 .. Len(p) + Len(q) : (p \o q)[i] = IF i <= Len(p) THEN p[i] ELSE q[i - Len(p)]
  OBVIOUS
<1>3. ASSUME NEW i \in 1 .. Len(p) PROVE p[i] \in Range(p \o q)
  <2>1. i \in 1 .. Len(p) + Len(q) /\ i <= Len(p)
    BY <1>1
  <2> QED
    BY <1>1, <1>2, <2>1 DEF Range
<1>4. ASSUME NEW i \in 1 .. Len(q) PROVE q[i] \in Range(p \o q)
  <2>1. i + Len(p) \in 1 .. Len(p) + Len(q) /\ ~(i + Len(p) <= Len(p)) /\ (i + Len(p)) - Len(p) = i
    BY <1>1
  <2>2. (p \o q)[i + Len(p)] = q[i]
    BY <1>2, <2>1
  <2> QED
    BY <1>1, <2>1, <2>2 DEF Range
<1>5. ASSUME NEW i \in 1 .. Len(p) + Len(q) PROVE (p \o q)[i] \in Range(p) \cup Range(q)
  <2>1. CASE i <= Len(p)
    BY <1>1, <1>2, <2>1 DEF Range
  <2>2. CASE ~(i <= Len(p))
    <3>1. i - Len(p) \in 1 .. Len(q)
      BY <1>1, <2>2
    <3> QED
      BY <1>2, <2>2, <3>1 DEF Range
  <2> QED
    BY <2>1, <2>2
<1>6. Range(p \o q) = Range(p) \cup Range(q)
  <2>1. DOMAIN p = 1 .. Len(p) /\ DOMAIN q = 1 .. Len(q) /\ DOMAIN (p \o q) = 1 .. Len(p) + Len(q)
    BY <1>1
  <2>2. Range(p) \subseteq Range(p \o q)
    BY <1>3, <2>1 DEF Range
  <2>3. Range(q) \subseteq Range(p \o q)
    BY <1>4, <2>1 DEF Range
  <2>4. Range(p \o q) \subseteq Range(p) \cup Range(q)
    BY <1>5, <2>1 DEF Range
  <2> QED
    BY <2>2, <2>3, <2>4
<1> QED
  BY <1>1, <1>6

\* What CheckInitialArgs makes of a sequence of hosts.
Checked(hosts, new) ==
    LET asked == (Range(hosts) \cap setup.only) \ setup.except IN
    /\ asked # {} /\ Range(new) = asked \cup Sent(asked)
    /\ Len(new) = Cardinality(Places(hosts, asked))
                  + Cardinality(Places(hosts, asked \cap DOMAIN setup.sshconfig))

LEMMA CheckGives ==
    ASSUME PlaceInv, CheckInitialArgs, pc' # "ended"
    PROVE  /\ pc' = "merge" /\ UNCHANGED <<setup, play>>
           /\ Object(play) \in DOMAIN setup.plays
           /\ \E r : /\ Checked(Net.hosts, r.hosts)
                     /\ network' = [network EXCEPT ![Object(play)] = r]
<1>1. IsSetup(setup) /\ play \in DOMAIN setup.plays /\ Object(play) \in DOMAIN setup.plays
  BY SetupKnown, ObjectKnown DEF PlaceInv, PlaySetupTypeOK
<1>2. PICK s \in Seq(Host) : s = Net.hosts
  BY <1>1 DEF PlaceInv, HostsTyped, Net
<1>3. PICK o \in Seq(Host) : o = Only /\ o = Filtered(s, setup.only)
  BY <1>2, FilteredKeeps DEF Only
<1>4. PICK f \in Seq(Host) : f = Except /\ f = Filtered(o, Host \ setup.except)
  BY <1>3, FilteredKeeps DEF Except
<1>5. PICK a \in Seq(Host) : a = Aliases /\ a = Filtered(f, DOMAIN setup.sshconfig)
  BY <1>4, FilteredKeeps DEF Aliases
<1> DEFINE asked == (Range(s) \cap setup.only) \ setup.except
           g == [i \in DOMAIN a |-> setup.sshconfig[a[i]].to]
<1>6. Range(s) \subseteq Host
  BY DEF Range
<1>7. Range(f) = asked
  <2>1. Range(o) = Range(s) \cap setup.only
    BY <1>3, FilteredKeeps
  <2>2. Range(f) = Range(o) \cap (Host \ setup.except)
    BY <1>4, FilteredKeeps
  <2> QED
    BY <1>6, <2>1, <2>2
<1>8. Range(a) = asked \cap DOMAIN setup.sshconfig
  BY <1>5, <1>7, FilteredKeeps
<1>9. g \in Seq(Host) /\ Len(g) = Len(a) /\ Range(g) = Sent(asked)
  <2>1. PICK m \in Nat : DOMAIN a = 1 .. m /\ Len(a) = m
    OBVIOUS
  <2>2. \A i \in DOMAIN a : setup.sshconfig[a[i]].to \in Host
    BY <1>1, <1>8 DEF IsSetup, IsSshConfig, Range
  <2>3. g \in [1 .. m -> Host]
    BY <2>1, <2>2
  <2>4. g \in Seq(Host) /\ Len(g) = m
    BY <2>1, <2>3, SeqDef, LenProperties
  <2>5. Range(g) = {setup.sshconfig[x].to : x \in Range(a)}
    BY DEF Range
  <2> QED
    BY <1>8, <2>1, <2>4, <2>5 DEF Sent
<1>10. Len(f) = Cardinality(Places(s, asked))
  <2>1. Cardinality(Places(o, Host \ setup.except)) = Cardinality(Places(s, setup.only \cap (Host \ setup.except)))
    BY <1>3, FilteredKeeps
  <2>2. Places(s, setup.only \cap (Host \ setup.except)) = Places(s, asked)
    BY <1>6 DEF Places, Range
  <2> QED
    BY <1>4, <2>1, <2>2, FilteredLen
<1>11. Len(a) = Cardinality(Places(s, asked \cap DOMAIN setup.sshconfig))
  <2> DEFINE D == DOMAIN setup.sshconfig
  <2>1. Len(a) = Cardinality(Places(f, D))
    BY <1>5, FilteredLen
  <2>2. Cardinality(Places(f, D)) = Cardinality(Places(o, (Host \ setup.except) \cap D))
    BY <1>4, FilteredKeeps
  <2>3. Cardinality(Places(o, (Host \ setup.except) \cap D))
            = Cardinality(Places(s, setup.only \cap ((Host \ setup.except) \cap D)))
    BY <1>3, FilteredKeeps
  <2>4. Places(s, setup.only \cap ((Host \ setup.except) \cap D)) = Places(s, asked \cap D)
    BY <1>6 DEF Places, Range
  <2> QED
    BY <2>1, <2>2, <2>3, <2>4
<1>12. Except # <<>> /\ pc' = "merge"
  BY DEF CheckInitialArgs, Exit
<1>13. Checked(s, f \o g)
  <2>1. asked # {}
    <3>1. f # <<>> => f[1] \in Range(f)
      BY EmptySeq DEF Range
    <3> QED
      BY <1>4, <1>7, <1>12, <3>1
  <2>2. Range(f \o g) = Range(f) \cup Range(g) /\ Len(f \o g) = Len(f) + Len(g)
    BY <1>9, RangeConcat
  <2> HIDE DEF g
  <2> QED
    BY <1>7, <1>9, <1>10, <1>11, <2>1, <2>2 DEF Checked
<1>14. PICK r : /\ r.hosts = f \o g
               /\ network' = [network EXCEPT ![Object(play)] = r]
  <2> DEFINE r == [hosts |-> f \o g,
                   user |-> IF a = <<>> THEN Net.user ELSE setup.sshconfig[a[Len(a)]].user]
  <2>1. network' = [network EXCEPT ![Object(play)] = r]
    BY <1>4, <1>5, <1>12 DEF CheckInitialArgs, Exit, Net
  <2>2. r.hosts = f \o g
    OBVIOUS
  <2> QED
    BY <2>1, <2>2
<1>15. UNCHANGED <<setup, play>>
  BY DEF CheckInitialArgs
<1>16. Checked(Net.hosts, r.hosts)
  <2> HIDE DEF g
  <2> QED
    BY <1>2, <1>13, <1>14
<1> QED
  BY <1>1, <1>12, <1>14, <1>15, <1>16

\* The steps that leave a play's hosts alone.
LEMMA HostsStay ==
    ASSUME PlaceInv, [PSNext]_psVars, ~(CheckInitialArgs /\ pc' # "ended"), ~(PlayDone /\ pc' # "ended")
    PROVE  /\ UNCHANGED <<setup, play, network>>
           /\ \/ pc' = "ended"
              \/ pc \in {"args", "play"} /\ pc' \in {"args", "play"} /\ (pc = "play" => pc' = "play")
              \/ Underway /\ Underway'
<1>1. CASE \E k \in todo : ResolveKey(k) \/ ResolveFails(k)
  BY <1>1 DEF ResolveKey, ResolveFails, Resolving, Underway, Exit
<1>2. CASE CheckInitialArgs /\ pc' = "ended"
  BY <1>2 DEF CheckInitialArgs, Exit
<1>3. CASE PlayDone /\ pc' = "ended"
  BY <1>3 DEF PlayDone, Exit
<1>4. CASE ReadArgs \/ FlagPanics \/ MergeVars \/ StartPlay \/ NextCommand \/ CreateTask \/ CommandResolved
            \/ TasksCreated \/ RunTask \/ CommandDone
  BY <1>4 DEF ReadArgs, FlagPanics, MergeVars, StartPlay, NextCommand, CreateTask, CommandResolved,
              TasksCreated, RunTask, CommandDone, Underway, Exit
<1>5. CASE UNCHANGED psVars
  BY <1>5 DEF psVars, Underway, PlaceInv, PlaySetupTypeOK
<1> QED
  BY <1>1, <1>2, <1>3, <1>4, <1>5 DEF PSNext, Ended

LEMMA HostsStep == ASSUME PlaceInv, HostsInv, [PSNext]_psVars PROVE HostsInv'
<1>1. /\ IsSetup(setup) /\ setup' = setup /\ play \in DOMAIN setup.plays
      /\ DOMAIN setup.plays = 1 .. Len(setup.plays) /\ Len(setup.plays) \in Nat \ {0}
  BY SetupKnown, Frames, PlaysKnown DEF PlaceInv, PlaySetupTypeOK
<1>2. \A S : (Sent(S))' = Sent(S)
  BY <1>1 DEF Sent
<1>3. CASE ~(CheckInitialArgs /\ pc' # "ended") /\ ~(PlayDone /\ pc' # "ended")
  <2>0. UNCHANGED <<play, network>>
    BY <1>3, HostsStay
  <2>1. /\ (\A p \in DOMAIN setup.plays : Raw(p)' <=> Raw(p))
        /\ (FilteredOnce' <=> FilteredOnce) /\ (FilteredAgain' <=> FilteredAgain)
    BY <1>1, <2>0 DEF Raw, FilteredOnce, FilteredAgain, Asked, Sent, Chained, Clients, Net, Object, Play, Range, Places
  <2>2. CASE pc' = "ended"
    BY <1>1, <2>0, <2>1, <2>2 DEF HostsInv, Underway
  <2>3. CASE pc \in {"args", "play"} /\ pc' \in {"args", "play"} /\ (pc = "play" => pc' = "play")
    BY <1>1, <2>0, <2>1, <2>3 DEF HostsInv, Underway
  <2>4. CASE Underway /\ Underway'
    BY <1>1, <2>0, <2>1, <2>4 DEF HostsInv, Underway
  <2> QED
    BY <1>3, <2>2, <2>3, <2>4, HostsStay
<1>4. CASE CheckInitialArgs /\ pc' # "ended"
  <2>1. pc = "play" /\ pc' = "merge" /\ play' = play /\ Object(play) \in DOMAIN setup.plays
    BY <1>4, CheckGives DEF CheckInitialArgs
  <2>2. PICK r : Checked(Net.hosts, r.hosts) /\ network' = [network EXCEPT ![Object(play)] = r]
    BY <1>4, CheckGives
  <2>3. /\ network'[Object(play)] = r
        /\ \A p \in DOMAIN setup.plays \ {Object(play)} : network'[p] = network[p]
    BY <2>1, <2>2 DEF PlaceInv, HostsTyped
  <2>4. Object(play)' = Object(play) /\ Net' = r /\ Asked(play)' = Asked(play) /\ Clients' = Range(r.hosts)
        /\ Play' = Play /\ (Chained' <=> Chained)
    BY <1>1, <1>2, <2>1, <2>3 DEF Object, Net, Asked, Clients, Play, Chained, Range
  <2>5. CASE ~setup.makefile
    <3>1. Object(play) = play /\ Raw(play)
      BY <1>1, <2>1, <2>5 DEF Object, HostsInv
    <3>2. Net.hosts = NetHosts[Play.network]
      BY <3>1 DEF Raw, Net, Play
    <3>3. Checked(NetHosts[Play.network], r.hosts)
      BY <2>2, <3>2
    <3>4. FilteredOnce'
      BY <1>1, <1>2, <2>4, <3>3 DEF FilteredOnce, Checked, Asked, Play, Places
    <3>5. \A p \in DOMAIN setup.plays : p > play => Raw(p)'
      BY <1>1, <2>3, <2>5, <3>1 DEF HostsInv, Raw
    <3> QED
      BY <1>1, <2>1, <2>5, <3>4, <3>5 DEF HostsInv
  <2>6. CASE setup.makefile
    <3> DEFINE A == Asked(play)
               D == DOMAIN setup.sshconfig
               got == (Range(Net.hosts) \cap setup.only) \ setup.except
    <3>1. got # {} /\ Range(r.hosts) = got \cup Sent(got)
      BY <2>2 DEF Checked
    <3>2. A # {} /\ A \subseteq got /\ got \cup Sent(got) \subseteq A \cup Sent(Host)
          /\ (~Chained => got \cup Sent(got) = A \cup Sent(A))
      <4>1. CASE play = 1
        <5>1. Net.hosts = NetHosts[Play.network]
          BY <2>1, <2>6, <4>1 DEF HostsInv, Raw, Net, Object, Play
        <5>2. got = A
          BY <5>1 DEF Asked, Play
        <5>3. Sent(A) \subseteq Sent(Host)
          BY <1>1 DEF Sent, IsSetup, IsSshConfig
        <5> QED
          BY <3>1, <5>2, <5>3
      <4>2. CASE play # 1
        <5>1. FilteredAgain
          BY <2>1, <2>6, <4>2 DEF HostsInv
        <5>2. A # {} /\ A \subseteq Range(Net.hosts) /\ Range(Net.hosts) \subseteq A \cup Sent(Host)
              /\ (~Chained => Range(Net.hosts) = A \cup Sent(A))
          BY <5>1 DEF FilteredAgain, Clients
        <5>3. A \subseteq got
          BY <5>2 DEF Asked
        <5>4. Sent(got) \subseteq Sent(Host)
          BY <1>1 DEF Sent, IsSetup, IsSshConfig
        <5>5. ~Chained => got \cap D = A \cap D
          BY <5>2, <5>3 DEF Chained
        <5>6. ~Chained => Sent(got) = Sent(A)
          BY <5>5 DEF Sent
        <5> QED
          BY <5>2, <5>3, <5>4, <5>6
      <4> QED
        BY <4>1, <4>2
    <3>3. FilteredAgain'
      BY <1>2, <2>4, <3>1, <3>2 DEF FilteredAgain
    <3> QED
      BY <1>1, <2>1, <2>6, <3>3 DEF HostsInv
  <2> QED
    BY <2>5, <2>6
<1>5. CASE PlayDone /\ pc' # "ended"
  <2>1. pc = "command" /\ pc' = "play" /\ play' = play + 1 /\ play # Len(setup.plays) /\ UNCHANGED network
    BY <1>5 DEF PlayDone, Exit
  <2>2. play + 1 \in DOMAIN setup.plays /\ play + 1 # 1
    BY <1>1, <2>1
  <2>3. \A p \in DOMAIN setup.plays : Raw(p)' <=> Raw(p)
    BY <1>1, <2>1 DEF Raw
  <2>4. CASE ~setup.makefile
    <3>1. \A p \in DOMAIN setup.plays : p > play + 1 \/ p = play + 1 => Raw(p)
      BY <1>1, <2>4 DEF HostsInv
    <3> QED
      BY <1>1, <2>1, <2>3, <2>4, <3>1 DEF HostsInv, Underway
  <2>5. CASE setup.makefile
    <3>1. FilteredAgain
      BY <1>1, <2>1, <2>5 DEF HostsInv
    <3>2. setup.plays[play + 1].network = setup.plays[play].network
      BY <1>1, <2>2, <2>5 DEF IsSetup
    <3>3. Asked(play)' = Asked(play) /\ Clients' = Clients /\ (Chained' <=> Chained)
      BY <1>1, <1>2, <2>1, <2>5, <3>2 DEF Asked, Clients, Net, Object, Chained, Range
    <3>4. FilteredAgain'
      BY <1>2, <3>1, <3>3 DEF FilteredAgain
    <3> QED
      BY <1>1, <2>1, <2>2, <2>5, <3>4 DEF HostsInv
  <2> QED
    BY <2>4, <2>5
<1> QED
  BY <1>3, <1>4, <1>5

LEMMA HostsInit == PSInit => HostsInv
<1> SUFFICES ASSUME PSInit PROVE HostsInv
  OBVIOUS
<1>1. IsSetup(setup)
  BY SetupKnown DEF PSInit
<1>2. \A p \in DOMAIN setup.plays : Raw(p)
  BY DEF PSInit, Raw
<1>3. 1 \in DOMAIN setup.plays
  BY <1>1, PlaysKnown
<1>4. play = 1 /\ pc = "args"
  BY DEF PSInit
<1> QED
  BY <1>2, <1>3, <1>4 DEF HostsInv, Underway

LEMMA HostsMeant == ASSUME PlaceInv, HostsInv PROVE HostsAsFiltered
<1>1. IsSetup(setup) /\ play \in DOMAIN setup.plays
  BY SetupKnown DEF PlaceInv, PlaySetupTypeOK
<1> SUFFICES ASSUME Underway PROVE HostsAsFiltered
  BY DEF HostsAsFiltered
<1> DEFINE A == Asked(play)
           D == DOMAIN setup.sshconfig
<1>2. A = (Range(NetHosts[Play.network]) \cap setup.only) \ setup.except
  BY DEF Asked, Play
<1>3. /\ Sent(A) = {setup.sshconfig[a].to : a \in A \cap D}
      /\ Sent(A) \subseteq {setup.sshconfig[a].to : a \in D}
      /\ Sent(Host) \subseteq {setup.sshconfig[a].to : a \in D}
  BY DEF Sent
<1>4. CASE ~setup.makefile
  <2>1. FilteredOnce
    BY <1>4 DEF HostsInv
  <2>2. /\ A # {} /\ A \subseteq Clients /\ Clients = A \cup Sent(A)
        /\ Len(Net.hosts) = Cardinality(Places(NetHosts[Play.network], A))
                             + Cardinality(Places(NetHosts[Play.network], A \cap D))
    BY <2>1 DEF FilteredOnce
  <2> HIDE DEF A, D
  <2> QED
    BY <1>2, <1>3, <1>4, <2>2 DEF HostsAsFiltered, D
<1>5. CASE setup.makefile
  <2>1. FilteredAgain
    BY <1>5 DEF HostsInv, Underway
  <2>2. /\ A # {} /\ A \subseteq Clients /\ Clients \subseteq A \cup Sent(Host)
        /\ Sent(A) \cap D = {} => Clients = A \cup Sent(A)
    BY <2>1 DEF FilteredAgain, Chained
  <2> HIDE DEF A, D
  <2> QED
    BY <1>2, <1>3, <1>5, <2>2 DEF HostsAsFiltered, D
<1> QED
  BY <1>4, <1>5

----------------------------------------------------------------------------
(* the variables of a play *)

LEMMA NetEnvStep == ASSUME PlaceInv, NetEnvRead, [PSNext]_psVars PROVE NetEnvRead'
<1>1. IsSetup(setup) /\ setup' = setup
  BY SetupKnown, Frames DEF PlaceInv, PlaySetupTypeOK
<1>2. \A m : (NetworkEnv(m))' = NetworkEnv(m)
  BY <1>1 DEF NetworkEnv, FlagKeys, Range, DefaultNetwork
<1>3. CASE ReadArgs
  <2>1. pc = "args" /\ pc' = "play" /\ netEnv = setup.netEnv
    BY <1>3 DEF ReadArgs, NetEnvRead
  <2>2. ASSUME NEW i \in DOMAIN setup.plays
        PROVE  netEnv'[setup.plays[i].network] = NetworkEnv(setup.plays[i].network)
    <3>1. setup.plays[i] \in Range(setup.plays) /\ setup.plays[i].network \in Network
      BY <1>1, PlaysKnown DEF Range
    <3> QED
      BY <1>3, <2>1, <3>1 DEF ReadArgs, NetworkEnv
  <2> QED
    BY <1>1, <1>2, <2>1, <2>2 DEF NetEnvRead
<1>4. CASE ~ReadArgs
  <2>1. netEnv' = netEnv
    BY <1>4, Frames
  <2>2. pc' = "args" => pc = "args"
    <3>1. CASE \E k \in todo : ResolveKey(k) \/ ResolveFails(k)
      BY <3>1 DEF ResolveKey, ResolveFails, Exit
    <3>2. CASE FlagPanics \/ UNCHANGED psVars
      BY <3>2 DEF FlagPanics, Exit, psVars
    <3>3. CASE CheckInitialArgs \/ MergeVars \/ StartPlay \/ NextCommand \/ CreateTask \/ CommandResolved
              \/ TasksCreated \/ RunTask \/ CommandDone \/ PlayDone
      BY <3>3 DEF CheckInitialArgs, MergeVars, StartPlay, NextCommand, CreateTask, CommandResolved,
                  TasksCreated, RunTask, CommandDone, PlayDone, Exit
    <3> QED
      BY <1>4, <3>1, <3>2, <3>3 DEF PSNext, Ended
  <2>3. pc' \notin {"args", "ended"} => pc \notin {"args", "ended"}
    <3>1. CASE \E k \in todo : ResolveKey(k) \/ ResolveFails(k)
      BY <3>1 DEF ResolveKey, ResolveFails, Resolving
    <3>2. CASE FlagPanics \/ UNCHANGED psVars
      BY <3>2 DEF FlagPanics, Exit, psVars
    <3>3. CASE CheckInitialArgs \/ MergeVars \/ StartPlay \/ NextCommand \/ CreateTask \/ CommandResolved
              \/ TasksCreated \/ RunTask \/ CommandDone \/ PlayDone
      BY <3>3 DEF CheckInitialArgs, MergeVars, StartPlay, NextCommand, CreateTask, CommandResolved,
                  TasksCreated, RunTask, CommandDone, PlayDone
    <3> QED
      BY <1>4, <3>1, <3>2, <3>3 DEF PSNext, Ended
  <2> QED
    BY <1>1, <1>2, <2>1, <2>2, <2>3 DEF NetEnvRead
<1> QED
  BY <1>3, <1>4

LEMMA PlayValueTyped ==
    ASSUME IsSetup(setup), play \in DOMAIN setup.plays, NEW v \in Var
    PROVE  PlayValue(v) \in Value /\ (InSupfile(v) \/ PlayValue(v).kind = "text")
<1>1. Play.network \in Network
  BY PlaysKnown DEF Play
<1>2. IsEnvList(setup.conf) /\ IsEnvList(setup.netEnv[Play.network])
  BY <1>1, SupEnvTyped DEF IsSetup
<1>3. Lits(DefaultNetwork(Play.network)) \in Value /\ Lits("") \in Value /\ Lits("").kind = "text"
  BY ValuesMade, PlaySetupAssumption DEF IsSetup, DefaultNetwork
<1>4. CASE v = "SUP_NETWORK"
  BY <1>3, <1>4 DEF PlayValue, InSupfile
<1>5. CASE v # "SUP_NETWORK" /\ <<v>> \in DOMAIN setup.netEnv[Play.network]
  BY <1>2, <1>5 DEF PlayValue, InSupfile, IsEnvList
<1>6. CASE v # "SUP_NETWORK" /\ <<v>> \notin DOMAIN setup.netEnv[Play.network]
  BY <1>2, <1>3, <1>6 DEF PlayValue, InSupfile, IsEnvList
<1> QED
  BY <1>4, <1>5, <1>6

LEMMA SupKeys ==
    ASSUME NEW e, IsSupEnv(e)
    PROVE  \A k \in DOMAIN e : k \in Key /\ Len(k) = 1
  BY KeyNamed DEF IsSupEnv

\* Before a play the variables are those of the Supfile, besides the names "v=l".
LEMMA MergedGives ==
    ASSUME IsSetup(setup), ~Malformed, play \in DOMAIN setup.plays,
           netEnv[Play.network] = NetworkEnv(Play.network)
    PROVE  /\ OddFromFlags(Merged)
           /\ \A v \in Var : <<v>> \in DOMAIN Merged <=> InSupfile(v)
           /\ \A v \in Var : InSupfile(v) => Merged[<<v>>] = PlayValue(v)
<1>1. PICK w : w = setup.netEnv[Play.network] /\ IsSupEnv(w)
  <2>1. Play.network \in Network
    BY PlaysKnown DEF Play
  <2> QED
    BY <2>1 DEF IsSetup
<1>2. PICK c : c = setup.conf /\ IsSupEnv(c)
  BY DEF IsSetup
<1>3. PICK f : f = FlagKeys
  OBVIOUS
<1>4. DOMAIN f = Range(setup.flags) /\ \A k \in DOMAIN f : Len(k) = 2
  BY <1>3, FlagsGive DEF FlagKeys
<1>5. PICK u : u = SetAll(w, f)
  OBVIOUS
<1>6. PICK e : e = Set(u, <<"SUP_NETWORK">>, Lits(DefaultNetwork(Play.network)))
  OBVIOUS
<1>7. netEnv[Play.network] = e /\ Merged = SetAll(c, e)
  BY <1>1, <1>2, <1>3, <1>5, <1>6 DEF NetworkEnv, Merged
<1>8. ASSUME NEW v \in Var PROVE <<v>> \notin DOMAIN f
  <2>1. PICK k : k = <<v>> /\ Len(k) = 1
    BY KeyNamed
  <2> QED
    BY <1>4, <2>1
<1>9. DOMAIN u = DOMAIN w \cup DOMAIN f /\ \A k \in DOMAIN w \ DOMAIN f : u[k] = w[k]
  BY <1>5, SetAllGives
<1>10. /\ DOMAIN e = DOMAIN u \cup {<<"SUP_NETWORK">>}
       /\ e[<<"SUP_NETWORK">>] = Lits(DefaultNetwork(Play.network))
       /\ \A k \in DOMAIN u \ {<<"SUP_NETWORK">>} : e[k] = u[k]
  BY <1>6 DEF Set
<1>11. PICK g : g = Merged /\ DOMAIN g = DOMAIN c \cup DOMAIN e
               /\ (\A k \in DOMAIN e : g[k] = e[k]) /\ \A k \in DOMAIN c \ DOMAIN e : g[k] = c[k]
  <2>1. PICK g : g = SetAll(c, e)
    OBVIOUS
  <2>2. DOMAIN g = DOMAIN c \cup DOMAIN e
    BY <2>1 DEF SetAll
  <2>3. (\A k \in DOMAIN e : g[k] = e[k]) /\ \A k \in DOMAIN c \ DOMAIN e : g[k] = c[k]
    BY <2>1 DEF SetAll
  <2> QED
    BY <1>7, <2>1, <2>2, <2>3
<1>12. OddFromFlags(g)
  <2>1. \A k \in DOMAIN g : k \in DOMAIN c \/ k \in DOMAIN w \/ k \in DOMAIN f \/ k = <<"SUP_NETWORK">>
    BY <1>9, <1>10, <1>11
  <2>2. Len(<<"SUP_NETWORK">>) = 1
    OBVIOUS
  <2> QED
    BY <1>1, <1>2, <1>4, <2>1, <2>2, SupKeys DEF OddFromFlags
<1>13. ASSUME NEW v \in Var
       PROVE  /\ <<v>> \in DOMAIN g <=> InSupfile(v)
              /\ InSupfile(v) => g[<<v>>] = PlayValue(v)
  <2>1. PICK k : k = <<v>>
    OBVIOUS
  <2>2. k = <<"SUP_NETWORK">> <=> v = "SUP_NETWORK"
    BY <2>1
  <2>3. k \notin DOMAIN f
    BY <1>8, <2>1
  <2>4. InSupfile(v) <=> v = "SUP_NETWORK" \/ k \in DOMAIN c \cup DOMAIN w
    BY <1>1, <1>2, <2>1 DEF InSupfile
  <2>5. k \in DOMAIN g <=> InSupfile(v)
    BY <1>9, <1>10, <1>11, <2>2, <2>3, <2>4
  <2>6. CASE v = "SUP_NETWORK"
    BY <1>10, <1>11, <2>1, <2>2, <2>5, <2>6 DEF PlayValue
  <2>7. CASE v # "SUP_NETWORK" /\ k \in DOMAIN w
    <3>1. k \in DOMAIN e /\ g[k] = w[k]
      BY <1>9, <1>10, <1>11, <2>2, <2>3, <2>7
    <3>2. PlayValue(v) = w[k]
      BY <1>1, <2>1, <2>7 DEF PlayValue
    <3> QED
      BY <2>1, <2>5, <3>1, <3>2
  <2>8. CASE v # "SUP_NETWORK" /\ k \notin DOMAIN w
    <3>1. k \in DOMAIN c => k \notin DOMAIN e /\ g[k] = c[k]
      BY <1>9, <1>10, <1>11, <2>2, <2>3, <2>8
    <3>2. k \in DOMAIN c => PlayValue(v) = c[k]
      BY <1>1, <1>2, <2>1, <2>8 DEF PlayValue
    <3> QED
      BY <2>1, <2>4, <2>5, <2>8, <3>1, <3>2
  <2> QED
    BY <2>6, <2>7, <2>8
<1> QED
  BY <1>11, <1>12, <1>13

\* A text or "l=" stays what it is when it is resolved once more.
LEMMA AsWrittenStays ==
    ASSUME IsSetup(setup), ~Malformed, play \in DOMAIN setup.plays,
           NEW v \in Var, NEW x \in Value, AsWritten(v, x), NEW e \in [Var -> Value]
    PROVE  AsWritten(v, Echoed(x, e))
<1>1. CASE IsPlain(v)
  <2>1. x = PlayValue(v) /\ x.kind = "text"
    BY <1>1 DEF AsWritten, IsPlain
  <2>2. Echoed(x, e) = x
    BY <2>1, EchoedTyped
  <2> QED
    BY <2>2
<1>2. CASE IsReference(v)
  <2>1. PICK w : w = PlayValue(v).of
    OBVIOUS
  <2>2. w \in Var
    BY <1>2, <2>1, PlayValueTyped, ValueKinds DEF IsReference
  <2>3. PlayValue(w).kind = "text"
    BY <1>2, <2>1 DEF IsReference, IsPlain
  <2>4. x \in Became(w, <<v>> \in late)
    BY <1>2, <2>1 DEF AsWritten
  <2>5. x = OsEnv[w] \/ x \in Odds(w) \/ x = PlayValue(w)
    BY <2>4 DEF Became
  <2>6. x.kind \in {"text", "odd"}
    BY <2>2, <2>3, <2>5, OsEnvTyped, FlagsGive
  <2>7. Echoed(x, e) = x
    BY <2>6, EchoedTyped
  <2> QED
    BY <2>7
<1> QED
  BY <1>1, <1>2 DEF AsWritten

LEMMA MeantStays ==
    ASSUME IsSetup(setup), ~Malformed, play \in DOMAIN setup.plays,
           NEW v \in Var, NEW S, NEW x \in Value, Meant(v, S, x), NEW e \in [Var -> Value]
    PROVE  Meant(v, S, Echoed(x, e))
<1>1. CASE S # {}
  <2>1. PICK y : y = Play.cmds[Max(S)].env[<<v>>]
    OBVIOUS
  <2>2. y.kind = "text" => x = y
    BY <1>1, <2>1 DEF Meant
  <2>3. y.kind = "text" => Echoed(x, e) = x
    BY <2>2, EchoedTyped
  <2> QED
    BY <1>1, <2>1, <2>2, <2>3 DEF Meant
<1>2. CASE S = {} /\ v \in Flagged
  <2>1. x = FlagValue(v) /\ x.kind = "text"
    BY <1>2, FlagsGive DEF Meant
  <2>2. Echoed(x, e) = x
    BY <2>1, EchoedTyped
  <2> QED
    BY <1>2, <2>1, <2>2 DEF Meant
<1>3. CASE S = {} /\ v \notin Flagged
  <2>1. AsWritten(v, x)
    BY <1>3 DEF Meant
  <2>2. AsWritten(v, Echoed(x, e))
    BY <2>1, AsWrittenStays
  <2> QED
    BY <1>3, <2>2 DEF Meant
<1> QED
  BY <1>1, <1>2, <1>3

\* What the formulas about variables read besides the variables.
LEMMA MeaningStays ==
    ASSUME UNCHANGED <<setup, play>>
    PROVE  /\ Play' = Play /\ Flagged' = Flagged
           /\ \A v : /\ InSupfile(v)' <=> InSupfile(v)
                     /\ PlayValue(v)' = PlayValue(v) /\ Odds(v)' = Odds(v)
                     /\ FlagValue(v)' = FlagValue(v)
                     /\ \A after : Became(v, after)' = Became(v, after)
                     /\ IsPlain(v)' <=> IsPlain(v)
                     /\ IsReference(v)' <=> IsReference(v)
  BY DEF Play, Flagged, FlagsFor, InSupfile, PlayValue, Odds, FlagValue, Became, IsPlain, IsReference,
         DefaultNetwork

\* The client of a run or local part has the variables of the play, and no other
\* names "v=l" than the flags'.
LEMMA WithTaskGives ==
    ASSUME OddFromFlags(vars), NEW e, OddFromFlags(e), NEW h, NEW part
    PROVE  /\ OddFromFlags(WithTask(e, h, part))
           /\ part # "script" =>
                 \A v \in Var \ {"SUP_USER"} : <<v>> \in DOMAIN vars =>
                     <<v>> \in DOMAIN WithTask(e, h, part) /\ WithTask(e, h, part)[<<v>>] = vars[<<v>>]
<1>1. CASE part = "script"
  BY <1>1 DEF WithTask
<1>2. CASE part # "script"
  <2>1. PICK g : g = SetAll(e, vars)
    OBVIOUS
  <2>2. DOMAIN g = DOMAIN e \cup DOMAIN vars /\ \A k \in DOMAIN vars : g[k] = vars[k]
    BY <2>1 DEF SetAll
  <2>3. PICK u : u = Set(g, <<"SUP_USER">>, Lits(User(h)))
    OBVIOUS
  <2>4. DOMAIN u = DOMAIN g \cup {<<"SUP_USER">>} /\ \A k \in DOMAIN g \ {<<"SUP_USER">>} : u[k] = g[k]
    BY <2>3 DEF Set
  <2>5. Len(<<"SUP_USER">>) = 1
    OBVIOUS
  <2>6. OddFromFlags(g)
    BY <2>2 DEF OddFromFlags
  <2>7. OddFromFlags(u)
    BY <2>4, <2>5, <2>6 DEF OddFromFlags
  <2>8. WithTask(e, h, part) = IF h \in LocalHost THEN g ELSE u
    BY <1>2, <2>1, <2>3 DEF WithTask
  <2>9. ASSUME NEW v \in Var \ {"SUP_USER"}, <<v>> \in DOMAIN vars
        PROVE  /\ <<v>> \in DOMAIN g /\ g[<<v>>] = vars[<<v>>]
               /\ <<v>> \in DOMAIN u /\ u[<<v>>] = vars[<<v>>]
    <3>1. PICK k : k = <<v>> /\ k # <<"SUP_USER">>
      BY <2>9
    <3> QED
      BY <2>2, <2>4, <2>9, <3>1
  <2> QED
    BY <2>6, <2>7, <2>8, <2>9
<1> QED
  BY <1>1, <1>2

LEMMA OddsStep == ASSUME PlaceInv, NetEnvRead, OddsKnown, [PSNext]_psVars PROVE OddsKnown'
<1>1. IsSetup(setup) /\ setup' = setup /\ play \in DOMAIN setup.plays
  BY SetupKnown, Frames DEF PlaceInv, PlaySetupTypeOK
<1>2. \A e : OddFromFlags(e)' <=> OddFromFlags(e)
  BY <1>1 DEF OddFromFlags, Range
<1>3. CASE MergeVars
  <2>1. pc = "merge" /\ pc' = "resolve" /\ vars' = Merged
    BY <1>3 DEF MergeVars, StartResolving
  <2>2. ~Malformed /\ netEnv[Play.network] = NetworkEnv(Play.network)
    BY <1>1, <2>1 DEF PlaceInv, FlagsRead, NetEnvRead, Play
  <2>3. OddFromFlags(Merged)
    BY <1>1, <2>2, MergedGives
  <2> QED
    BY <1>1, <2>1, <2>3 DEF OddsKnown, Prepared, OddFromFlags, Range
<1>4. ASSUME NEW k \in todo, ResolveKey(k) PROVE OddsKnown'
  <2>1. DOMAIN vars' = DOMAIN vars /\ pc' = pc /\ clientEnv' = clientEnv
    BY <1>4 DEF ResolveKey
  <2> QED
    BY <1>1, <1>4, <2>1 DEF OddsKnown, Prepared, OddFromFlags, Range, ResolveKey, Resolving
<1>5. CASE StartPlay
  <2>1. pc = "resolve" /\ vars' = WithFlags(vars) /\ OddFromFlags(vars)
    BY <1>5 DEF StartPlay, OddsKnown
  <2>2. \A k \in DOMAIN vars' : k \in DOMAIN vars \/ \E v : k = <<v>>
    BY <2>1 DEF WithFlags, SetAll
  <2>3. \A v : Len(<<v>>) = 1
    OBVIOUS
  <2>4. \A k \in DOMAIN vars' : Len(k) = 2 => k \in Range(setup.flags)
    BY <2>1, <2>2, <2>3 DEF OddFromFlags
  <2>5. \A h \in DOMAIN clientEnv' : \A k \in DOMAIN clientEnv'[h] : Len(k) = 1
    BY <1>5, <2>3 DEF StartPlay, Set, NoEnv
  <2> QED
    BY <1>1, <2>4, <2>5 DEF OddsKnown, OddFromFlags, Range
<1>6. CASE CreateTask
  <2>1. pc = "create" /\ clientEnv' = clientEnv /\ OddFromFlags(vars)
        /\ (vars' = vars \/ vars' = SetAll(vars, Cmd.env))
    BY <1>6 DEF CreateTask, StartResolving, OddsKnown, Prepared
  <2>2. IsSupEnv(Cmd.env)
    BY <1>1, <2>1, CmdKnown DEF PlaceInv, Positions, IsCommand
  <2>3. \A k \in DOMAIN vars' : k \in DOMAIN vars \/ k \in DOMAIN Cmd.env
    BY <2>1 DEF SetAll
  <2>4. \A k \in DOMAIN vars' : Len(k) = 2 => k \in Range(setup.flags)
    BY <2>1, <2>2, <2>3, SupKeys DEF OddFromFlags
  <2> QED
    BY <1>1, <2>1, <2>4 DEF OddsKnown, OddFromFlags, Prepared, Range
<1>7. CASE RunTask
  <2>1. pc = "run" /\ UNCHANGED <<pc, vars>> /\ OddFromFlags(vars) /\ DOMAIN clientEnv = Clients
        /\ \A h \in DOMAIN clientEnv : OddFromFlags(clientEnv[h])
    BY <1>7 DEF RunTask, OddsKnown, Prepared, PlaceInv, ClientsKnown
  <2>2. PICK part : part = Head(tasks)
    OBVIOUS
  <2>3. CASE part = "local"
    <3>1. clientEnv' = clientEnv
      BY <1>7, <2>2, <2>3 DEF RunTask
    <3> QED
      BY <1>1, <2>1, <3>1 DEF OddsKnown, Prepared, OddFromFlags, Range
  <2>4. CASE part # "local"
    <3>1. clientEnv' = [h \in Clients |-> WithTask(clientEnv[h], h, part)]
      BY <1>7, <2>2, <2>4 DEF RunTask, EnvsAfter
    <3>2. \A h \in DOMAIN clientEnv' : OddFromFlags(clientEnv'[h])
      BY <2>1, <3>1, WithTaskGives
    <3> QED
      BY <1>1, <2>1, <3>2 DEF OddsKnown, Prepared, OddFromFlags, Range
  <2> QED
    BY <2>3, <2>4
<1>8. CASE UNCHANGED <<vars, clientEnv>> /\ (Prepared' => Prepared) /\ (pc' = "resolve" => pc = "resolve")
  BY <1>1, <1>8 DEF OddsKnown, OddFromFlags, Range, Prepared
<1>9. ASSUME NEW k \in todo, ResolveFails(k) PROVE OddsKnown'
  BY <1>8, <1>9 DEF ResolveFails, Exit, Prepared
<1>10. CASE ReadArgs \/ FlagPanics \/ CheckInitialArgs
  BY <1>8, <1>10 DEF ReadArgs, FlagPanics, CheckInitialArgs, Exit, Prepared
<1>11. CASE NextCommand \/ CommandResolved \/ TasksCreated \/ CommandDone
  BY <1>8, <1>11 DEF NextCommand, CommandResolved, TasksCreated, CommandDone, Prepared
<1>12. CASE PlayDone
  BY <1>8, <1>12 DEF PlayDone, Exit, Prepared
<1>13. CASE UNCHANGED psVars
  BY <1>8, <1>13 DEF psVars, Prepared
<1> QED
  BY <1>3, <1>4, <1>5, <1>6, <1>7, <1>9, <1>10, <1>11, <1>12, <1>13 DEF PSNext, Ended

LEMMA PlayResolvedStep ==
    ASSUME PlaceInv, NetEnvRead, OddsKnown, PlayResolved, [PSNext]_psVars
    PROVE  PlayResolved'
<1>1. IsSetup(setup) /\ setup' = setup /\ play \in DOMAIN setup.plays
  BY SetupKnown, Frames DEF PlaceInv, PlaySetupTypeOK
<1> SUFFICES ASSUME pc' = "resolve" PROVE PlayResolved'
  BY DEF PlayResolved
<1>2. CASE MergeVars
  <2>1. pc = "merge" /\ vars' = Merged /\ todo' = DOMAIN Merged /\ exported' = OsEnv /\ late' = {}
        /\ UNCHANGED <<setup, play>>
    BY <1>2 DEF MergeVars, StartResolving
  <2>2. ~Malformed /\ netEnv[Play.network] = NetworkEnv(Play.network)
    BY <1>1, <2>1 DEF PlaceInv, FlagsRead, NetEnvRead, Play
  <2>3. /\ \A v \in Var : <<v>> \in DOMAIN Merged <=> InSupfile(v)
        /\ \A v \in Var : InSupfile(v) => Merged[<<v>>] = PlayValue(v)
    BY <1>1, <2>2, MergedGives
  <2>4. \A w \in Var : exported'[w] \in Became(w, <<w>> \in DOMAIN vars' \ todo')
    BY <2>1 DEF Became
  <2> QED
    BY <2>1, <2>3, <2>4, MeaningStays DEF PlayResolved
<1>3. ASSUME NEW k \in todo, ResolveKey(k) PROVE PlayResolved'
  <2>1. pc = "resolve" /\ UNCHANGED <<setup, play>> /\ todo' = todo \ {k}
    BY <1>3 DEF ResolveKey
  <2>2. ~Malformed
    BY <2>1 DEF PlaceInv, FlagsRead
  <2>3. /\ IsEnvList(vars) /\ todo \subseteq DOMAIN vars /\ exported \in [Var -> Value]
        /\ OddFromFlags(vars)
    BY <2>1 DEF PlaceInv, PlaySetupTypeOK, OddsKnown
  <2>4. PICK e, g : e = exported' /\ g = vars'
    OBVIOUS
  <2>5. /\ k \in Key /\ vars[k] \in Value /\ DOMAIN g = DOMAIN vars /\ e \in [Var -> Value]
        /\ e = Exported(exported, k, vars[k]) /\ g[k] = Echoed(vars[k], e)
        /\ \A j \in DOMAIN vars \ {k} : g[j] = vars[j]
    BY <1>3, <2>3, <2>4, ResolveKeeps
  <2>6. /\ \A v \in Var : <<v>> \in DOMAIN vars <=> InSupfile(v)
        /\ \A v \in Var : InSupfile(v) =>
              IF <<v>> \in todo THEN vars[<<v>>] = PlayValue(v) ELSE AsWritten(v, vars[<<v>>])
        /\ \A w \in Var : IsPlain(w) => exported[w] \in Became(w, <<w>> \in DOMAIN vars \ todo)
        /\ late \cap todo = {}
    BY <2>1 DEF PlayResolved
  <2>7. k[1] \in Var /\ \A w \in Var \ {k[1]} : e[w] = exported[w]
    BY <2>3, <2>5, KeyKinds DEF Exported
  <2>8. ASSUME NEW w \in Var, IsPlain(w) PROVE e[w] \in Became(w, <<w>> \in DOMAIN g \ (todo \ {k}))
    <3>1. CASE w # k[1]
      <4>1. <<w>> # k
        BY <3>1
      <4>2. <<w>> \in DOMAIN g \ (todo \ {k}) <=> <<w>> \in DOMAIN vars \ todo
        BY <2>5, <4>1
      <4> QED
        BY <2>6, <2>7, <2>8, <3>1, <4>2 DEF Became
    <3>2. CASE w = k[1] /\ Len(k) = 1
      <4>1. k = <<w>>
        BY <2>5, <3>2, KeyKinds
      <4>2. InSupfile(w) /\ vars[k] = PlayValue(w) /\ <<w>> \in DOMAIN g \ (todo \ {k})
        BY <2>3, <2>5, <2>6, <4>1
      <4>3. e[w] = vars[k]
        BY <2>3, <2>5, <2>7, <3>2 DEF Exported
      <4> QED
        BY <4>2, <4>3 DEF Became
    <3>3. CASE w = k[1] /\ Len(k) # 1
      <4>1. Len(k) = 2 /\ k \in DOMAIN vars
        BY <2>3, <2>5, <3>3, KeyKinds
      <4>2. Odd(k[2]) \in Odds(w)
        BY <1>1, <2>2, <2>3, <3>3, <4>1, FlagsGive DEF OddFromFlags
      <4>3. e[w] = Odd(k[2])
        BY <2>3, <2>5, <2>7, <3>3 DEF Exported
      <4> QED
        BY <4>2, <4>3 DEF Became
    <3> QED
      BY <3>1, <3>2, <3>3
  <2>12. PICK m : m = late' /\ m = IF FollowsRef(k) THEN late \cup {k} ELSE late
    BY <1>3, <2>1 DEF ResolveKey
  <2>13. ASSUME NEW v \in Var, NEW x, <<v>> # k PROVE AsWritten(v, x)' <=> AsWritten(v, x)
    <3>1. <<v>> \in m <=> <<v>> \in late
      BY <2>12, <2>13
    <3>2. IsReference(v) => PlayValue(v).of \in Var
      BY <1>1, PlayValueTyped, ValueKinds DEF IsReference
    <3> QED
      BY <2>1, <2>12, <3>1, <3>2, MeaningStays DEF AsWritten
  <2>9. ASSUME NEW v \in Var, InSupfile(v)
        PROVE  IF <<v>> \in todo \ {k} THEN g[<<v>>] = PlayValue(v) ELSE AsWritten(v, g[<<v>>])'
    <3>1. PICK j : j = <<v>> /\ j \in DOMAIN vars
      BY <2>6, <2>9
    <3>2. CASE j # k
      <4>1. g[j] = vars[j]
        BY <2>5, <3>1, <3>2
      <4>2. PICK x : x = g[j]
        OBVIOUS
      <4>3. <<v>> \notin todo => AsWritten(v, x)'
        BY <2>6, <2>9, <2>13, <3>1, <3>2, <4>1, <4>2
      <4> QED
        BY <2>6, <2>9, <3>1, <3>2, <4>1, <4>2, <4>3
    <3>3. CASE j = k
      <4>1. PICK x \in Value : x = PlayValue(v) /\ x = vars[k]
        BY <2>5, <2>6, <2>9, <3>1, <3>3
      <4>2. IsPlain(v) => Echoed(x, e) = PlayValue(v)
        BY <2>5, <4>1, EchoedTyped DEF IsPlain
      <4>3. ASSUME IsReference(v) PROVE Echoed(x, e) \in Became(PlayValue(v).of, k \in m)
        <5>1. PICK w : w = x.of /\ w \in Var /\ w # v /\ x.kind = "ref" /\ IsPlain(w)
          BY <4>1, <4>3, ValueKinds DEF IsReference
        <5>2. Echoed(x, e) = e[w]
          BY <2>5, <5>1, EchoedTyped
        <5>3. <<w>> # k
          BY <3>1, <3>3, <5>1
        <5>4. k \in m <=> <<w>> \in DOMAIN g \ (todo \ {k})
          BY <2>5, <2>6, <2>12, <4>1, <5>1, <5>3 DEF FollowsRef
        <5> QED
          BY <2>8, <4>1, <5>1, <5>2, <5>4 DEF Became
      <4>5. PICK y : y = Echoed(x, e)
        OBVIOUS
      <4>6. IsReference(v) => PlayValue(v).of \in Var
        BY <1>1, PlayValueTyped, ValueKinds DEF IsReference
      <4>4. AsWritten(v, y)'
        BY <2>1, <2>12, <3>1, <3>3, <4>2, <4>3, <4>5, <4>6, MeaningStays DEF AsWritten
      <4> QED
        BY <2>5, <3>1, <3>3, <4>1, <4>4, <4>5
    <3> QED
      BY <3>2, <3>3
  <2>10. \A v \in Var : <<v>> \in DOMAIN g <=> InSupfile(v)
    BY <2>5, <2>6
  <2>11. m \cap (todo \ {k}) = {}
    BY <2>6, <2>12
  <2> QED
    BY <2>1, <2>4, <2>8, <2>9, <2>10, <2>11, <2>12, MeaningStays DEF PlayResolved
<1>4. CASE UNCHANGED <<pc, play, vars, todo, late, exported>>
  <2>1. \A v \in Var : \A x : AsWritten(v, x)' <=> AsWritten(v, x)
    <3>1. ASSUME NEW v \in Var, IsReference(v) PROVE PlayValue(v).of \in Var
      BY <1>1, <3>1, PlayValueTyped, ValueKinds DEF IsReference
    <3> QED
      BY <1>1, <1>4, <3>1, MeaningStays DEF AsWritten
  <2> QED
    BY <1>1, <1>4, <2>1, MeaningStays DEF PlayResolved
<1>5. ASSUME NEW k \in todo, ResolveFails(k) PROVE FALSE
  BY <1>5 DEF ResolveFails, Exit
<1>6. ~(ReadArgs \/ FlagPanics \/ CheckInitialArgs \/ StartPlay)
  BY DEF ReadArgs, FlagPanics, CheckInitialArgs, StartPlay, Exit
<1>7. ~(NextCommand \/ CommandResolved \/ TasksCreated \/ CommandDone \/ PlayDone)
  BY DEF NextCommand, CommandResolved, TasksCreated, CommandDone, PlayDone, Exit
<1>8. ~CreateTask /\ ~RunTask
  BY DEF CreateTask, RunTask
<1> QED
  BY <1>2, <1>3, <1>4, <1>5, <1>6, <1>7, <1>8 DEF PSNext, psVars, Ended

\* A command that does not set v leaves its setters, one that does is the last.
LEMMA SettersNext ==
    ASSUME IsSetup(setup), play \in DOMAIN setup.plays, cmd \in DOMAIN Play.cmds, NEW v \in Var
    PROVE  LET sets == <<v>> \in DOMAIN Cmd.env /\ Cmd.parts \cap {"local", "run"} # {} IN
           /\ ~sets => SettersTo(v, cmd) = SettersTo(v, cmd - 1)
           /\ sets => SettersTo(v, cmd) # {} /\ Max(SettersTo(v, cmd)) = cmd
<1>1. cmd \in Nat /\ cmd - 1 \in Int /\ cmd \in 1 .. cmd
  BY CmdKnown
<1>2. \A j : j \in 1 .. cmd <=> j \in 1 .. cmd - 1 \/ j = cmd
  BY <1>1
<1> DEFINE sets == <<v>> \in DOMAIN Cmd.env /\ Cmd.parts \cap {"local", "run"} # {}
<1>3. ~sets => SettersTo(v, cmd) = SettersTo(v, cmd - 1)
  BY <1>2 DEF SettersTo, Cmd
<1>4. ASSUME sets PROVE SettersTo(v, cmd) # {} /\ Max(SettersTo(v, cmd)) = cmd
  <2>1. cmd \in SettersTo(v, cmd)
    BY <1>1, <1>4 DEF SettersTo, Cmd
  <2>2. PICK S \in SUBSET (1 .. cmd) : S = SettersTo(v, cmd)
    BY DEF SettersTo
  <2>3. Max(S) \in S /\ \A y \in S : Max(S) >= y
    BY <1>1, <2>1, <2>2, MaxIsIn
  <2> QED
    BY <1>1, <2>1, <2>2, <2>3
<1> QED
  BY <1>3, <1>4

\* CommandsResolved for one variable, for the setters S and the map e.
Resolved(v, S, e) ==
    (S # {} \/ v \in Flagged \/ InSupfile(v)) => <<v>> \in DOMAIN e /\ Meant(v, S, e[<<v>>])

\* Meant and AsWritten say the same after a step that stays in the play.
LEMMA ResolvedStays ==
    ASSUME PlaceInv, UNCHANGED <<setup, play, late>>
    PROVE  \A v \in Var : \A S, e : Resolved(v, S, e)' <=> Resolved(v, S, e)
<1>1. IsSetup(setup) /\ play \in DOMAIN setup.plays
  BY SetupKnown DEF PlaceInv, PlaySetupTypeOK
<1>2. \A v \in Var : \A x : AsWritten(v, x)' <=> AsWritten(v, x)
  <2>1. ASSUME NEW v \in Var, IsReference(v) PROVE PlayValue(v).of \in Var
    BY <1>1, <2>1, PlayValueTyped, ValueKinds DEF IsReference
  <2> QED
    BY <2>1, MeaningStays DEF AsWritten
<1>3. \A v \in Var : \A S, x : Meant(v, S, x)' <=> Meant(v, S, x)
  BY <1>2, MeaningStays DEF Meant
<1> QED
  BY <1>3, MeaningStays DEF Resolved

\* A step to a place where the same commands have set the same variables.
LEMMA SameResolved ==
    ASSUME PlaceInv, CommandsResolved, UNCHANGED <<setup, play, vars, late>>, Prepared,
           \A v \in Var : SettersTo(v, SetUpTo)' = SettersTo(v, SetUpTo)
    PROVE  CommandsResolved'
<1>1. \A v \in Var : Resolved(v, SettersTo(v, SetUpTo), vars)
  BY DEF CommandsResolved, Resolved
<1>2. PICK e, T : e = vars /\ T = [v \in Var |-> SettersTo(v, SetUpTo)]
  OBVIOUS
<1>3. \A v \in Var : Resolved(v, T[v], e)
  BY <1>1, <1>2
<1>4. \A v \in Var : Resolved(v, T[v], e)'
  BY <1>3, ResolvedStays
<1>5. e = vars' /\ \A v \in Var : T[v] = SettersTo(v, SetUpTo)'
  BY <1>2
<1> QED
  BY <1>4, <1>5 DEF CommandsResolved, Resolved

LEMMA CommandsStep ==
    ASSUME PlaceInv, NetEnvRead, PlayResolved, CommandsResolved, [PSNext]_psVars
    PROVE  CommandsResolved'
<1>1. IsSetup(setup) /\ setup' = setup /\ play \in DOMAIN setup.plays
  BY SetupKnown, Frames DEF PlaceInv, PlaySetupTypeOK
<1>2. Positions /\ IsEnvList(vars) /\ todo \subseteq DOMAIN vars /\ exported \in [Var -> Value]
  BY DEF PlaceInv, PlaySetupTypeOK
<1>3. play' = play => \A v \in Var : \A m : SettersTo(v, m)' = SettersTo(v, m)
  BY <1>1 DEF SettersTo, Play
<1>4. CASE StartPlay
  <2>1. pc = "resolve" /\ pc' = "command" /\ cmd' = 1 /\ UNCHANGED <<setup, play, late, tasks>> /\ todo = {}
        /\ vars' = WithFlags(vars)
    BY <1>4 DEF StartPlay
  <2>2. ~Malformed
    BY <2>1 DEF PlaceInv, FlagsRead
  <2>3. PICK g : g = WithFlags(vars)
    OBVIOUS
  <2>4. ASSUME NEW v \in Var PROVE Resolved(v, {}, g)
    <3>1. PICK k : k = <<v>>
      OBVIOUS
    <3>2. PICK F : F = [j \in {<<u>> : u \in Flagged} |-> FlagValue(j[1])]
      OBVIOUS
    <3>3. k \in DOMAIN F <=> v \in Flagged
      BY <3>1, <3>2
    <3>4. k \in DOMAIN F => F[k] = FlagValue(v)
      BY <3>1, <3>2
    <3>5. g = SetAll(vars, F)
      BY <2>3, <3>2 DEF WithFlags
    <3>6. /\ v \in Flagged => k \in DOMAIN g /\ g[k] = FlagValue(v)
          /\ v \notin Flagged /\ k \in DOMAIN vars => k \in DOMAIN g /\ g[k] = vars[k]
      BY <3>3, <3>4, <3>5 DEF SetAll
    <3>7. InSupfile(v) => k \in DOMAIN vars /\ AsWritten(v, vars[k])
      BY <2>1, <3>1 DEF PlayResolved
    <3> QED
      BY <3>1, <3>6, <3>7 DEF Resolved, Meant
  <2>5. \A v \in Var : Resolved(v, {}, g)'
    BY <2>1, <2>4, ResolvedStays
  <2>6. \A v \in Var : SettersTo(v, SetUpTo)' = {}
    <3>1. SetUpTo' = 0
      BY <2>1 DEF SetUpTo, OwnSet
    <3> QED
      BY <3>1 DEF SettersTo
  <2> QED
    BY <2>1, <2>3, <2>5, <2>6 DEF CommandsResolved, Resolved
<1>5. CASE NextCommand
  <2>1. pc = "command" /\ pc' = "create" /\ UNCHANGED <<setup, play, late, cmd, vars, tasks>> /\ tasks = <<>>
    BY <1>2, <1>5 DEF NextCommand, Positions
  <2>2. SetUpTo' = SetUpTo
    BY <2>1 DEF SetUpTo, OwnSet, Range
  <2> QED
    BY <1>3, <2>1, <2>2, SameResolved DEF Prepared
<1>6. CASE CreateTask
  <2>1. /\ pc = "create" /\ parts # <<>> /\ pc' \in {"create", "resolveCommand"} /\ UNCHANGED <<setup, play, late, cmd>>
        /\ tasks' = Append(tasks, Head(parts))
    BY <1>6 DEF CreateTask
  <2>2. /\ cmd \in DOMAIN Play.cmds /\ tasks \in Seq(Part) /\ parts \in Seq(Part) /\ cmd \in Nat
        /\ Range(tasks) \cup Range(parts) = Cmd.parts
    BY <1>2, <2>1 DEF Positions
  <2>3. PICK part \in Part : part = Head(parts) /\ part \in Cmd.parts
    BY <2>1, <2>2, RangeHeadTail
  <2>4. (Range(tasks))' = Range(tasks) \cup {part}
    <3>1. Range(Append(tasks, part)) = Range(tasks) \cup {part}
      BY <2>2, RangeAppend
    <3> QED
      BY <2>1, <2>3, <3>1 DEF Range
  <2>5. CASE part = "script"
    <3>1. UNCHANGED <<vars, pc>>
      BY <1>6, <2>3, <2>5 DEF CreateTask
    <3>2. OwnSet' <=> OwnSet
      BY <2>1, <2>4, <2>5, <3>1 DEF OwnSet
    <3>3. SetUpTo' = SetUpTo
      BY <2>1, <3>2 DEF SetUpTo
    <3> QED
      BY <1>3, <2>1, <3>1, <3>3, SameResolved DEF Prepared
  <2>6. CASE part # "script"
    <3>1. part \in {"local", "run"} /\ OwnSet' /\ SetUpTo' = cmd
      BY <2>1, <2>4, <2>6 DEF OwnSet, SetUpTo, Part
    <3>2. ASSUME NEW v \in Var, <<v>> \notin DOMAIN Cmd.env
          PROVE  SettersTo(v, SetUpTo) = SettersTo(v, cmd)
      BY <1>1, <2>2, <3>2, SettersNext DEF SetUpTo
    <3>3. \A v \in Var : Resolved(v, SettersTo(v, SetUpTo), vars)
      BY <2>1 DEF CommandsResolved, Prepared, Resolved
    <3>4. PICK g : g = vars' /\ g = (IF DOMAIN Cmd.env = {} THEN vars ELSE SetAll(vars, Cmd.env))
      BY <1>6, <2>3, <2>6 DEF CreateTask, StartResolving
    <3>5. ASSUME NEW v \in Var PROVE Resolved(v, SettersTo(v, cmd), g)
      <4>1. PICK k : k = <<v>>
        OBVIOUS
      <4>2. CASE k \in DOMAIN Cmd.env
        <5>1. k \in DOMAIN g /\ g[k] = Cmd.env[k]
          BY <3>4, <4>2 DEF SetAll
        <5>2. SettersTo(v, cmd) # {} /\ Max(SettersTo(v, cmd)) = cmd
          BY <1>1, <2>2, <2>3, <3>1, <4>1, <4>2, SettersNext
        <5>3. Play.cmds[cmd].env[k] = g[k]
          BY <5>1 DEF Cmd
        <5> QED
          BY <4>1, <5>1, <5>2, <5>3 DEF Resolved, Meant
      <4>3. CASE k \notin DOMAIN Cmd.env
        <5>1. k \in DOMAIN vars => k \in DOMAIN g /\ g[k] = vars[k]
          BY <3>4, <4>3 DEF SetAll
        <5>2. Resolved(v, SettersTo(v, cmd), vars)
          BY <3>2, <3>3, <4>1, <4>3
        <5> QED
          BY <4>1, <5>1, <5>2 DEF Resolved
      <4> QED
        BY <4>2, <4>3
    <3>6. PICK T : T = [v \in Var |-> SettersTo(v, cmd)]
      OBVIOUS
    <3>7. \A v \in Var : Resolved(v, T[v], g)'
      BY <2>1, <3>5, <3>6, ResolvedStays
    <3>8. \A v \in Var : T[v] = SettersTo(v, SetUpTo)'
      BY <1>3, <2>1, <3>1, <3>6
    <3> QED
      BY <3>4, <3>7, <3>8 DEF CommandsResolved, Resolved
  <2> QED
    BY <2>5, <2>6
<1>7. ASSUME NEW k \in todo, ResolveKey(k) PROVE CommandsResolved'
  <2>1. /\ pc \in {"resolve", "resolveCommand"} /\ UNCHANGED <<setup, play, pc, cmd, tasks>>
        /\ pc = "resolveCommand" => UNCHANGED late
    BY <1>7 DEF ResolveKey, Resolving
  <2>2. CASE pc = "resolve"
    BY <2>1, <2>2 DEF CommandsResolved, Prepared
  <2>3. CASE pc = "resolveCommand"
    <3>1. ~Malformed
      BY <2>3 DEF PlaceInv, FlagsRead
    <3>2. PICK e, g : e = exported' /\ g = vars'
      OBVIOUS
    <3>3. /\ vars[k] \in Value /\ DOMAIN g = DOMAIN vars /\ e \in [Var -> Value]
          /\ g[k] = Echoed(vars[k], e) /\ \A j \in DOMAIN vars \ {k} : g[j] = vars[j]
      BY <1>2, <1>7, <3>2, ResolveKeeps
    <3>4. PICK T : T = [v \in Var |-> SettersTo(v, SetUpTo)]
      OBVIOUS
    <3>5. ASSUME NEW v \in Var PROVE Resolved(v, T[v], g)
      <4>1. Resolved(v, T[v], vars)
        BY <2>3, <3>4 DEF CommandsResolved, Prepared, Resolved
      <4>2. <<v>> \in DOMAIN vars /\ Meant(v, T[v], vars[<<v>>]) => Meant(v, T[v], g[<<v>>])
        BY <1>1, <3>1, <3>3, MeantStays
      <4> QED
        BY <3>3, <4>1, <4>2 DEF Resolved
    <3>6. \A v \in Var : Resolved(v, T[v], g)'
      BY <2>1, <2>3, <3>5, ResolvedStays
    <3>7. SetUpTo' = SetUpTo
      BY <2>1 DEF SetUpTo, OwnSet, Range
    <3>8. \A v \in Var : T[v] = SettersTo(v, SetUpTo)'
      BY <1>3, <2>1, <3>4, <3>7
    <3> QED
      BY <3>2, <3>6, <3>8 DEF CommandsResolved, Resolved
  <2> QED
    BY <2>1, <2>2, <2>3
<1>8. CASE CommandResolved
  <2>1. pc = "resolveCommand" /\ pc' = "create" /\ UNCHANGED <<setup, play, late, cmd, vars, tasks>>
    BY <1>8 DEF CommandResolved
  <2>2. SetUpTo' = SetUpTo
    BY <2>1 DEF SetUpTo, OwnSet, Range
  <2> QED
    BY <1>3, <2>1, <2>2, SameResolved DEF Prepared
<1>9. CASE TasksCreated
  <2>1. pc = "create" /\ pc' = "run" /\ UNCHANGED <<setup, play, late, cmd, vars, tasks>> /\ parts = <<>>
    BY <1>9 DEF TasksCreated
  <2>2. /\ cmd \in DOMAIN Play.cmds /\ Range(tasks) = Cmd.parts
    BY <1>2, <2>1 DEF Positions, Range
  <2>3. SetUpTo' = cmd
    BY <2>1 DEF SetUpTo, OwnSet
  <2>4. \A v \in Var : SettersTo(v, SetUpTo) = SettersTo(v, cmd)
    <3>1. CASE OwnSet
      BY <3>1 DEF SetUpTo
    <3>2. CASE ~OwnSet
      <4>1. SetUpTo = cmd - 1 /\ Cmd.parts \cap {"local", "run"} = {}
        BY <2>1, <2>2, <3>2 DEF SetUpTo, OwnSet
      <4> QED
        BY <1>1, <2>2, <4>1, SettersNext
    <3> QED
      BY <3>1, <3>2
  <2> QED
    BY <1>3, <2>1, <2>3, <2>4, SameResolved DEF Prepared
<1>10. CASE RunTask
  <2>1. pc = "run" /\ UNCHANGED <<setup, play, late, pc, cmd, vars>>
    BY <1>10 DEF RunTask
  <2>2. SetUpTo' = SetUpTo
    BY <2>1 DEF SetUpTo, OwnSet
  <2> QED
    BY <1>3, <2>1, <2>2, SameResolved DEF Prepared
<1>11. CASE CommandDone
  <2>1. pc = "run" /\ pc' = "command" /\ UNCHANGED <<setup, play, late, vars>> /\ cmd' = cmd + 1 /\ cmd \in Nat
    BY <1>2, <1>11 DEF CommandDone, Positions
  <2>2. SetUpTo' = SetUpTo
    BY <2>1 DEF SetUpTo, OwnSet
  <2> QED
    BY <1>3, <2>1, <2>2, SameResolved DEF Prepared
<1>12. CASE PlayDone
  BY <1>12 DEF PlayDone, Exit, CommandsResolved, Prepared
<1>13. ASSUME NEW k \in todo, ResolveFails(k) PROVE CommandsResolved'
  BY <1>13 DEF ResolveFails, Exit, CommandsResolved, Prepared
<1>14. CASE ReadArgs \/ FlagPanics \/ CheckInitialArgs \/ MergeVars
  BY <1>14 DEF ReadArgs, FlagPanics, CheckInitialArgs, MergeVars, Exit, CommandsResolved, Prepared
<1>15. CASE UNCHANGED psVars
  <2>1. UNCHANGED <<setup, play, late, pc, cmd, vars, tasks>>
    BY <1>15 DEF psVars
  <2>2. SetUpTo' = SetUpTo
    BY <2>1 DEF SetUpTo, OwnSet, Range
  <2>3. CASE Prepared
    BY <1>3, <2>1, <2>2, <2>3, SameResolved
  <2>4. CASE ~Prepared
    BY <2>1, <2>4 DEF CommandsResolved, Prepared
  <2> QED
    BY <2>3, <2>4
<1> QED
  BY <1>4, <1>5, <1>6, <1>7, <1>8, <1>9, <1>10, <1>11, <1>12, <1>13, <1>14, <1>15 DEF PSNext, Ended

\* What a shell of a run or local part may have for a variable of the play.
LEMMA ShellHas ==
    ASSUME PlaceInv, OddsKnown, RunTask
    PROVE  /\ shell'.var \in Var
           /\ HasVars' /\ <<shell'.var>> \in DOMAIN vars =>
                 shell'.sees \in {vars[<<shell'.var>>]} \cup Odds(shell'.var)
<1>1. IsSetup(setup) /\ play \in DOMAIN setup.plays /\ pc = "run" /\ ~Malformed
  BY SetupKnown DEF PlaceInv, PlaySetupTypeOK, RunTask, FlagsRead
<1>2. OddFromFlags(vars) /\ DOMAIN clientEnv = Clients /\ \A h \in DOMAIN clientEnv : OddFromFlags(clientEnv[h])
  BY <1>1 DEF OddsKnown, Prepared, PlaceInv, ClientsKnown
<1>3. PICK part \in Part : part = Head(tasks)
  BY RangeHeadTail DEF RunTask, PlaceInv, Positions
<1>4. PICK h \in DOMAIN EnvsAfter(part), v \in Var : \E x \in Sees(EnvsAfter(part)[h], h, v) :
          shell' = [client |-> h, part |-> part, var |-> v, sees |-> x]
  BY <1>3 DEF RunTask
<1>5. PICK e : e = EnvsAfter(part)[h] /\ IsEnvList(e)
  BY <1>1, <1>4, EnvsTyped
<1>6. PICK x \in Sees(e, h, v) : shell' = [client |-> h, part |-> part, var |-> v, sees |-> x]
  BY <1>4, <1>5
<1>7. /\ OddFromFlags(e)
      /\ part # "script" => \A u \in Var \ {"SUP_USER"} : <<u>> \in DOMAIN vars =>
                                <<u>> \in DOMAIN e /\ e[<<u>>] = vars[<<u>>]
  <2>1. CASE part = "local"
    <3>1. PICK g : g = Set(NoEnv, <<"SUP_HOST">>, Lits("localhost"))
      OBVIOUS
    <3>2. OddFromFlags(g)
      <4>1. Len(<<"SUP_HOST">>) = 1
        OBVIOUS
      <4> QED
        BY <3>1, <4>1 DEF OddFromFlags, Set, NoEnv
    <3>3. e = WithTask(g, h, part)
      BY <1>4, <1>5, <2>1, <3>1 DEF EnvsAfter
    <3> QED
      BY <1>2, <3>2, <3>3, WithTaskGives
  <2>2. CASE part # "local"
    <3>1. e = WithTask(clientEnv[h], h, part) /\ h \in Clients
      BY <1>4, <1>5, <2>2 DEF EnvsAfter
    <3> QED
      BY <1>2, <3>1, WithTaskGives
  <2> QED
    BY <2>1, <2>2
<1>8. shell'.var = v /\ shell'.sees = x /\ shell'.part = part
  BY <1>6
<1>9. ASSUME part # "script", v # "SUP_USER", <<v>> \in DOMAIN vars PROVE x \in {vars[<<v>>]} \cup Odds(v)
  <2>1. <<v>> \in DOMAIN e /\ e[<<v>>] = vars[<<v>>]
    BY <1>7, <1>9
  <2>2. \/ x = e[<<v>>]
        \/ \E k \in DOMAIN e : Len(k) = 2 /\ k[1] = v /\ x = Odd(k[2])
    BY <1>5, <2>1, SeesTyped
  <2>3. ASSUME NEW k \in DOMAIN e, Len(k) = 2, k[1] = v PROVE Odd(k[2]) \in Odds(v)
    BY <1>1, <1>7, <2>3, FlagsGive DEF OddFromFlags
  <2> QED
    BY <2>1, <2>2, <2>3
<1>10. HasVars' => part # "script" /\ v # "SUP_USER"
  BY <1>8 DEF HasVars
<1> QED
  BY <1>8, <1>9, <1>10

LEMMA ShellMeant ==
    ASSUME PlaceInv, OddsKnown, CommandsResolved, RunTask
    PROVE  NearestWins' /\ ReferencesResolve'
<1>1. IsSetup(setup) /\ play \in DOMAIN setup.plays /\ pc = "run" /\ UNCHANGED <<setup, play, cmd, late>>
  BY SetupKnown DEF PlaceInv, PlaySetupTypeOK, RunTask
<1> SUFFICES ASSUME HasVars' PROVE NearestWins' /\ ReferencesResolve'
  BY DEF NearestWins, ReferencesResolve
<1>2. PICK v, x : v = shell'.var /\ x = shell'.sees /\ v \in Var
  BY ShellHas
<1>3. <<v>> \in DOMAIN vars => x \in {vars[<<v>>]} \cup Odds(v)
  BY <1>2, ShellHas
<1>4. PICK S : S = Setters(v) /\ S = SettersTo(v, SetUpTo)
  BY <1>1 DEF Setters, SettersTo, SetUpTo, OwnSet
<1>5. (S # {} \/ v \in Flagged \/ InSupfile(v)) => <<v>> \in DOMAIN vars /\ Meant(v, S, vars[<<v>>])
  BY <1>1, <1>2, <1>4 DEF CommandsResolved, Prepared
<1>6. v \notin Flagged => Odds(v) = {}
  BY <1>2 DEF Flagged, Odds
<1>7. Setters(v)' = S
  BY <1>1, <1>4 DEF Setters, Play
<1>8. /\ InSupfile(v)' <=> InSupfile(v)
      /\ PlayValue(v)' = PlayValue(v) /\ Odds(v)' = Odds(v) /\ FlagValue(v)' = FlagValue(v)
      /\ Play' = Play /\ Flagged' = Flagged
  BY <1>1, MeaningStays
<1>9. NearestWins'
  <2>1. CASE S # {}
    <3>1. PICK y : y = Play.cmds[Max(S)].env[<<v>>]
      OBVIOUS
    <3>2. y.kind = "text" => x \in {y} \cup Odds(v)
      BY <1>3, <1>5, <2>1, <3>1 DEF Meant
    <3> QED
      BY <1>2, <1>7, <1>8, <2>1, <3>1, <3>2 DEF NearestWins
  <2>2. CASE S = {} /\ v \in Flagged
    <3>1. x \in {FlagValue(v)} \cup Odds(v)
      BY <1>3, <1>5, <2>2 DEF Meant
    <3> QED
      BY <1>2, <1>7, <1>8, <2>2, <3>1 DEF NearestWins
  <2>3. CASE S = {} /\ v \notin Flagged
    <3>1. InSupfile(v) /\ PlayValue(v).kind = "text" => x = PlayValue(v)
      BY <1>3, <1>5, <1>6, <2>3 DEF Meant, AsWritten, IsPlain
    <3> QED
      BY <1>2, <1>7, <1>8, <2>3, <3>1 DEF NearestWins
  <2> QED
    BY <2>1, <2>2, <2>3
<1>10. ReferencesResolve'
  <2>1. CASE S # {} \/ v \in Flagged
    BY <1>2, <1>7, <1>8, <2>1 DEF ReferencesResolve
  <2>2. CASE S = {} /\ v \notin Flagged
    <3>1. PICK r, w : r = PlayValue(v) /\ w = r.of
      OBVIOUS
    <3>2. CASE IsReference(v)
      <4>1. w \in Var /\ InSupfile(v)
        BY <1>1, <1>2, <3>1, <3>2, PlayValueTyped, ValueKinds DEF IsReference
      <4>2. x \in Became(w, <<v>> \in late)
        BY <1>3, <1>5, <1>6, <2>2, <3>1, <3>2, <4>1 DEF Meant, AsWritten
      <4>3. Odds(w)' = Odds(w) /\ PlayValue(w)' = PlayValue(w)
        BY <1>1, <4>1, MeaningStays
      <4> QED
        BY <1>1, <1>2, <1>8, <3>1, <4>2, <4>3 DEF ReferencesResolve, Became
    <3>3. CASE ~IsReference(v)
      <4>1. r.kind = "ref" /\ w # v => PlayValue(w).kind # "text" /\ w \in Var
        BY <1>1, <1>2, <3>1, <3>3, PlayValueTyped, ValueKinds DEF IsReference, IsPlain
      <4>2. w \in Var => PlayValue(w)' = PlayValue(w)
        BY <1>1, MeaningStays
      <4> QED
        BY <1>2, <1>8, <3>1, <4>1, <4>2 DEF ReferencesResolve
    <3> QED
      BY <3>2, <3>3
  <2> QED
    BY <2>1, <2>2
<1> QED
  BY <1>9, <1>10

LEMMA ValueInit == PSInit => ValueInv
<1> SUFFICES ASSUME PSInit PROVE ValueInv
  OBVIOUS
<1>1. pc = "args" /\ netEnv = setup.netEnv /\ shell = NoShell
  BY DEF PSInit
<1>2. ~HasVars
  BY <1>1 DEF HasVars, NoShell
<1> QED
  BY <1>1, <1>2 DEF ValueInv, NetEnvRead, OddsKnown, PlayResolved, CommandsResolved, Prepared, NearestWins, ReferencesResolve

LEMMA ValueStep == ASSUME PlaceInv, ValueInv, [PSNext]_psVars PROVE ValueInv'
<1>1. /\ NetEnvRead /\ OddsKnown /\ PlayResolved /\ CommandsResolved /\ NearestWins /\ ReferencesResolve
      /\ ShellOnlyInRun
  BY DEF ValueInv, PlaceInv
<1>2. NetEnvRead' /\ OddsKnown' /\ PlayResolved' /\ CommandsResolved'
  BY <1>1, NetEnvStep, OddsStep, PlayResolvedStep, CommandsStep
<1>3. NearestWins' /\ ReferencesResolve'
  <2>1. CASE RunTask
    BY <1>1, <2>1, ShellMeant
  <2>2. CASE pc' # "run" \/ shell' = NoShell
    <3>1. shell' = NoShell
      BY <2>2, ShellStep DEF ShellOnlyInRun
    <3>2. ~HasVars'
      BY <3>1 DEF HasVars, NoShell
    <3> QED
      BY <3>2 DEF NearestWins, ReferencesResolve
  <2>3. CASE UNCHANGED psVars
    <3>1. UNCHANGED <<setup, play, cmd, late, shell>>
      BY <2>3 DEF psVars
    <3>2. /\ HasVars' <=> HasVars
          /\ \A v : Setters(v)' = Setters(v)
      BY <3>1, MeaningStays DEF HasVars, Setters
    <3> QED
      BY <1>1, <3>1, <3>2, MeaningStays DEF NearestWins, ReferencesResolve
  <2>4. CASE TasksCreated
    BY <1>1, <2>2, <2>4 DEF TasksCreated, ShellOnlyInRun
  <2>5. CASE \E k \in todo : ResolveKey(k) \/ ResolveFails(k)
    BY <2>2, <2>5 DEF ResolveKey, ResolveFails, Resolving, Exit
  <2>6. CASE ReadArgs \/ FlagPanics \/ CheckInitialArgs \/ MergeVars \/ StartPlay \/ NextCommand
    BY <2>2, <2>6 DEF ReadArgs, FlagPanics, CheckInitialArgs, MergeVars, StartPlay, NextCommand, Exit
  <2>7. CASE CreateTask \/ CommandResolved \/ CommandDone \/ PlayDone
    BY <2>2, <2>7 DEF CreateTask, CommandResolved, CommandDone, PlayDone, Exit
  <2> QED
    BY <2>1, <2>3, <2>4, <2>5, <2>6, <2>7 DEF PSNext, Ended
<1> QED
  BY <1>2, <1>3 DEF ValueInv

----------------------------------------------------------------------------

\* Types, indices and the hosts of the clients stay right, for every setup
\* (cmd/ssup/main.go:91-138, src/usecase/init_flags_and_checks.go:18-117).
THEOREM PlaySetupTypeCorrect == PSSpec => []PlaySetupTypeOK
<1>1. PSInit => PlaceInv
  BY PlaceInit
<1>2. PlaceInv /\ [PSNext]_psVars => PlaceInv'
  BY PlaceStep
<1>3. PlaceInv => PlaySetupTypeOK
  BY DEF PlaceInv
<1> QED
  BY <1>1, <1>2, <1>3, PTL DEF PSSpec

\* Every play of every invocation has the hosts that its network has in the
\* Supfile, less what --only and --except take away, and with what --sshconfig
\* adds (src/usecase/init_flags_and_checks.go:38-116).
THEOREM HostsAsFilteredAlways == PSSpec => []HostsAsFiltered
<1>1. PSInit => PlaceInv /\ HostsInv
  BY PlaceInit, HostsInit
<1>2. PlaceInv /\ HostsInv /\ [PSNext]_psVars => PlaceInv' /\ HostsInv'
  BY PlaceStep, HostsStep
<1>3. PlaceInv /\ HostsInv => HostsAsFiltered
  BY HostsMeant
<1> QED
  BY <1>1, <1>2, <1>3, PTL DEF PSSpec

\* In every run and local part a variable has the value set nearest to it: by the
\* last command that set it, else by -e, by the network, by the Supfile
\* (src/usecase/appinit/process_env.go:54-82, src/usecase/create_tasks.go:126-165).
THEOREM NearestWinsAlways == PSSpec => []NearestWins
<1>1. PSInit => PlaceInv /\ ValueInv
  BY PlaceInit, ValueInit
<1>2. PlaceInv /\ ValueInv /\ [PSNext]_psVars => PlaceInv' /\ ValueInv'
  BY PlaceStep, ValueStep
<1>3. PlaceInv /\ ValueInv => NearestWins
  BY DEF ValueInv
<1> QED
  BY <1>1, <1>2, <1>3, PTL DEF PSSpec

\* A reference is resolved once, in whichever order the keys of the map come, and
\* no later command changes what it became
\* (src/usecase/envs_resolve/envlist_resolve_vals.go:20-61).
THEOREM ReferencesResolveAlways == PSSpec => []ReferencesResolve
<1>1. PSInit => PlaceInv /\ ValueInv
  BY PlaceInit, ValueInit
<1>2. PlaceInv /\ ValueInv /\ [PSNext]_psVars => PlaceInv' /\ ValueInv'
  BY PlaceStep, ValueStep
<1>3. PlaceInv /\ ValueInv => ReferencesResolve
  BY DEF ValueInv
<1> QED
  BY <1>1, <1>2, <1>3, PTL DEF PSSpec

----------------------------------------------------------------------------
(* sequences one after the other *)

\* What JoinedTo has after i sequences, from what it had before.
JoinStep(list, k, i) == IF i = 0 THEN <<>> ELSE k[i - 1] \o list[i]
JoinUpTo(list, k, m) == k = [i \in 0 .. m |-> JoinStep(list, k, i)]

LEMMA JoinUpToExists == ASSUME NEW list, NEW m \in Nat PROVE \E k : JoinUpTo(list, k, m)
<1> DEFINE T == {j \in 0 .. m : \E k : JoinUpTo(list, k, j)}
<1>1. 0 \in T
  <2> DEFINE k == [i \in 0 .. 0 |-> <<>>]
  <2>1. \A i \in 0 .. 0 : JoinStep(list, k, i) = <<>>
    BY DEF JoinStep
  <2>2. JoinUpTo(list, k, 0)
    BY <2>1 DEF JoinUpTo
  <2> QED
    BY <2>2
<1>2. ASSUME NEW j \in 0 .. m, j < m, j \in T PROVE j + 1 \in T
  <2>1. PICK k : k = [i \in 0 .. j |-> JoinStep(list, k, i)]
    BY <1>2 DEF JoinUpTo
  <2> DEFINE g == [i \in 0 .. j + 1 |-> IF i = j + 1 THEN JoinStep(list, k, i) ELSE k[i]]
  <2>2. ASSUME NEW i \in 0 .. j + 1 PROVE g[i] = JoinStep(list, g, i)
    <3>1. i # 0 => g[i - 1] = k[i - 1]
      OBVIOUS
    <3>2. JoinStep(list, g, i) = JoinStep(list, k, i)
      BY <3>1 DEF JoinStep
    <3>3. i # j + 1 => k[i] = JoinStep(list, k, i)
      BY <2>1
    <3> QED
      BY <3>2, <3>3
  <2>3. g = [i \in 0 .. j + 1 |-> JoinStep(list, g, i)]
    BY <2>2
  <2> HIDE DEF g
  <2> QED
    BY <1>2, <2>3 DEF JoinUpTo
<1> HIDE DEF T
<1>3. m \in T
  BY <1>1, <1>2, Climbs
<1> QED
  BY <1>3 DEF T

\* JoinedTo grows by the next sequence.
LEMMA JoinedGrows ==
    ASSUME NEW X, NEW list \in Seq(Seq(X))
    PROVE  /\ JoinedTo(list, 0) = <<>>
           /\ \A i \in 0 .. Len(list) : JoinedTo(list, i) \in Seq(X)
           /\ \A i \in 0 .. Len(list) :
                 i < Len(list) => JoinedTo(list, i + 1) = JoinedTo(list, i) \o list[i + 1]
<1>1. PICK m \in Nat : m = Len(list)
  OBVIOUS
<1> DEFINE c == CHOOSE k : JoinUpTo(list, k, m)
<1>2. JoinUpTo(list, c, m)
  BY JoinUpToExists
<1>3. \A i : JoinedTo(list, i) = c[i]
  BY <1>1 DEF JoinedTo, JoinUpTo, JoinStep
<1>4. PICK k : k = [i \in 0 .. m |-> JoinStep(list, k, i)] /\ \A i : JoinedTo(list, i) = k[i]
  BY <1>2, <1>3 DEF JoinUpTo
<1> HIDE DEF c
<1>5. k[0] = <<>>
  BY <1>4 DEF JoinStep
<1>6. ASSUME NEW i \in 0 .. m, i < m PROVE k[i + 1] = k[i] \o list[i + 1]
  <2>1. i + 1 \in 0 .. m /\ i + 1 # 0 /\ (i + 1) - 1 = i
    BY <1>6
  <2>2. k[i + 1] = JoinStep(list, k, i + 1)
    BY <1>4, <2>1
  <2> QED
    BY <2>1, <2>2 DEF JoinStep
<1> DEFINE T == {i \in 0 .. m : k[i] \in Seq(X)}
<1>7. 0 \in T
  <2>1. k[0] \in Seq(X)
    BY <1>5, EmptySeq
  <2>2. 0 \in 0 .. m
    OBVIOUS
  <2> QED
    BY <2>1, <2>2
<1>8. ASSUME NEW i \in 0 .. m, i < m, i \in T PROVE i + 1 \in T
  <2>1. i + 1 \in 1 .. m /\ i + 1 \in 0 .. m /\ k[i] \in Seq(X)
    BY <1>8
  <2>2. list[i + 1] \in Seq(X)
    BY <1>1, <2>1, ElementOfSeq
  <2>3. k[i] \o list[i + 1] \in Seq(X)
    BY <2>1, <2>2, ConcatProperties
  <2> QED
    BY <1>6, <1>8, <2>1, <2>3
<1>9. \A i \in 0 .. m : k[i] \in Seq(X)
  <2> HIDE DEF T
  <2>1. \A i \in 0 .. m : i \in T
    BY <1>7, <1>8, Climbs
  <2> QED
    BY <2>1 DEF T
<1> QED
  BY <1>1, <1>4, <1>5, <1>6, <1>9

----------------------------------------------------------------------------
(* the inductive invariant *)

Before == phase \in {"targets", "args"}

\* What each mode starts from.
Modes ==
    /\ Before => /\ ai = 1 /\ ci = 1 /\ result = "none"
                 /\ draft = [net |-> None, cmds |-> <<>>]
                 /\ plays = <<>> /\ supNetwork = <<>>
    /\ phase # "targets" => ti > Len(file.targets)
    /\ phase = "special" => args # <<>> /\ file.networks # {} /\ allArgsAreTargets
    /\ phase = "normal" => args # <<>> /\ file.networks # {} /\ ~allArgsAreTargets
                           /\ draft.net = args[1] /\ ai >= 2
    /\ phase = "makefile" => args # <<>> /\ file.networks = {} /\ draft.net = Localhost
    /\ phase # "done" => result = "none"

BookPlaces == BookTypeOK /\ Modes

ItemsOf(k) == file.targets[k].items

\* A mapped text loses its network once its command has one.
Rewritten(t) == IF t.net # None /\ affix[t.cmd] # None THEN [cmd |-> t.cmd, net |-> None] ELSE t

TextsRewritten ==
    \A k \in 1 .. Len(file.targets) :
        /\ Len(texts[k]) = Len(ItemsOf(k))
        /\ \A j \in 1 .. Len(ItemsOf(k)) : texts[k][j] = Rewritten(ItemsOf(k)[j])

AffixWritten ==
    \A w \in Word : affix[w] # None => \E m \in Mapped : m.cmd = w /\ m.net = affix[w]

\* The texts that are read have their networks.
AffixRead ==
    \A k \in 1 .. Len(file.targets) : \A j \in 1 .. Len(ItemsOf(k)) :
        (k < ti \/ (k = ti /\ j < ii)) /\ ItemsOf(k)[j].net # None =>
            affix[ItemsOf(k)[j].cmd] = ItemsOf(k)[j].net

ReadInv == PlainNames => TextsRewritten /\ AffixWritten /\ AffixRead

\* The plays of the targets, up to the command specialTargetMode is at.
SpecialSoFar ==
    phase = "special" =>
        /\ ai <= Len(args) + 1
        /\ ai <= Len(args) =>
              /\ ci <= Len(PlaysOfTargets[ai]) + 1
              /\ plays = JoinedTo(PlaysOfTargets, ai - 1) \o SubSeq(PlaysOfTargets[ai], 1, ci - 1)
        /\ ai > Len(args) => plays = JoinedTo(PlaysOfTargets, ai - 1)

NormalSoFar ==
    phase = "normal" =>
        /\ ai <= Len(args) + 1
        /\ draft.cmds = JoinedTo(CommandsAfterNetwork, ai - 2)
        /\ plays = <<>> /\ supNetwork = <<>>

MakefileSoFar ==
    phase = "makefile" =>
        /\ ai <= Len(args) + 1
        /\ Len(args) = 1 =>
              IF ai = 1 THEN plays = <<>> /\ draft.cmds = <<>>
              ELSE plays = <<[net |-> Localhost, cmds |-> WrittenCommands(args[1])]>>
        /\ Len(supNetwork) = Len(plays)
        /\ \A k \in 1 .. Len(plays) : plays[k].net = Localhost /\ supNetwork[k] = Localhost

SoFar == PlainNames => SpecialSoFar /\ NormalSoFar /\ MakefileSoFar

BookInv == BookPlaces /\ ReadInv /\ SoFar /\ PlaysAsWritten
----------------------------------------------------------------------------
(* the types *)

LEMMA InputTyped ==
    ASSUME BookTypeOK
    PROVE  /\ file \in File /\ args \in Seq(Word)
           /\ Len(file.targets) \in Nat /\ Len(args) \in Nat
           /\ file.networks \subseteq Word /\ file.commands \subseteq Word
           /\ \A k \in 1 .. Len(file.targets) : file.targets[k] \in Target /\ ItemsOf(k) \in Seq(Text)
           /\ \A k \in 1 .. Len(args) : args[k] \in Word
<1>1. file \in File /\ args \in Seq(Word)
  BY PlaybookAssumption DEF BookTypeOK
<1>2. file.targets \in Seq(Target)
  BY <1>1 DEF File
<1>3. ASSUME NEW k \in 1 .. Len(file.targets) PROVE file.targets[k] \in Target /\ ItemsOf(k) \in Seq(Text)
  <2>1. file.targets[k] \in Target
    BY <1>2, ElementOfSeq
  <2> QED
    BY <2>1 DEF Target, ItemsOf
<1> QED
  BY <1>1, <1>2, <1>3 DEF File

LEMMA ItemTyped ==
    ASSUME BookTypeOK, NEW k \in 1 .. Len(file.targets), NEW j \in 1 .. Len(ItemsOf(k))
    PROVE  /\ ItemsOf(k)[j] \in Text
           /\ ItemsOf(k)[j].cmd \in Word /\ ItemsOf(k)[j].net \in Word \cup {None}
<1>1. ItemsOf(k) \in Seq(Text)
  BY InputTyped
<1>2. ItemsOf(k)[j] \in Text
  BY <1>1, ElementOfSeq
<1> QED
  BY <1>2 DEF Text

LEMMA TextTyped ==
    ASSUME BookTypeOK, NEW k \in 1 .. Len(file.targets)
    PROVE  /\ texts[k] \in Seq(Text) /\ Len(texts[k]) \in Nat
           /\ \A j \in 1 .. Len(texts[k]) : /\ texts[k][j] \in Text
                                            /\ texts[k][j].cmd \in Word
                                            /\ texts[k][j].net \in Word \cup {None}
<1>1. texts[k] \in Seq(Text)
  BY DEF BookTypeOK
<1>2. ASSUME NEW j \in 1 .. Len(texts[k]) PROVE texts[k][j] \in Text
  BY <1>1, ElementOfSeq
<1> QED
  BY <1>1, <1>2 DEF Text

LEMMA TargetPlace ==
    ASSUME NEW name, IsTarget(name)
    PROVE  TargetOf(name) \in 1 .. Len(file.targets)
BY DEF IsTarget, TargetNames, TargetOf

\* Names of a list of texts.
LEMMA NamesTyped ==
    ASSUME NEW list \in Seq(Text)
    PROVE  Names(list) \in Seq(Word) /\ Len(Names(list)) = Len(list)
<1>1. PICK m \in Nat : m = Len(list)
  OBVIOUS
<1>2. ASSUME NEW k \in 1 .. m PROVE list[k].cmd \in Word
  <2>1. list[k] \in Text
    BY <1>1, ElementOfSeq
  <2> QED
    BY <2>1 DEF Text
<1>3. Names(list) \in [1 .. m -> Word]
  BY <1>1, <1>2 DEF Names
<1>4. Names(list) \in Seq(Word)
  BY <1>3, SeqDef
<1>5. 1 .. Len(Names(list)) = 1 .. m /\ Len(Names(list)) \in Nat
  BY <1>3, <1>4, LenProperties
<1> QED
  BY <1>1, <1>4, <1>5

LEMMA CommandsTyped ==
    ASSUME BookTypeOK, NEW arg \in Word
    PROVE  Commands(arg) \in Seq(Text) /\ WrittenCommands(arg) \in Seq(Word)
<1>1. [cmd |-> arg, net |-> None] \in Text
  BY DEF Text
<1>2. IsTarget(arg) => texts[TargetOf(arg)] \in Seq(Text) /\ Names(Items(arg)) \in Seq(Word)
  <2> SUFFICES ASSUME IsTarget(arg) PROVE texts[TargetOf(arg)] \in Seq(Text) /\ Names(Items(arg)) \in Seq(Word)
    OBVIOUS
  <2>1. TargetOf(arg) \in 1 .. Len(file.targets)
    BY TargetPlace
  <2>2. Items(arg) \in Seq(Text)
    BY <2>1, InputTyped DEF Items, ItemsOf
  <2> QED
    BY <2>1, <2>2, TextTyped, NamesTyped
<1> DEFINE a == IF arg \in file.commands THEN << [cmd |-> arg, net |-> None] >> ELSE <<>>
           b == IF IsTarget(arg) THEN texts[TargetOf(arg)] ELSE <<>>
           c == IF arg \in file.commands THEN <<arg>> ELSE <<>>
           d == IF IsTarget(arg) THEN Names(Items(arg)) ELSE <<>>
<1>3. a \in Seq(Text) /\ b \in Seq(Text) /\ c \in Seq(Word) /\ d \in Seq(Word)
  BY <1>1, <1>2
<1>4. Commands(arg) = a \o b /\ WrittenCommands(arg) = c \o d
  BY DEF Commands, WrittenCommands
<1> HIDE DEF a, b, c, d
<1> QED
  BY <1>3, <1>4, ConcatProperties

LEMMA BookPlacesInit == Init => BookPlaces
<1> SUFFICES ASSUME Init PROVE BookPlaces
  OBVIOUS
<1>1. [file |-> file, args |-> args] \in Inputs
  <2>1. PICK in \in Inputs : file = in.file /\ args = in.args
    BY DEF Init
  <2>2. in = [file |-> in.file, args |-> in.args]
    BY PlaybookAssumption
  <2> QED
    BY <2>1, <2>2
<1>2. file.targets \in Seq(Target) /\ Len(file.targets) \in Nat
  BY <1>1, PlaybookAssumption DEF File
<1>3. texts \in [1 .. Len(file.targets) -> Seq(Text)]
  <2>1. \A k \in 1 .. Len(file.targets) : file.targets[k].items \in Seq(Text)
    <3> SUFFICES ASSUME NEW k \in 1 .. Len(file.targets) PROVE file.targets[k].items \in Seq(Text)
      OBVIOUS
    <3>1. file.targets[k] \in Target
      BY <1>2, ElementOfSeq
    <3> QED
      BY <3>1 DEF Target
  <2> QED
    BY <2>1 DEF Init
<1>4. /\ affix \in [Word -> Word \cup {None}]
      /\ draft \in [net : Word \cup {None}, cmds : Seq(Word)]
      /\ plays \in Seq(BookPlay) /\ supNetwork \in Seq(Word)
  BY DEF Init
<1>5. /\ phase = "targets" /\ result = "none"
      /\ ti = 1 /\ ii = 1 /\ ai = 1 /\ ci = 1
  BY DEF Init
<1>6. BookTypeOK
  BY <1>1, <1>3, <1>4, <1>5 DEF BookTypeOK
<1>7. Modes
  BY <1>5 DEF Init, Modes, Before
<1> QED
  BY <1>6, <1>7 DEF BookPlaces

LEMMA ReadItemPlace == BookPlaces /\ ReadItem => BookPlaces'
<1> SUFFICES ASSUME BookPlaces, ReadItem PROVE BookPlaces'
  OBVIOUS
<1> DEFINE part == file.targets[ti].items[ii]
<1>1. BookTypeOK /\ Modes
  BY DEF BookPlaces
<1>2. ti \in 1 .. Len(file.targets) /\ ii \in 1 .. Len(ItemsOf(ti))
  BY <1>1, InputTyped DEF ReadItem, BookTypeOK, ItemsOf
<1>3. part.cmd \in Word /\ part.net \in Word \cup {None}
  BY <1>1, <1>2, ItemTyped DEF ItemsOf
<1>4. affix' \in [Word -> Word \cup {None}]
  BY <1>1, <1>3 DEF ReadItem, BookTypeOK
<1>5. texts' \in [1 .. Len(file.targets) -> Seq(Text)]
  <2>1. CASE part.net = None
    BY <1>1, <2>1 DEF ReadItem, BookTypeOK
  <2>2. CASE part.net # None
    <3> DEFINE new(k) == [j \in 1 .. Len(texts[k]) |->
                            IF Contains(texts[k][j], part.cmd)
                              THEN [cmd |-> part.cmd, net |-> None] ELSE texts[k][j]]
    <3>1. texts' = [k \in DOMAIN texts |-> new(k)]
      BY <2>2 DEF ReadItem
    <3>2. DOMAIN texts = 1 .. Len(file.targets)
      BY <1>1 DEF BookTypeOK
    <3>3. ASSUME NEW k \in 1 .. Len(file.targets) PROVE new(k) \in Seq(Text)
      <4>1. [cmd |-> part.cmd, net |-> None] \in Text
        BY <1>3 DEF Text
      <4>2. PICK m \in Nat : m = Len(texts[k])
        BY <1>1, TextTyped
      <4>3. new(k) \in [1 .. m -> Text]
        BY <1>1, <4>1, <4>2, TextTyped
      <4> HIDE DEF new
      <4> QED
        BY <4>3, SeqDef
    <3> QED
      BY <3>1, <3>2, <3>3
  <2> QED
    BY <2>1, <2>2
<1>6. BookTypeOK'
  BY <1>1, <1>4, <1>5 DEF ReadItem, BookTypeOK
<1>7. Modes'
  BY <1>1 DEF ReadItem, Modes, Before
<1> QED
  BY <1>6, <1>7 DEF BookPlaces

\* The steps that change no list of texts and add no play.
LEMMA QuietPlace ==
    BookPlaces /\ (\/ NextTarget \/ TargetsRead \/ NoArgs \/ SpecialMode \/ NormalMode
                 \/ MakefileMode \/ SpecialNextArg \/ ArgsDone)
        => BookPlaces'
<1> SUFFICES ASSUME BookTypeOK, Modes,
                    \/ NextTarget \/ TargetsRead \/ NoArgs \/ SpecialMode \/ NormalMode
                    \/ MakefileMode \/ SpecialNextArg \/ ArgsDone
             PROVE  BookTypeOK' /\ Modes'
  BY DEF BookPlaces
<1> USE DEF Keep, End
<1>1. CASE NextTarget
  BY <1>1 DEF NextTarget, BookTypeOK, Modes, Before
<1>2. CASE TargetsRead
  BY <1>2 DEF TargetsRead, BookTypeOK, Modes, Before
<1>3. CASE NoArgs
  BY <1>3 DEF NoArgs, BookTypeOK, Modes, Before
<1>4. CASE SpecialMode
  <2>1. BookTypeOK'
    BY <1>4 DEF SpecialMode, BookTypeOK
  <2>2. Modes'
    BY <1>4 DEF SpecialMode, Modes, Before, allArgsAreTargets, IsTarget, TargetNames
  <2> QED
    BY <2>1, <2>2
<1>5. CASE NormalMode
  <2>1. args[1] \in Word /\ args # <<>>
    BY <1>5, InputTyped, EmptySeq DEF NormalMode
  <2>2. BookTypeOK'
    BY <1>5, <2>1 DEF NormalMode, BookTypeOK
  <2>3. Modes'
    <3>1. allArgsAreTargets' = allArgsAreTargets
      BY <1>5 DEF NormalMode, allArgsAreTargets, IsTarget, TargetNames
    <3>2. draft' = draft \/ draft'.net = args[1]
      BY <1>5 DEF NormalMode, BookTypeOK
    <3>3. draft'.net = args[1] \/ phase' = "done"
      BY <1>5 DEF NormalMode, BookTypeOK
    <3> QED
      BY <1>5, <2>1, <3>1, <3>3 DEF NormalMode, Modes, Before
  <2> QED
    BY <2>2, <2>3
<1>6. CASE MakefileMode
  <2>1. draft'.net = Localhost /\ draft' \in [net : Word \cup {None}, cmds : Seq(Word)]
    BY <1>6, PlaybookAssumption DEF MakefileMode, BookTypeOK
  <2>2. BookTypeOK'
    BY <1>6, <2>1 DEF MakefileMode, BookTypeOK
  <2>3. Modes'
    BY <1>6, <2>1 DEF MakefileMode, Modes, Before
  <2> QED
    BY <2>2, <2>3
<1>7. CASE SpecialNextArg
  <2>1. BookTypeOK'
    BY <1>7 DEF SpecialNextArg, BookTypeOK
  <2>2. Modes'
    BY <1>7 DEF SpecialNextArg, Modes, Before, allArgsAreTargets, IsTarget, TargetNames
  <2> QED
    BY <2>1, <2>2
<1>8. CASE ArgsDone
  BY <1>8 DEF ArgsDone, BookTypeOK, Modes, Before
<1> QED
  BY <1>1, <1>2, <1>3, <1>4, <1>5, <1>6, <1>7, <1>8

\* A play is added: to the plays, and its network to $SUP_NETWORK.
LEMMA PlayTyped ==
    ASSUME BookTypeOK, NEW p \in BookPlay, args[1] \in Word, AddPlay(p)
    PROVE  plays' \in Seq(BookPlay) /\ supNetwork' \in Seq(Word)
<1>1. NetworkNamed(p.net) \in Word
  BY PlaybookAssumption DEF NetworkNamed
<1> QED
  BY <1>1 DEF AddPlay, BookTypeOK

\* The text specialTargetMode is at, and the command the other modes are at.
LEMMA ArgTyped ==
    ASSUME BookTypeOK, ai <= Len(args)
    PROVE  ai \in 1 .. Len(args) /\ args[ai] \in Word /\ args[1] \in Word
<1>1. ai \in 1 .. Len(args) /\ 1 \in 1 .. Len(args)
  BY InputTyped DEF BookTypeOK
<1> QED
  BY <1>1, InputTyped

LEMMA SpecialCommandPlace == BookPlaces /\ SpecialCommand => BookPlaces'
<1> SUFFICES ASSUME BookTypeOK, Modes, SpecialCommand PROVE BookTypeOK' /\ Modes'
  BY DEF BookPlaces
<1> USE DEF Keep, End
<1> DEFINE list == texts[TargetOf(args[ai])]
           text == list[ci]
<1>1. ai \in 1 .. Len(args) /\ args[ai] \in Word /\ args[1] \in Word
  BY ArgTyped DEF SpecialCommand
<1>2. IsTarget(args[ai])
  BY <1>1 DEF SpecialCommand, Modes, allArgsAreTargets
<1>3. TargetOf(args[ai]) \in 1 .. Len(file.targets)
  BY <1>2, TargetPlace
<1>4. ci \in 1 .. Len(list)
  BY <1>3, TextTyped DEF SpecialCommand, BookTypeOK
<1>5. text.cmd \in Word
  BY <1>3, <1>4, TextTyped
<1>6. CASE phase' = "done" /\ UNCHANGED <<ci, plays, supNetwork>> /\ result' \in {"status41", "status25"}
  <2>1. BookTypeOK'
    BY <1>6 DEF SpecialCommand, BookTypeOK
  <2>2. Modes'
    BY <1>6 DEF SpecialCommand, Modes, Before
  <2> QED
    BY <2>1, <2>2
<1>7. CASE /\ affix[text.cmd] \in file.networks
           /\ AddPlay([net |-> affix[text.cmd], cmds |-> <<text.cmd>>])
           /\ ci' = ci + 1 /\ UNCHANGED <<phase, result>>
  <2>1. [net |-> affix[text.cmd], cmds |-> <<text.cmd>>] \in BookPlay
    BY <1>5, <1>7, InputTyped DEF BookPlay
  <2>2. plays' \in Seq(BookPlay) /\ supNetwork' \in Seq(Word)
    BY <1>1, <1>7, <2>1, PlayTyped
  <2>3. BookTypeOK'
    BY <1>7, <2>2 DEF SpecialCommand, BookTypeOK
  <2>4. Modes'
    BY <1>7 DEF SpecialCommand, Modes, Before, allArgsAreTargets, IsTarget, TargetNames
  <2> QED
    BY <2>3, <2>4
<1> QED
  BY <1>6, <1>7 DEF SpecialCommand

LEMMA DraftGrows ==
    ASSUME BookTypeOK, NEW arg \in Word, draft' = [draft EXCEPT !.cmds = @ \o Names(Commands(arg))]
    PROVE  /\ draft' \in [net : Word \cup {None}, cmds : Seq(Word)]
           /\ draft'.net = draft.net /\ draft'.cmds = draft.cmds \o Names(Commands(arg))
           /\ draft'.cmds \in Seq(Word)
<1>1. Names(Commands(arg)) \in Seq(Word)
  BY CommandsTyped, NamesTyped
<1>2. draft \in [net : Word \cup {None}, cmds : Seq(Word)]
  BY DEF BookTypeOK
<1>3. draft.cmds \o Names(Commands(arg)) \in Seq(Word)
  BY <1>1, <1>2, ConcatProperties
<1> QED
  BY <1>2, <1>3

LEMMA NormalPlace == BookPlaces /\ (NormalArg \/ NormalDone) => BookPlaces'
<1> SUFFICES ASSUME BookTypeOK, Modes, NormalArg \/ NormalDone PROVE BookTypeOK' /\ Modes'
  BY DEF BookPlaces
<1> USE DEF Keep, End
<1>1. CASE NormalArg /\ phase' = "done" /\ result' \in {"status1", "status2"} /\ UNCHANGED <<draft, ai>>
  <2>1. BookTypeOK'
    BY <1>1 DEF NormalArg, BookTypeOK
  <2>2. Modes'
    BY <1>1 DEF NormalArg, Modes, Before
  <2> QED
    BY <2>1, <2>2
<1>2. CASE /\ NormalArg /\ UNCHANGED <<phase, result>> /\ ai' = ai + 1
           /\ draft' = [draft EXCEPT !.cmds = @ \o Names(Commands(args[ai]))]
  <2>1. args[ai] \in Word
    BY <1>2, ArgTyped DEF NormalArg
  <2>2. draft' \in [net : Word \cup {None}, cmds : Seq(Word)] /\ draft'.net = draft.net
    BY <1>2, <2>1, DraftGrows
  <2>3. BookTypeOK'
    BY <1>2, <2>2 DEF NormalArg, BookTypeOK
  <2>4. ai' >= 2
    BY <1>2 DEF NormalArg, Modes, BookTypeOK
  <2>5. phase = "normal" /\ UNCHANGED <<file, args, ti, phase, result>>
    BY <1>2 DEF NormalArg
  <2>6. Modes'
    BY <2>2, <2>4, <2>5 DEF Modes, Before, allArgsAreTargets, IsTarget, TargetNames
  <2> QED
    BY <2>3, <2>6
<1>3. CASE NormalDone
  <2>1. args # <<>> /\ draft.net = args[1]
    BY <1>3 DEF NormalDone, Modes
  <2>2. args[1] \in Word
    BY <2>1, InputTyped, EmptySeq
  <2>3. draft \in BookPlay
    BY <2>1, <2>2 DEF BookPlay, BookTypeOK
  <2>4. plays' \in Seq(BookPlay) /\ supNetwork' \in Seq(Word)
    BY <1>3, <2>2, <2>3, PlayTyped DEF NormalDone
  <2>5. BookTypeOK'
    BY <1>3, <2>4 DEF NormalDone, BookTypeOK
  <2>6. Modes'
    BY <1>3 DEF NormalDone, Modes, Before
  <2> QED
    BY <2>5, <2>6
<1> QED
  BY <1>1, <1>2, <1>3 DEF NormalArg

LEMMA MakefilePlace == BookPlaces /\ MakefileArg => BookPlaces'
<1> SUFFICES ASSUME BookTypeOK, Modes, MakefileArg PROVE BookTypeOK' /\ Modes'
  BY DEF BookPlaces
<1> USE DEF Keep, End
<1>1. CASE phase' = "done" /\ result' = "status2" /\ UNCHANGED <<draft, plays, supNetwork, ai>>
  <2>1. BookTypeOK'
    BY <1>1 DEF MakefileArg, BookTypeOK
  <2>2. Modes'
    BY <1>1 DEF MakefileArg, Modes, Before
  <2> QED
    BY <2>1, <2>2
<1>2. CASE /\ UNCHANGED <<phase, result>> /\ ai' = ai + 1 /\ AddPlay(draft')
           /\ draft' = [draft EXCEPT !.cmds = @ \o Names(Commands(args[ai]))]
  <2>1. args[ai] \in Word
    BY ArgTyped DEF MakefileArg
  <2>2. draft' \in [net : Word \cup {None}, cmds : Seq(Word)] /\ draft'.net = draft.net
    BY <1>2, <2>1, DraftGrows
  <2>3. draft.net = Localhost /\ Localhost \in Word
    BY PlaybookAssumption DEF MakefileArg, Modes
  <2>4. draft' \in BookPlay
    BY <2>2, <2>3 DEF BookPlay
  <2>5. plays' \in Seq(BookPlay) /\ supNetwork' \in Seq(Word)
    BY <1>2, <2>1, <2>4, ArgTyped, PlayTyped DEF MakefileArg
  <2>6. BookTypeOK'
    BY <1>2, <2>2, <2>5 DEF MakefileArg, BookTypeOK
  <2>7. phase = "makefile" /\ UNCHANGED <<file, args, ti, phase, result>>
    BY <1>2 DEF MakefileArg
  <2>8. Modes'
    BY <2>2, <2>7 DEF Modes, Before
  <2> QED
    BY <2>6, <2>8
<1> QED
  BY <1>1, <1>2 DEF MakefileArg

LEMMA BookPlacesStep == BookPlaces /\ [Next]_bookVars => BookPlaces'
<1> SUFFICES ASSUME BookPlaces, [Next]_bookVars PROVE BookPlaces'
  OBVIOUS
<1>1. CASE UNCHANGED bookVars
  <2>1. BookTypeOK'
    BY <1>1 DEF BookPlaces, bookVars, BookTypeOK
  <2>2. Modes'
    BY <1>1 DEF BookPlaces, bookVars, Modes, Before, allArgsAreTargets, IsTarget, TargetNames
  <2> QED
    BY <2>1, <2>2 DEF BookPlaces
<1> QED
  BY <1>1, ReadItemPlace, QuietPlace, SpecialCommandPlace, NormalPlace, MakefilePlace DEF Next

LEMMA BookPlacesAlways == Spec => []BookPlaces
<1> QED
  BY BookPlacesInit, BookPlacesStep, PTL DEF Spec

\* Whatever the Supfile and the command line, the reading of the targets and
\* the three modes keep the types (parse_args.go:19-77).
THEOREM BookTypeCorrect == Spec => []BookTypeOK
<1>1. BookPlaces => BookTypeOK
  BY DEF BookPlaces
<1> QED
  BY <1>1, BookPlacesAlways, PTL

----------------------------------------------------------------------------
(* reading the targets *)

LEMMA ItemKnown ==
    ASSUME BookTypeOK, NEW k \in 1 .. Len(file.targets), NEW j \in 1 .. Len(ItemsOf(k))
    PROVE  /\ ItemsOf(k)[j] \in AllTexts
           /\ ItemsOf(k)[j].net # None => ItemsOf(k)[j] \in Mapped
<1>1. file.targets[k] \in {file.targets[i] : i \in 1 .. Len(file.targets)}
  OBVIOUS
<1>2. ItemsOf(k)[j] \in {file.targets[k].items[i] : i \in 1 .. Len(file.targets[k].items)}
  BY DEF ItemsOf
<1>3. ItemsOf(k)[j] \in AllTexts
  BY <1>1, <1>2 DEF AllTexts
<1> QED
  BY <1>3 DEF Mapped

\* If names are plain, a text read twice or mapped twice has one network.
LEMMA PlainTexts ==
    ASSUME PlainNames, NEW m \in Mapped, NEW t \in AllTexts
    PROVE  (Contains(t, m.cmd) => t.cmd = m.cmd) /\ (t.cmd = m.cmd => t.net = m.net)
BY DEF PlainNames

LEMMA SameInput ==
    UNCHANGED <<file, args>> =>
        /\ PlainNames' = PlainNames /\ Mapped' = Mapped /\ AllTexts' = AllTexts
        /\ \A k : ItemsOf(k)' = ItemsOf(k)
        /\ \A a : WrittenCommands(a)' = WrittenCommands(a) /\ WrittenPlays(a)' = WrittenPlays(a)
        /\ PlaysOfTargets' = PlaysOfTargets /\ CommandsAfterNetwork' = CommandsAfterNetwork
        /\ allArgsAreTargets' = allArgsAreTargets
        /\ \A a : IsTarget(a)' = IsTarget(a) /\ TargetOf(a)' = TargetOf(a)
<1> SUFFICES ASSUME UNCHANGED <<file, args>>
             PROVE  /\ PlainNames' = PlainNames /\ Mapped' = Mapped /\ AllTexts' = AllTexts
                    /\ \A k : ItemsOf(k)' = ItemsOf(k)
                    /\ \A a : WrittenCommands(a)' = WrittenCommands(a) /\ WrittenPlays(a)' = WrittenPlays(a)
                    /\ PlaysOfTargets' = PlaysOfTargets /\ CommandsAfterNetwork' = CommandsAfterNetwork
                    /\ allArgsAreTargets' = allArgsAreTargets
                    /\ \A a : IsTarget(a)' = IsTarget(a) /\ TargetOf(a)' = TargetOf(a)
  OBVIOUS
<1>1. Mapped' = Mapped /\ AllTexts' = AllTexts
  BY DEF AllTexts, Mapped
<1>2. \A a : IsTarget(a)' = IsTarget(a) /\ TargetOf(a)' = TargetOf(a)
  BY DEF IsTarget, TargetNames, TargetOf
<1>3. \A a : WrittenCommands(a)' = WrittenCommands(a) /\ WrittenPlays(a)' = WrittenPlays(a)
  BY DEF WrittenCommands, WrittenPlays, Items, TargetOf, IsTarget, TargetNames
<1>4. allArgsAreTargets' = allArgsAreTargets
  BY DEF allArgsAreTargets, IsTarget, TargetNames
<1>5. PlaysOfTargets' = PlaysOfTargets /\ CommandsAfterNetwork' = CommandsAfterNetwork
  BY DEF PlaysOfTargets, CommandsAfterNetwork, WrittenCommands, WrittenPlays, Items, TargetOf, IsTarget,
         TargetNames
<1>6. PlainNames' = PlainNames
  BY DEF PlainNames, Mapped, AllTexts
<1> QED
  BY <1>1, <1>2, <1>3, <1>4, <1>5, <1>6 DEF ItemsOf

LEMMA ReadInit == Init /\ BookPlaces => ReadInv
<1> SUFFICES ASSUME Init, BookTypeOK PROVE TextsRewritten /\ AffixWritten /\ AffixRead
  BY DEF BookPlaces, ReadInv
<1>1. \A w \in Word : affix[w] = None
  BY DEF Init
<1>2. ti = 1 /\ ii = 1 /\ texts = [k \in 1 .. Len(file.targets) |-> file.targets[k].items]
  BY DEF Init
<1>3. TextsRewritten
  <2> SUFFICES ASSUME NEW k \in 1 .. Len(file.targets)
               PROVE  /\ Len(texts[k]) = Len(ItemsOf(k))
                      /\ \A j \in 1 .. Len(ItemsOf(k)) : texts[k][j] = Rewritten(ItemsOf(k)[j])
    BY DEF TextsRewritten
  <2>1. texts[k] = ItemsOf(k)
    BY <1>2 DEF ItemsOf
  <2>2. ASSUME NEW j \in 1 .. Len(ItemsOf(k)) PROVE Rewritten(ItemsOf(k)[j]) = ItemsOf(k)[j]
    <3>1. ItemsOf(k)[j].cmd \in Word
      BY ItemTyped
    <3> QED
      BY <1>1, <3>1 DEF Rewritten
  <2> QED
    BY <2>1, <2>2
<1>4. AffixWritten
  BY <1>1 DEF AffixWritten
<1>5. AffixRead
  <2>1. \A k \in 1 .. Len(file.targets) : \A j \in 1 .. Len(ItemsOf(k)) :
            ~(k < ti \/ (k = ti /\ j < ii))
    <3> SUFFICES ASSUME NEW k \in 1 .. Len(file.targets), NEW j \in 1 .. Len(ItemsOf(k))
                 PROVE  ~(k < ti \/ (k = ti /\ j < ii))
      OBVIOUS
    <3>1. Len(file.targets) \in Nat /\ ItemsOf(k) \in Seq(Text)
      BY InputTyped
    <3>2. Len(ItemsOf(k)) \in Nat
      BY <3>1
    <3> QED
      BY <1>2, <3>1, <3>2
  <2> QED
    BY <2>1 DEF AffixRead
<1> QED
  BY <1>3, <1>4, <1>5

\* A bare text leaves the maps, and a text "command network" rewrites those
\* texts that are of its command.
LEMMA ReadItemRead == BookPlaces /\ ReadInv /\ ReadItem => ReadInv'
<1> SUFFICES ASSUME BookTypeOK, ReadInv, ReadItem, PlainNames
             PROVE  TextsRewritten' /\ AffixWritten' /\ AffixRead'
  BY SameInput DEF BookPlaces, ReadInv, ReadItem
<1>1. TextsRewritten /\ AffixWritten /\ AffixRead
  BY DEF ReadInv
<1>2. ti \in 1 .. Len(file.targets) /\ ii \in 1 .. Len(ItemsOf(ti)) /\ Len(file.targets) \in Nat
  BY InputTyped DEF ReadItem, BookTypeOK, ItemsOf
<1>3. PICK part : part = ItemsOf(ti)[ii]
  OBVIOUS
<1>4. part.cmd \in Word /\ part.net \in Word \cup {None} /\ part \in AllTexts
  BY <1>2, <1>3, ItemTyped, ItemKnown
<1>5. part.net # None => part \in Mapped
  BY <1>2, <1>3, ItemKnown
<1>6. UNCHANGED <<file, args, ti>> /\ ii' = ii + 1
  BY DEF ReadItem
<1>7. /\ PlainNames' = PlainNames /\ Mapped' = Mapped /\ \A k : ItemsOf(k)' = ItemsOf(k)
  BY <1>6, SameInput
<1>8. /\ part.net = None => UNCHANGED <<texts, affix>>
      /\ part.net # None =>
            /\ affix' = [affix EXCEPT ![part.cmd] = part.net]
            /\ texts' = [k \in DOMAIN texts |->
                            [j \in 1 .. Len(texts[k]) |->
                               IF Contains(texts[k][j], part.cmd)
                                 THEN [cmd |-> part.cmd, net |-> None]
                                 ELSE texts[k][j]]]
  BY <1>3 DEF ReadItem, ItemsOf
<1>9. affix \in [Word -> Word \cup {None}] /\ DOMAIN texts = 1 .. Len(file.targets)
  BY DEF BookTypeOK
<1>10. ASSUME NEW w \in Word
       PROVE  affix'[w] = IF part.net # None /\ w = part.cmd THEN part.net ELSE affix[w]
  BY <1>4, <1>8, <1>9
<1>11. AffixWritten'
  <2> SUFFICES ASSUME NEW w \in Word, affix'[w] # None
               PROVE  \E m \in Mapped : m.cmd = w /\ m.net = affix'[w]
    BY <1>7 DEF AffixWritten
  <2>1. CASE part.net # None /\ w = part.cmd
    BY <1>5, <1>10, <2>1
  <2>2. CASE ~(part.net # None /\ w = part.cmd)
    BY <1>1, <1>10, <2>2 DEF AffixWritten
  <2> QED
    BY <2>1, <2>2
<1>12. AffixRead'
  <2> SUFFICES ASSUME NEW k \in 1 .. Len(file.targets), NEW j \in 1 .. Len(ItemsOf(k)),
                      k < ti \/ (k = ti /\ j < ii + 1), ItemsOf(k)[j].net # None
               PROVE  affix'[ItemsOf(k)[j].cmd] = ItemsOf(k)[j].net
    BY <1>6, <1>7 DEF AffixRead
  <2>1. PICK t : t = ItemsOf(k)[j]
    OBVIOUS
  <2>2. t.cmd \in Word /\ t \in AllTexts /\ t.net # None
    BY <2>1, ItemTyped, ItemKnown
  <2>3. CASE part.net # None /\ t.cmd = part.cmd
    <3>1. t.net = part.net
      BY <1>5, <2>2, <2>3, PlainTexts
    <3> QED
      BY <1>10, <2>1, <2>2, <2>3, <3>1
  <2>4. CASE ~(part.net # None /\ t.cmd = part.cmd)
    <3>1. affix'[t.cmd] = affix[t.cmd]
      BY <1>10, <2>2, <2>4
    <3>2. ~(k = ti /\ j = ii)
      BY <1>3, <2>1, <2>2, <2>4
    <3>3. k < ti \/ (k = ti /\ j < ii)
      <4>1. Len(ItemsOf(k)) \in Nat
        BY InputTyped
      <4>2. j \in Nat /\ ii \in Nat
        BY <4>1 DEF BookTypeOK
      <4> QED
        BY <3>2, <4>2
    <3>4. affix[t.cmd] = t.net
      BY <1>1, <2>1, <3>3 DEF AffixRead
    <3> QED
      BY <2>1, <3>1, <3>4
  <2> QED
    BY <2>3, <2>4
<1>13. TextsRewritten'
  <2> SUFFICES ASSUME NEW k \in 1 .. Len(file.targets)
               PROVE  /\ Len(texts'[k]) = Len(ItemsOf(k))
                      /\ \A j \in 1 .. Len(ItemsOf(k)) : texts'[k][j] = Rewritten(ItemsOf(k)[j])'
    BY <1>6, <1>7 DEF TextsRewritten, ItemsOf
  <2>1. /\ Len(texts[k]) = Len(ItemsOf(k)) /\ Len(texts[k]) \in Nat
        /\ \A j \in 1 .. Len(ItemsOf(k)) : texts[k][j] = Rewritten(ItemsOf(k)[j])
    BY <1>1, TextTyped DEF TextsRewritten
  <2>2. CASE part.net = None
    <3>1. UNCHANGED <<texts, affix>>
      BY <1>8, <2>2
    <3>2. \A j : Rewritten(ItemsOf(k)[j])' = Rewritten(ItemsOf(k)[j])
      BY <1>7, <3>1 DEF Rewritten
    <3> QED
      BY <2>1, <3>1, <3>2
  <2>3. CASE part.net # None
    <3>1. texts'[k] = [j \in 1 .. Len(texts[k]) |->
                          IF Contains(texts[k][j], part.cmd)
                            THEN [cmd |-> part.cmd, net |-> None] ELSE texts[k][j]]
      BY <1>8, <1>9, <2>3
    <3>2. Len(texts'[k]) = Len(texts[k])
      BY <2>1, <3>1
    <3>3. ASSUME NEW j \in 1 .. Len(ItemsOf(k))
          PROVE  texts'[k][j] = Rewritten(ItemsOf(k)[j])'
      <4>1. PICK t : t = ItemsOf(k)[j]
        OBVIOUS
      <4>2. t \in Text /\ t.cmd \in Word /\ t \in AllTexts
        BY <4>1, ItemTyped, ItemKnown
      <4>3. PICK r : r = texts[k][j]
        OBVIOUS
      <4>4. r = IF t.net # None /\ affix[t.cmd] # None THEN [cmd |-> t.cmd, net |-> None] ELSE t
        BY <2>1, <4>1, <4>3 DEF Rewritten
      <4>5. texts'[k][j] = IF Contains(r, part.cmd) THEN [cmd |-> part.cmd, net |-> None] ELSE r
        BY <2>1, <3>1, <4>3
      <4>6. Rewritten(ItemsOf(k)[j])' =
                IF t.net # None /\ affix'[t.cmd] # None THEN [cmd |-> t.cmd, net |-> None] ELSE t
        BY <1>7, <4>1 DEF Rewritten
      <4>7. CASE t.cmd = part.cmd
        <5>1. t.net = part.net
          BY <1>5, <2>3, <4>2, <4>7, PlainTexts
        <5>2. affix'[t.cmd] # None
          BY <1>10, <2>3, <4>2, <4>7
        <5>3. Contains(r, part.cmd)
          <6>1. r.cmd = part.cmd
            BY <4>4, <4>7
          <6> QED
            BY <1>4, <6>1, PlaybookAssumption DEF Contains
        <5> QED
          BY <2>3, <4>5, <4>6, <4>7, <5>1, <5>2, <5>3
      <4>8. CASE t.cmd # part.cmd
        <5>1. ~Contains(t, part.cmd)
          BY <1>5, <2>3, <4>2, <4>8, PlainTexts
        <5>2. ~Contains(r, part.cmd)
          BY <4>4, <5>1 DEF Contains
        <5>3. affix'[t.cmd] = affix[t.cmd]
          BY <1>10, <4>2, <4>8
        <5> QED
          BY <4>4, <4>5, <4>6, <5>2, <5>3
      <4> QED
        BY <4>7, <4>8
    <3> QED
      BY <2>1, <3>2, <3>3
  <2> QED
    BY <2>2, <2>3
<1> QED
  BY <1>11, <1>12, <1>13

\* Only the reading of items changes what is read.
LEMMA ReadStep == BookPlaces /\ ReadInv /\ [Next]_bookVars => ReadInv'
<1> SUFFICES ASSUME BookTypeOK, Modes, ReadInv, [Next]_bookVars PROVE ReadInv'
  BY DEF BookPlaces
<1>1. CASE ReadItem
  BY <1>1, ReadItemRead DEF BookPlaces
<1>2. CASE NextTarget
  <2>1. UNCHANGED <<file, args, texts, affix>> /\ ti' = ti + 1 /\ ii' = 1 /\ ii > Len(ItemsOf(ti))
    BY <1>2 DEF NextTarget, ItemsOf
  <2>2. /\ PlainNames' = PlainNames /\ Mapped' = Mapped /\ \A k : ItemsOf(k)' = ItemsOf(k)
    BY <2>1, SameInput
  <2>3. AffixWritten => AffixWritten'
    BY <2>1, <2>2 DEF AffixWritten
  <2>4. TextsRewritten => TextsRewritten'
    <3>1. \A t : Rewritten(t)' = Rewritten(t)
      BY <2>1 DEF Rewritten
    <3> QED
      BY <2>1, <3>1 DEF TextsRewritten, ItemsOf, Rewritten
  <2>5. AffixRead => AffixRead'
    <3> SUFFICES ASSUME AffixRead, NEW k \in 1 .. Len(file.targets), NEW j \in 1 .. Len(ItemsOf(k)),
                        k < ti + 1 \/ (k = ti + 1 /\ j < 1), ItemsOf(k)[j].net # None
                 PROVE  affix[ItemsOf(k)[j].cmd] = ItemsOf(k)[j].net
      BY <2>1, <2>2 DEF AffixRead
    <3>1. Len(ItemsOf(k)) \in Nat /\ Len(file.targets) \in Nat
      BY InputTyped
    <3>2. k \in Nat /\ ti \in Nat /\ j \in Nat /\ ii \in Nat
      BY <3>1 DEF BookTypeOK
    <3>3. k < ti \/ (k = ti /\ j < ii)
      BY <2>1, <3>1, <3>2
    <3> QED
      BY <3>3 DEF AffixRead
  <2> QED
    BY <2>2, <2>3, <2>4, <2>5 DEF ReadInv
<1>3. CASE UNCHANGED <<file, args, texts, affix, ti, ii>>
  <2>1. /\ PlainNames' = PlainNames /\ Mapped' = Mapped /\ \A k : ItemsOf(k)' = ItemsOf(k)
    BY <1>3, SameInput
  <2>2. AffixWritten => AffixWritten'
    BY <1>3, <2>1 DEF AffixWritten
  <2>3. TextsRewritten => TextsRewritten'
    BY <1>3 DEF TextsRewritten, ItemsOf, Rewritten
  <2>4. AffixRead => AffixRead'
    BY <1>3, <2>1 DEF AffixRead
  <2> QED
    BY <2>1, <2>2, <2>3, <2>4 DEF ReadInv
<1>4. ReadItem \/ NextTarget \/ UNCHANGED <<file, args, texts, affix, ti, ii>>
  BY DEF Next, Keep, TargetsRead, NoArgs, SpecialMode, NormalMode, MakefileMode, SpecialCommand,
         SpecialNextArg, NormalArg, NormalDone, MakefileArg, ArgsDone, bookVars
<1> QED
  BY <1>1, <1>2, <1>3, <1>4

----------------------------------------------------------------------------
(* the plays of each mode *)

\* Once the targets are read, every text is its command, and the command's
\* network is the one the text was written with.
LEMMA AfterReading ==
    ASSUME BookPlaces, ReadInv, PlainNames, phase # "targets",
           NEW k \in 1 .. Len(file.targets)
    PROVE  /\ Len(texts[k]) = Len(ItemsOf(k)) /\ Len(ItemsOf(k)) \in Nat
           /\ \A j \in 1 .. Len(ItemsOf(k)) :
                 /\ texts[k][j].cmd = ItemsOf(k)[j].cmd /\ texts[k][j].net = None
                 /\ affix[ItemsOf(k)[j].cmd] = ItemsOf(k)[j].net
<1>1. BookTypeOK /\ ti > Len(file.targets) /\ TextsRewritten /\ AffixWritten /\ AffixRead
  BY DEF BookPlaces, Modes, ReadInv
<1>2. k < ti
  BY <1>1, InputTyped DEF BookTypeOK
<1>3. ASSUME NEW j \in 1 .. Len(ItemsOf(k))
      PROVE  /\ texts[k][j].cmd = ItemsOf(k)[j].cmd /\ texts[k][j].net = None
             /\ affix[ItemsOf(k)[j].cmd] = ItemsOf(k)[j].net
  <2>1. PICK t : t = ItemsOf(k)[j]
    OBVIOUS
  <2>2. t.cmd \in Word /\ t \in AllTexts
    BY <1>1, <2>1, ItemTyped, ItemKnown
  <2>3. texts[k][j] = IF t.net # None /\ affix[t.cmd] # None THEN [cmd |-> t.cmd, net |-> None] ELSE t
    BY <1>1, <2>1 DEF TextsRewritten, Rewritten
  <2>4. affix[t.cmd] = t.net
    <3>1. CASE t.net # None
      BY <1>1, <1>2, <2>1, <3>1 DEF AffixRead
    <3>2. CASE t.net = None
      <4> SUFFICES ASSUME affix[t.cmd] # None PROVE FALSE
        BY <3>2
      <4>1. PICK m \in Mapped : m.cmd = t.cmd
        BY <1>1, <2>2 DEF AffixWritten
      <4>2. m.net = None
        BY <2>2, <3>2, <4>1, PlainTexts
      <4> QED
        BY <4>2 DEF Mapped
    <3> QED
      BY <3>1, <3>2
  <2>5. texts[k][j].cmd = t.cmd /\ texts[k][j].net = None
    BY <2>3, <2>4
  <2> QED
    BY <2>1, <2>4, <2>5
<1>4. Len(texts[k]) = Len(ItemsOf(k)) /\ Len(ItemsOf(k)) \in Nat
  BY <1>1, TextTyped DEF TextsRewritten
<1> QED
  BY <1>3, <1>4

LEMMA NamesConcat ==
    ASSUME NEW s \in Seq(Text), NEW t \in Seq(Text)
    PROVE  Names(s \o t) = Names(s) \o Names(t)
<1>1. PICK m \in Nat : m = Len(s)
  OBVIOUS
<1>2. PICK n \in Nat : n = Len(t)
  OBVIOUS
<1>3. /\ s \o t \in Seq(Text) /\ Len(s \o t) = m + n
      /\ \A i \in 1 .. m + n : (s \o t)[i] = IF i <= m THEN s[i] ELSE t[i - m]
  BY <1>1, <1>2, ConcatProperties
<1>4. /\ Names(s) \in Seq(Word) /\ Len(Names(s)) = m
      /\ Names(t) \in Seq(Word) /\ Len(Names(t)) = n
      /\ Names(s \o t) \in Seq(Word) /\ Len(Names(s \o t)) = m + n
  BY <1>1, <1>2, <1>3, NamesTyped
<1>5. /\ Names(s) \o Names(t) \in Seq(Word) /\ Len(Names(s) \o Names(t)) = m + n
      /\ \A i \in 1 .. m + n :
            (Names(s) \o Names(t))[i] = IF i <= m THEN Names(s)[i] ELSE Names(t)[i - m]
  BY <1>4, ConcatProperties
<1>6. ASSUME NEW i \in 1 .. m + n PROVE Names(s \o t)[i] = (Names(s) \o Names(t))[i]
  <2>1. Names(s \o t)[i] = (s \o t)[i].cmd
    BY <1>3 DEF Names
  <2>2. CASE i <= m
    <3>1. i \in 1 .. m
      BY <2>2
    <3>2. Names(s)[i] = s[i].cmd
      BY <1>1, <3>1 DEF Names
    <3> QED
      BY <1>3, <1>5, <2>1, <2>2, <3>2
  <2>3. CASE ~(i <= m)
    <3>1. i - m \in 1 .. n
      BY <2>3
    <3>2. Names(t)[i - m] = t[i - m].cmd
      BY <1>2, <3>1 DEF Names
    <3> QED
      BY <1>3, <1>5, <2>1, <2>3, <3>2
  <2> QED
    BY <2>2, <2>3
<1> QED
  BY <1>4, <1>5, <1>6, SeqEqual

\* The commands of an argument are those that are written.
LEMMA CommandsAsWritten ==
    ASSUME BookPlaces, ReadInv, PlainNames, phase # "targets", NEW arg \in Word
    PROVE  Names(Commands(arg)) = WrittenCommands(arg)
<1> DEFINE a == IF arg \in file.commands THEN << [cmd |-> arg, net |-> None] >> ELSE <<>>
           b == IF IsTarget(arg) THEN texts[TargetOf(arg)] ELSE <<>>
           c == IF arg \in file.commands THEN <<arg>> ELSE <<>>
           d == IF IsTarget(arg) THEN Names(Items(arg)) ELSE <<>>
<1>1. BookTypeOK
  BY DEF BookPlaces
<1>2. a \in Seq(Text) /\ Names(a) = c
  <2>1. [cmd |-> arg, net |-> None] \in Text
    BY DEF Text
  <2>2. Names(<< [cmd |-> arg, net |-> None] >>) = <<arg>>
    BY DEF Names
  <2>3. Names(<<>>) = <<>>
    BY DEF Names
  <2> QED
    BY <2>1, <2>2, <2>3
<1>3. b \in Seq(Text) /\ Names(b) = d
  <2>1. CASE IsTarget(arg)
    <3>1. PICK k \in 1 .. Len(file.targets) : k = TargetOf(arg)
      BY <2>1, TargetPlace
    <3>2. Items(arg) = ItemsOf(k)
      BY <3>1 DEF Items, ItemsOf
    <3>3. /\ Len(texts[k]) = Len(ItemsOf(k))
          /\ \A j \in 1 .. Len(ItemsOf(k)) : texts[k][j].cmd = ItemsOf(k)[j].cmd
      BY AfterReading
    <3>4. Names(texts[k]) = Names(ItemsOf(k))
      BY <3>3 DEF Names
    <3> QED
      BY <1>1, <2>1, <3>1, <3>2, <3>4, TextTyped
  <2>2. CASE ~IsTarget(arg)
    <3>1. Names(<<>>) = <<>>
      BY DEF Names
    <3> QED
      BY <2>2, <3>1
  <2> QED
    BY <2>1, <2>2
<1>4. Commands(arg) = a \o b /\ WrittenCommands(arg) = c \o d
  BY DEF Commands, WrittenCommands
<1> HIDE DEF a, b, c, d
<1> QED
  BY <1>2, <1>3, <1>4, NamesConcat

\* A play whose network may be none.
WrittenPlay == [net : Word \cup {None}, cmds : Seq(Word)]

LEMMA WrittenPlaysTyped ==
    ASSUME BookTypeOK, NEW arg, IsTarget(arg)
    PROVE  /\ WrittenPlays(arg) \in Seq(WrittenPlay)
           /\ Len(WrittenPlays(arg)) = Len(Items(arg)) /\ Len(Items(arg)) \in Nat
<1>1. PICK k \in 1 .. Len(file.targets) : k = TargetOf(arg)
  BY TargetPlace
<1>2. Items(arg) = ItemsOf(k) /\ ItemsOf(k) \in Seq(Text)
  BY <1>1, InputTyped DEF Items, ItemsOf
<1>3. PICK m \in Nat : m = Len(Items(arg))
  BY <1>2
<1>4. ASSUME NEW j \in 1 .. m
      PROVE  [net |-> Items(arg)[j].net, cmds |-> <<Items(arg)[j].cmd>>] \in WrittenPlay
  <2>1. Items(arg)[j].cmd \in Word /\ Items(arg)[j].net \in Word \cup {None}
    BY <1>2, <1>3, ItemTyped
  <2> QED
    BY <2>1 DEF WrittenPlay
<1>5. WrittenPlays(arg) \in [1 .. m -> WrittenPlay]
  BY <1>3, <1>4 DEF WrittenPlays
<1>6. WrittenPlays(arg) \in Seq(WrittenPlay)
  BY <1>5, SeqDef
<1>7. 1 .. Len(WrittenPlays(arg)) = 1 .. m /\ Len(WrittenPlays(arg)) \in Nat
  BY <1>5, <1>6, LenProperties
<1> QED
  BY <1>3, <1>6, <1>7

LEMMA PlaysOfTargetsTyped ==
    ASSUME BookTypeOK, allArgsAreTargets
    PROVE  /\ PlaysOfTargets \in Seq(Seq(WrittenPlay)) /\ Len(PlaysOfTargets) = Len(args)
           /\ \A k \in 1 .. Len(args) : PlaysOfTargets[k] = WrittenPlays(args[k])
<1>1. PICK m \in Nat : m = Len(args)
  BY InputTyped
<1>2. PlaysOfTargets \in [1 .. m -> Seq(WrittenPlay)]
  BY <1>1, WrittenPlaysTyped DEF PlaysOfTargets, allArgsAreTargets
<1>3. PlaysOfTargets \in Seq(Seq(WrittenPlay))
  BY <1>2, SeqDef
<1>4. 1 .. Len(PlaysOfTargets) = 1 .. m /\ Len(PlaysOfTargets) \in Nat
  BY <1>2, <1>3, LenProperties
<1> QED
  BY <1>1, <1>3, <1>4 DEF PlaysOfTargets

LEMMA CommandsAfterTyped ==
    ASSUME BookTypeOK, args # <<>>
    PROVE  /\ CommandsAfterNetwork \in Seq(Seq(Word)) /\ Len(CommandsAfterNetwork) = Len(args) - 1
           /\ \A k \in 1 .. Len(args) - 1 : CommandsAfterNetwork[k] = WrittenCommands(args[k + 1])
<1>1. PICK m \in Nat : m = Len(args) - 1
  BY InputTyped, EmptySeq
<1>2. ASSUME NEW k \in 1 .. m PROVE WrittenCommands(args[k + 1]) \in Seq(Word)
  <2>1. k + 1 \in 1 .. Len(args)
    BY <1>1, InputTyped
  <2> QED
    BY <2>1, InputTyped, CommandsTyped
<1>3. CommandsAfterNetwork \in [1 .. m -> Seq(Word)]
  BY <1>1, <1>2 DEF CommandsAfterNetwork
<1>4. CommandsAfterNetwork \in Seq(Seq(Word))
  BY <1>3, SeqDef
<1>5. 1 .. Len(CommandsAfterNetwork) = 1 .. m /\ Len(CommandsAfterNetwork) \in Nat
  BY <1>3, <1>4, LenProperties
<1> QED
  BY <1>1, <1>4, <1>5 DEF CommandsAfterNetwork

\* specialTargetMode adds the next play of the target it is at.
LEMMA SpecialKept ==
    ASSUME BookPlaces, ReadInv, PlainNames, SpecialSoFar, phase' = "special",
           SpecialMode \/ SpecialCommand \/ SpecialNextArg
    PROVE  SpecialSoFar'
<1> DEFINE J(n) == JoinedTo(PlaysOfTargets, n)
           W == PlaysOfTargets[ai]
<1>1. BookTypeOK /\ Modes /\ Len(args) \in Nat /\ ai \in Nat \ {0} /\ ci \in Nat \ {0}
  BY InputTyped DEF BookPlaces, BookTypeOK
<1>2. allArgsAreTargets
  BY <1>1 DEF Modes, SpecialMode, SpecialCommand, SpecialNextArg
<1>3. UNCHANGED <<file, args>>
  BY DEF SpecialMode, SpecialCommand, SpecialNextArg, Keep
<1>4. PlaysOfTargets' = PlaysOfTargets
  BY <1>3, SameInput
<1>5. PICK m \in Nat : m = Len(args)
  BY <1>1
<1>6. /\ PlaysOfTargets \in Seq(Seq(WrittenPlay)) /\ Len(PlaysOfTargets) = m
      /\ \A k \in 1 .. m : PlaysOfTargets[k] = WrittenPlays(args[k])
  BY <1>1, <1>2, <1>5, PlaysOfTargetsTyped
<1>7. /\ J(0) = <<>>
      /\ \A i \in 0 .. m : J(i) \in Seq(WrittenPlay)
      /\ \A i \in 0 .. m : i < m => J(i + 1) = J(i) \o PlaysOfTargets[i + 1]
  BY <1>6, JoinedGrows
<1>8. ASSUME NEW k \in 1 .. m
      PROVE  /\ PlaysOfTargets[k] \in Seq(WrittenPlay)
             /\ Len(PlaysOfTargets[k]) = Len(Items(args[k])) /\ Len(Items(args[k])) \in Nat
  BY <1>1, <1>2, <1>5, <1>6, WrittenPlaysTyped DEF allArgsAreTargets
\* What the two disjuncts of SpecialSoFar ask of the next state.
<1>9. /\ ai' <= m + 1
      /\ ai' <= m => /\ ci' <= Len(PlaysOfTargets[ai']) + 1
                     /\ plays' = J(ai' - 1) \o SubSeq(PlaysOfTargets[ai'], 1, ci' - 1)
      /\ ai' > m => plays' = J(ai' - 1)
      => SpecialSoFar'
  <2> SUFFICES ASSUME ai' <= m + 1,
                      ai' <= m => /\ ci' <= Len(PlaysOfTargets[ai']) + 1
                                  /\ plays' = J(ai' - 1) \o SubSeq(PlaysOfTargets[ai'], 1, ci' - 1),
                      ai' > m => plays' = J(ai' - 1)
               PROVE  SpecialSoFar'
    OBVIOUS
  <2>1. Len(args)' = m
    BY <1>3, <1>5
  <2>2. JoinedTo(PlaysOfTargets, ai - 1)' = J(ai' - 1)
    BY <1>4 DEF JoinedTo
  <2> HIDE DEF J
  <2> QED
    BY <1>4, <2>1, <2>2 DEF SpecialSoFar
\* A target begins with none of its plays.
<1>10. ASSUME NEW n \in Nat, n \in 1 .. m + 1, ai' = n, ci' = 1, plays' = J(n - 1)
       PROVE  SpecialSoFar'
  <2>1. n <= m => SubSeq(PlaysOfTargets[n], 1, 0) = <<>>
    BY SubSeqEmpty
  <2>2. J(n - 1) \o <<>> = J(n - 1)
    <3>1. n - 1 \in 0 .. m
      BY <1>10
    <3> QED
      BY <1>7, <3>1, ConcatEmptySeq
  <2>3. n <= m => 1 <= Len(PlaysOfTargets[n]) + 1
    <3> SUFFICES ASSUME n <= m PROVE 1 <= Len(PlaysOfTargets[n]) + 1
      OBVIOUS
    <3>1. Len(PlaysOfTargets[n]) \in Nat
      BY <1>8, <1>10
    <3> QED
      BY <3>1
  <2>4. n <= m + 1 /\ 1 - 1 = 0
    BY <1>10
  <2> HIDE DEF J
  <2>5. n <= m => plays' = J(n - 1) \o SubSeq(PlaysOfTargets[n], 1, 1 - 1)
    BY <1>10, <2>1, <2>2, <2>4
  <2> QED
    BY <1>9, <1>10, <2>3, <2>4, <2>5
<1>11. CASE SpecialMode
  <2>1. ai = 1 /\ ci = 1 /\ plays = <<>>
    BY <1>1, <1>11 DEF SpecialMode, Modes, Before
  <2>2. ai' = 1 /\ ci' = 1 /\ plays' = J(1 - 1) /\ 1 \in 1 .. m + 1
    BY <1>7, <1>11, <2>1 DEF SpecialMode
  <2> HIDE DEF J
  <2> QED
    BY <1>10, <2>2
<1>12. CASE SpecialCommand
  <2>1. PICK k \in 1 .. Len(file.targets) : k = TargetOf(args[ai])
    <3>1. ai \in 1 .. Len(args)
      BY <1>1, <1>12 DEF SpecialCommand
    <3> QED
      BY <1>2, <3>1, TargetPlace DEF allArgsAreTargets
  <2>2. ai \in 1 .. m /\ ai <= Len(args) /\ phase = "special" /\ phase # "targets"
    BY <1>1, <1>5, <1>12 DEF SpecialCommand
  <2>3. /\ Len(texts[k]) = Len(ItemsOf(k)) /\ Len(ItemsOf(k)) \in Nat
        /\ \A j \in 1 .. Len(ItemsOf(k)) :
              /\ texts[k][j].cmd = ItemsOf(k)[j].cmd
              /\ affix[ItemsOf(k)[j].cmd] = ItemsOf(k)[j].net
    BY <2>2, AfterReading
  <2>4. Items(args[ai]) = ItemsOf(k)
    BY <2>1 DEF Items, ItemsOf
  <2>5. ci \in 1 .. Len(W) /\ W \in Seq(WrittenPlay) /\ Len(W) = Len(ItemsOf(k))
    <3>1. ci <= Len(texts[k])
      BY <1>12, <2>1 DEF SpecialCommand
    <3> QED
      BY <1>1, <1>8, <2>2, <2>3, <2>4, <3>1
  <2>6. W[ci] = [net |-> affix[texts[k][ci].cmd], cmds |-> <<texts[k][ci].cmd>>]
    <3>1. W = WrittenPlays(args[ai])
      BY <1>1, <1>2, <2>2, <1>5, PlaysOfTargetsTyped
    <3>2. ci \in 1 .. Len(Items(args[ai]))
      BY <2>4, <2>5
    <3>3. W[ci] = [net |-> ItemsOf(k)[ci].net, cmds |-> <<ItemsOf(k)[ci].cmd>>]
      BY <2>4, <3>1, <3>2 DEF WrittenPlays
    <3> QED
      BY <2>3, <2>4, <3>2, <3>3
  <2>7. plays' = Append(plays, W[ci]) /\ ai' = ai /\ ci' = ci + 1
    BY <1>12, <2>1, <2>2, <2>6 DEF SpecialCommand, AddPlay, End
  <2>8. PICK w : w = W
    OBVIOUS
  <2>9. PICK j : j = J(ai - 1)
    OBVIOUS
  <2>10. j \in Seq(WrittenPlay) /\ w \in Seq(WrittenPlay) /\ ci \in 1 .. Len(w) /\ w[ci] \in WrittenPlay
    <3>1. ai - 1 \in 0 .. m
      BY <2>2
    <3> QED
      BY <1>7, <2>5, <2>8, <2>9, <3>1, ElementOfSeq
  <2>11. plays = j \o SubSeq(w, 1, ci - 1)
    BY <2>2, <2>8, <2>9, Zenon DEF SpecialSoFar
  <2> HIDE DEF J, W
  <2>12. plays' = j \o SubSeq(w, 1, ci)
    <3>1. SubSeq(w, 1, ci - 1) \in Seq(WrittenPlay)
      <4>1. \A i \in 1 .. ci - 1 : w[i] \in WrittenPlay
        BY <2>10, ElementOfSeq
      <4> QED
        BY <1>1, <4>1, SubSeqProperties
    <3>2. j \o SubSeq(w, 1, ci - 1) \in Seq(WrittenPlay)
      BY <2>10, <3>1, ConcatProperties
    <3>3. plays' = (j \o SubSeq(w, 1, ci - 1)) \o <<w[ci]>>
      BY <2>7, <2>8, <2>10, <2>11, <3>2, AppendIsConcat
    <3>4. (j \o SubSeq(w, 1, ci - 1)) \o <<w[ci]>> = j \o (SubSeq(w, 1, ci - 1) \o <<w[ci]>>)
      <4>1. PICK e : e = <<w[ci]>>
        OBVIOUS
      <4>2. e \in Seq(WrittenPlay)
        BY <2>10, <4>1
      <4>3. PICK q : q = SubSeq(w, 1, ci - 1)
        OBVIOUS
      <4>4. q \in Seq(WrittenPlay)
        BY <3>1, <4>3
      <4>5. (j \o q) \o e = j \o (q \o e)
        BY <2>10, <4>2, <4>4, ConcatAssociative
      <4> QED
        BY <4>1, <4>3, <4>5
    <3>5. SubSeq(w, 1, ci) = SubSeq(w, 1, ci - 1) \o <<w[ci]>>
      <4>1. 1 \in 1 .. Len(w) /\ ci \in 1 .. Len(w)
        BY <2>10
      <4> QED
        BY <2>10, <4>1, SubSeqRecursiveSecond
    <3> QED
      BY <3>3, <3>4, <3>5
  <2>13. ai' = ai /\ ci' = ci + 1 /\ ci' - 1 = ci /\ ci' <= Len(w) + 1
    BY <1>1, <2>7, <2>10
  <2>14. ai' <= m /\ ai' <= m + 1
    BY <2>2, <2>7
  <2>15. w = PlaysOfTargets[ai'] /\ j = J(ai' - 1)
    BY <2>7, <2>8, <2>9 DEF W
  <2>16. ~(ai' > m)
    BY <2>2, <2>7
  <2>17. /\ ci' <= Len(PlaysOfTargets[ai']) + 1
         /\ plays' = J(ai' - 1) \o SubSeq(PlaysOfTargets[ai'], 1, ci' - 1)
    BY <2>12, <2>13, <2>15
  <2> QED
    BY <1>9, <2>14, <2>16, <2>17, Zenon
<1>13. CASE SpecialNextArg
  <2>1. PICK k \in 1 .. Len(file.targets) : k = TargetOf(args[ai])
    <3>1. ai \in 1 .. Len(args)
      BY <1>1, <1>13 DEF SpecialNextArg
    <3> QED
      BY <1>2, <3>1, TargetPlace DEF allArgsAreTargets
  <2>2. ai \in 1 .. m /\ ai <= Len(args) /\ phase = "special" /\ phase # "targets"
    BY <1>1, <1>5, <1>13 DEF SpecialNextArg
  <2>3. Len(texts[k]) = Len(ItemsOf(k)) /\ Len(ItemsOf(k)) \in Nat
    BY <2>2, AfterReading
  <2>4. Items(args[ai]) = ItemsOf(k)
    BY <2>1 DEF Items, ItemsOf
  <2>5. W \in Seq(WrittenPlay) /\ Len(W) = Len(ItemsOf(k)) /\ ci > Len(W)
    BY <1>8, <1>13, <2>1, <2>2, <2>3, <2>4 DEF SpecialNextArg
  <2>6. ci <= Len(W) + 1 /\ plays = J(ai - 1) \o SubSeq(W, 1, ci - 1)
    BY <2>2, Zenon DEF SpecialSoFar
  <2>7. ci - 1 = Len(W)
    BY <1>1, <2>3, <2>5, <2>6
  <2>8. plays = J(ai - 1) \o W
    <3>1. SubSeq(W, 1, Len(W)) = W
      BY <2>5, SubSeqFull
    <3> QED
      BY <2>6, <2>7, <3>1
  <2>9. J(ai) = J(ai - 1) \o W
    <3>1. ai - 1 \in 0 .. m /\ ai - 1 < m /\ (ai - 1) + 1 = ai
      BY <2>2
    <3> QED
      BY <1>7, <3>1
  <2>10. plays' = plays /\ ai' = ai + 1 /\ ci' = 1
    BY <1>13 DEF SpecialNextArg
  <2>11. ai + 1 \in Nat /\ ai + 1 \in 1 .. m + 1 /\ (ai + 1) - 1 = ai
    BY <2>2
  <2>12. plays' = J((ai + 1) - 1)
    BY <2>8, <2>9, <2>10, <2>11
  <2>13. PICK n \in Nat : n = ai + 1
    BY <2>11
  <2> HIDE DEF J, W
  <2>14. plays' = J(n - 1)
    BY <2>12, <2>13
  <2> QED
    BY <1>10, <2>10, <2>11, <2>13, <2>14
<1> QED
  BY <1>11, <1>12, <1>13

\* normalMode's play has the commands of the arguments so far.
LEMMA NormalKept ==
    ASSUME BookPlaces, ReadInv, PlainNames, NormalSoFar, phase' = "normal",
           NormalMode \/ NormalArg
    PROVE  NormalSoFar'
<1>1. /\ BookTypeOK /\ Modes /\ Len(args) \in Nat /\ ai \in Nat \ {0}
      /\ draft \in [net : Word \cup {None}, cmds : Seq(Word)]
  BY InputTyped DEF BookPlaces, BookTypeOK
<1>2. UNCHANGED <<file, args>> /\ args # <<>>
  BY <1>1 DEF NormalMode, NormalArg, Keep, Modes
<1>3. CommandsAfterNetwork' = CommandsAfterNetwork
  BY <1>2, SameInput
<1>4. PICK m \in Nat : m = Len(args) - 1
  BY <1>1, <1>2, InputTyped, EmptySeq
<1>5. /\ CommandsAfterNetwork \in Seq(Seq(Word)) /\ Len(CommandsAfterNetwork) = m
      /\ \A k \in 1 .. m : CommandsAfterNetwork[k] = WrittenCommands(args[k + 1])
  BY <1>1, <1>2, <1>4, CommandsAfterTyped
<1>6. /\ JoinedTo(CommandsAfterNetwork, 0) = <<>>
      /\ \A i \in 0 .. m : i < m =>
            JoinedTo(CommandsAfterNetwork, i + 1) = JoinedTo(CommandsAfterNetwork, i) \o CommandsAfterNetwork[i + 1]
  BY <1>5, JoinedGrows
<1>7. ai' <= m + 2 /\ plays' = <<>> /\ supNetwork' = <<>>
      /\ draft'.cmds = JoinedTo(CommandsAfterNetwork, ai' - 2)
      => NormalSoFar'
  <2>1. JoinedTo(CommandsAfterNetwork, ai - 2)' = JoinedTo(CommandsAfterNetwork, ai' - 2)
    BY <1>3 DEF JoinedTo
  <2>2. Len(args)' + 1 = m + 2
    BY <1>1, <1>2, <1>4
  <2> QED
    BY <2>1, <2>2 DEF NormalSoFar
<1>8. CASE NormalMode
  <2>1. draft.cmds = <<>> /\ plays = <<>> /\ supNetwork = <<>>
    BY <1>1, <1>8 DEF NormalMode, Modes, Before
  <2>2. ai' = 2 /\ draft' = [draft EXCEPT !.net = args[1]] /\ UNCHANGED <<plays, supNetwork>>
    BY <1>8 DEF NormalMode, End
  <2>3. draft'.cmds = <<>>
    BY <1>1, <2>1, <2>2
  <2>4. ai' - 2 = 0 /\ ai' <= m + 2
    BY <2>2
  <2> QED
    BY <1>6, <1>7, <2>1, <2>2, <2>3, <2>4
<1>9. CASE NormalArg
  <2>1. /\ draft' = [draft EXCEPT !.cmds = @ \o Names(Commands(args[ai]))]
        /\ ai' = ai + 1 /\ UNCHANGED <<plays, supNetwork>> /\ phase = "normal" /\ ai <= Len(args)
    BY <1>9 DEF NormalArg, End
  <2>2. /\ draft.cmds = JoinedTo(CommandsAfterNetwork, ai - 2) /\ plays = <<>> /\ supNetwork = <<>>
    BY <2>1, Zenon DEF NormalSoFar
  <2>3. ai >= 2 /\ ai \in 1 .. Len(args) /\ args[ai] \in Word
    BY <1>1, <2>1, ArgTyped DEF Modes
  <2>4. draft'.cmds = draft.cmds \o Names(Commands(args[ai]))
    BY <1>1, <2>1, <2>3, DraftGrows
  <2>5. phase # "targets"
    BY <2>1
  <2>6. Names(Commands(args[ai])) = WrittenCommands(args[ai])
    BY <2>3, <2>5, CommandsAsWritten
  <2>7. PICK i \in 0 .. m : i = ai - 2 /\ i < m /\ i + 1 = ai - 1 /\ ai = (i + 1) + 1 /\ ai' - 2 = i + 1
                            /\ i + 1 \in 1 .. m
    BY <1>1, <1>4, <2>1, <2>3
  <2>8. CommandsAfterNetwork[i + 1] = WrittenCommands(args[ai])
    BY <1>5, <2>7
  <2>9. draft'.cmds = JoinedTo(CommandsAfterNetwork, ai' - 2)
    BY <1>6, <2>2, <2>4, <2>6, <2>7, <2>8
  <2>10. ai' <= m + 2
    BY <1>1, <1>4, <2>1
  <2> QED
    BY <1>7, <2>1, <2>2, <2>9, <2>10
<1> QED
  BY <1>8, <1>9

\* makefileMode adds its play after every argument.
LEMMA MakefileKept ==
    ASSUME BookPlaces, ReadInv, PlainNames, MakefileSoFar, phase' = "makefile",
           MakefileMode \/ MakefileArg
    PROVE  MakefileSoFar'
<1>1. /\ BookTypeOK /\ Modes /\ Len(args) \in Nat /\ ai \in Nat \ {0}
      /\ draft \in [net : Word \cup {None}, cmds : Seq(Word)]
      /\ plays \in Seq(BookPlay) /\ supNetwork \in Seq(Word)
  BY InputTyped DEF BookPlaces, BookTypeOK
<1>2. UNCHANGED <<file, args>>
  BY DEF MakefileMode, MakefileArg, Keep
<1>3. WrittenCommands(args[1])' = WrittenCommands(args[1])
  BY <1>2 DEF WrittenCommands, Items, TargetOf, IsTarget, TargetNames
<1>4. CASE MakefileMode
  <2>1. ai = 1 /\ draft.cmds = <<>> /\ plays = <<>> /\ supNetwork = <<>>
    BY <1>1, <1>4 DEF MakefileMode, Modes, Before
  <2>2. draft' = [draft EXCEPT !.net = Localhost] /\ UNCHANGED <<ai, plays, supNetwork>>
    BY <1>4 DEF MakefileMode
  <2>3. draft'.cmds = <<>>
    BY <1>1, <2>1, <2>2
  <2>4. ai' <= Len(args)' + 1
    BY <1>1, <1>2, <2>1, <2>2
  <2>5. Len(supNetwork') = Len(plays') /\ \A k \in 1 .. Len(plays') : FALSE
    BY <2>1, <2>2
  <2> QED
    BY <2>1, <2>2, <2>3, <2>4, <2>5 DEF MakefileSoFar
<1>5. CASE MakefileArg
  <2>1. /\ draft' = [draft EXCEPT !.cmds = @ \o Names(Commands(args[ai]))]
        /\ plays' = Append(plays, draft') /\ supNetwork' = Append(supNetwork, NetworkNamed(draft'.net))
        /\ ai' = ai + 1 /\ phase = "makefile" /\ ai <= Len(args)
    BY <1>5 DEF MakefileArg, End, AddPlay
  <2>2. ai \in 1 .. Len(args) /\ args[ai] \in Word /\ draft.net = Localhost /\ Localhost \in Word
    BY <1>1, <2>1, ArgTyped, PlaybookAssumption DEF Modes
  <2>3. /\ draft' \in [net : Word \cup {None}, cmds : Seq(Word)]
        /\ draft'.net = Localhost /\ draft'.cmds = draft.cmds \o Names(Commands(args[ai]))
    BY <1>1, <2>1, <2>2, DraftGrows
  <2>4. draft' \in BookPlay
    BY <2>2, <2>3 DEF BookPlay
  <2>5. /\ Len(supNetwork) = Len(plays)
        /\ \A k \in 1 .. Len(plays) : plays[k].net = Localhost /\ supNetwork[k] = Localhost
        /\ Len(args) = 1 => IF ai = 1 THEN plays = <<>> /\ draft.cmds = <<>>
                            ELSE plays = <<[net |-> Localhost, cmds |-> WrittenCommands(args[1])]>>
    BY <2>1 DEF MakefileSoFar
  <2>6. PICK d : d = draft'
    OBVIOUS
  <2>7. /\ Len(supNetwork') = Len(plays')
        /\ \A k \in 1 .. Len(plays') : plays'[k].net = Localhost /\ supNetwork'[k] = Localhost
    <3>1. plays' = Append(plays, d) /\ d \in BookPlay /\ d.net = Localhost
      BY <2>1, <2>3, <2>4, <2>6
    <3>2. PICK n \in Nat : n = Len(plays)
      BY <1>1
    <3>3. /\ Len(plays') = n + 1 /\ plays'[n + 1] = d /\ \A k \in 1 .. n : plays'[k] = plays[k]
      BY <1>1, <3>1, <3>2, AppendProperties
    <3>4. /\ Len(supNetwork') = n + 1 /\ supNetwork'[n + 1] = Localhost
          /\ \A k \in 1 .. n : supNetwork'[k] = supNetwork[k]
      <4>1. supNetwork' = Append(supNetwork, Localhost)
        BY <2>1, <2>3 DEF NetworkNamed
      <4> QED
        BY <1>1, <2>2, <2>5, <3>2, <4>1, AppendProperties
    <3>5. ASSUME NEW k \in 1 .. n + 1 PROVE plays'[k].net = Localhost /\ supNetwork'[k] = Localhost
      <4>1. CASE k = n + 1
        BY <3>1, <3>3, <3>4, <4>1
      <4>2. CASE k # n + 1
        <5>1. k \in 1 .. n
          BY <4>2
        <5> QED
          BY <2>5, <3>2, <3>3, <3>4, <5>1
      <4> QED
        BY <4>1, <4>2
    <3> QED
      BY <3>3, <3>4, <3>5
  <2>8. Len(args) = 1 => plays' = <<[net |-> Localhost, cmds |-> WrittenCommands(args[1])]>>
    <3> SUFFICES ASSUME Len(args) = 1
                 PROVE  plays' = <<[net |-> Localhost, cmds |-> WrittenCommands(args[1])]>>
      OBVIOUS
    <3>1. ai = 1
      BY <2>2
    <3>2. plays = <<>> /\ draft.cmds = <<>>
      BY <2>5, <3>1
    <3>3. phase # "targets"
      BY <2>1
    <3>4. Names(Commands(args[1])) = WrittenCommands(args[1]) /\ WrittenCommands(args[1]) \in Seq(Word)
      BY <1>1, <2>2, <3>1, <3>3, CommandsAsWritten, CommandsTyped
    <3>5. PICK w \in Seq(Word) : w = WrittenCommands(args[1])
      BY <3>4
    <3>6. d.cmds = w
      <4>1. <<>> \o w = w
        BY <3>5, ConcatEmptySeq
      <4> QED
        BY <2>3, <2>6, <3>1, <3>2, <3>4, <3>5, <4>1
    <3>7. d = [net |-> Localhost, cmds |-> w]
      BY <2>3, <2>6, <3>6
    <3>8. plays' = <<d>>
      BY <2>1, <2>6, <3>2
    <3> QED
      BY <3>5, <3>7, <3>8
  <2>9. ai' <= Len(args)' + 1 /\ ai' # 1
    BY <1>1, <1>2, <2>1
  <2>10. Len(args)' = Len(args)
    BY <1>2
  <2> QED
    BY <1>3, <2>7, <2>8, <2>9, <2>10 DEF MakefileSoFar
<1> QED
  BY <1>4, <1>5

LEMMA SoFarStep == BookPlaces /\ ReadInv /\ SoFar /\ [Next]_bookVars => SoFar'
<1> SUFFICES ASSUME BookPlaces, ReadInv, SoFar, [Next]_bookVars, PlainNames'
             PROVE  SpecialSoFar' /\ NormalSoFar' /\ MakefileSoFar'
  BY DEF SoFar
<1>1. UNCHANGED <<file, args>>
  BY DEF Next, Keep, ReadItem, NextTarget, TargetsRead, NoArgs, SpecialMode, NormalMode, MakefileMode,
         SpecialCommand, SpecialNextArg, NormalArg, NormalDone, MakefileArg, ArgsDone, bookVars
<1>2. PlainNames /\ SpecialSoFar /\ NormalSoFar /\ MakefileSoFar
  BY <1>1, SameInput DEF SoFar
<1>3. CASE UNCHANGED bookVars
  <2>1. /\ PlaysOfTargets' = PlaysOfTargets /\ CommandsAfterNetwork' = CommandsAfterNetwork
        /\ WrittenCommands(args[1])' = WrittenCommands(args[1])
    BY <1>3, <1>1, SameInput DEF WrittenCommands, Items, TargetOf, IsTarget, TargetNames
  <2>2. SpecialSoFar'
    BY <1>2, <1>3, <2>1 DEF SpecialSoFar, JoinedTo, bookVars
  <2>3. NormalSoFar'
    BY <1>2, <1>3, <2>1 DEF NormalSoFar, JoinedTo, bookVars
  <2>4. MakefileSoFar'
    BY <1>2, <1>3, <2>1 DEF MakefileSoFar, bookVars
  <2> QED
    BY <2>2, <2>3, <2>4
<1>4. CASE Next
  <2>1. phase' = "special" => SpecialMode \/ SpecialCommand \/ SpecialNextArg \/ UNCHANGED bookVars
    BY <1>4 DEF Next, End, ReadItem, NextTarget, TargetsRead, NoArgs, NormalMode, MakefileMode,
                NormalArg, NormalDone, MakefileArg, ArgsDone
  <2>2. phase' = "normal" => NormalMode \/ NormalArg \/ UNCHANGED bookVars
    BY <1>4 DEF Next, End, ReadItem, NextTarget, TargetsRead, NoArgs, SpecialMode, MakefileMode,
                SpecialCommand, SpecialNextArg, NormalDone, MakefileArg, ArgsDone
  <2>3. phase' = "makefile" => MakefileMode \/ MakefileArg \/ UNCHANGED bookVars
    BY <1>4 DEF Next, End, ReadItem, NextTarget, TargetsRead, NoArgs, SpecialMode, NormalMode,
                SpecialCommand, SpecialNextArg, NormalArg, NormalDone, ArgsDone
  <2>4. CASE UNCHANGED bookVars
    BY <1>3, <2>4
  <2>5. CASE ~UNCHANGED bookVars
    <3>1. SpecialSoFar'
      <4>1. CASE phase' = "special"
        BY <1>2, <2>1, <2>5, <4>1, SpecialKept
      <4>2. CASE phase' # "special"
        BY <4>2 DEF SpecialSoFar
      <4> QED
        BY <4>1, <4>2
    <3>2. NormalSoFar'
      <4>1. CASE phase' = "normal"
        BY <1>2, <2>2, <2>5, <4>1, NormalKept
      <4>2. CASE phase' # "normal"
        BY <4>2 DEF NormalSoFar
      <4> QED
        BY <4>1, <4>2
    <3>3. MakefileSoFar'
      <4>1. CASE phase' = "makefile"
        BY <1>2, <2>3, <2>5, <4>1, MakefileKept
      <4>2. CASE phase' # "makefile"
        BY <4>2 DEF MakefileSoFar
      <4> QED
        BY <4>1, <4>2
    <3> QED
      BY <3>1, <3>2, <3>3
  <2> QED
    BY <2>4, <2>5
<1> QED
  BY <1>3, <1>4

\* A mode ends with the plays that are written.
LEMMA NormalEnds ==
    ASSUME BookPlaces, SoFar, PlaysAsWritten, NormalDone
    PROVE  PlaysAsWritten'
<1> SUFFICES ASSUME PlainNames PROVE PlaysAsWritten'
  BY SameInput DEF PlaysAsWritten, NormalDone, Keep
<1>1. /\ BookTypeOK /\ Modes /\ NormalSoFar /\ phase = "normal" /\ ai > Len(args)
      /\ Len(args) \in Nat /\ ai \in Nat
      /\ draft \in [net : Word \cup {None}, cmds : Seq(Word)]
  BY InputTyped DEF BookPlaces, SoFar, NormalDone, BookTypeOK
<1>2. /\ UNCHANGED <<file, args>> /\ plays' = Append(plays, draft)
      /\ supNetwork' = Append(supNetwork, NetworkNamed(draft.net))
  BY DEF NormalDone, Keep, AddPlay
<1>3. /\ args # <<>> /\ file.networks # {} /\ ~allArgsAreTargets /\ draft.net = args[1]
  BY <1>1 DEF Modes
<1>4. /\ ai <= Len(args) + 1 /\ draft.cmds = JoinedTo(CommandsAfterNetwork, ai - 2)
      /\ plays = <<>> /\ supNetwork = <<>>
  BY <1>1, Zenon DEF NormalSoFar
<1>5. ai - 2 = Len(CommandsAfterNetwork)
  BY <1>1, <1>3, <1>4, CommandsAfterTyped
<1>6. draft = [net |-> args[1], cmds |-> Joined(CommandsAfterNetwork)]
  BY <1>1, <1>3, <1>4, <1>5 DEF Joined
<1>7. plays' = <<draft>> /\ supNetwork' = <<args[1]>>
  <2>1. NetworkNamed(draft.net) = args[1]
    BY <1>3 DEF NetworkNamed
  <2> QED
    BY <1>2, <1>4, <2>1
<1>8. /\ CommandsAfterNetwork' = CommandsAfterNetwork /\ allArgsAreTargets' = allArgsAreTargets
  BY <1>2, SameInput
<1>9. Joined(CommandsAfterNetwork)' = Joined(CommandsAfterNetwork)
  BY <1>8 DEF Joined, JoinedTo
<1>10. plays' = <<[net |-> args[1], cmds |-> Joined(CommandsAfterNetwork)]>>
  BY <1>6, <1>7
<1>11. \A k \in 1 .. Len(plays') : supNetwork'[k] = plays'[k].net
  <2>1. PICK p : p = plays'
    OBVIOUS
  <2>2. PICK d : d = draft /\ d.net = args[1]
    BY <1>3
  <2>3. p = <<d>>
    BY <1>7, <2>1, <2>2
  <2>4. \A k \in 1 .. Len(p) : k = 1
    BY <2>3
  <2> QED
    BY <1>7, <2>1, <2>2, <2>3, <2>4
<1> QED
  BY <1>2, <1>3, <1>8, <1>9, <1>10, <1>11 DEF PlaysAsWritten

LEMMA ArgsEnd ==
    ASSUME BookPlaces, SoFar, PlaysAsWritten, ArgsDone
    PROVE  PlaysAsWritten'
<1> SUFFICES ASSUME PlainNames PROVE PlaysAsWritten'
  BY SameInput DEF PlaysAsWritten, ArgsDone, Keep
<1>1. /\ BookTypeOK /\ Modes /\ SpecialSoFar /\ MakefileSoFar /\ phase \in {"special", "makefile"}
      /\ ai > Len(args) /\ Len(args) \in Nat /\ ai \in Nat
  BY InputTyped DEF BookPlaces, SoFar, ArgsDone, BookTypeOK
<1>2. UNCHANGED <<file, args, plays, supNetwork>>
  BY DEF ArgsDone, Keep
<1>3. /\ PlaysOfTargets' = PlaysOfTargets /\ allArgsAreTargets' = allArgsAreTargets
  BY <1>2, SameInput
<1>4. CASE phase = "special"
  <2>1. file.networks # {} /\ allArgsAreTargets
    BY <1>1, <1>4 DEF Modes
  <2>2. ai <= Len(args) + 1 /\ plays = JoinedTo(PlaysOfTargets, ai - 1)
    BY <1>1, <1>4, Zenon DEF SpecialSoFar
  <2>3. ai - 1 = Len(PlaysOfTargets)
    BY <1>1, <2>1, <2>2, PlaysOfTargetsTyped
  <2>4. plays = Joined(PlaysOfTargets)
    BY <2>2, <2>3 DEF Joined
  <2>5. Joined(PlaysOfTargets)' = Joined(PlaysOfTargets)
    BY <1>3 DEF Joined, JoinedTo
  <2> QED
    BY <1>2, <1>3, <2>1, <2>4, <2>5 DEF PlaysAsWritten
<1>5. CASE phase = "makefile"
  <2>1. file.networks = {} /\ args # <<>>
    BY <1>1, <1>5 DEF Modes
  <2>2. /\ Len(args) = 1 => IF ai = 1 THEN plays = <<>> /\ draft.cmds = <<>>
                            ELSE plays = <<[net |-> Localhost, cmds |-> WrittenCommands(args[1])]>>
        /\ \A k \in 1 .. Len(plays) : plays[k].net = Localhost /\ supNetwork[k] = Localhost
    BY <1>1, <1>5, Zenon DEF MakefileSoFar
  <2>3. Len(args) = 1 => plays = <<[net |-> Localhost, cmds |-> WrittenCommands(args[1])]>>
    BY <1>1, <2>2
  <2>4. WrittenCommands(args[1])' = WrittenCommands(args[1])
    BY <1>2 DEF WrittenCommands, Items, TargetOf, IsTarget, TargetNames
  <2> QED
    BY <1>2, <2>1, <2>2, <2>3, <2>4 DEF PlaysAsWritten
<1> QED
  BY <1>1, <1>4, <1>5

LEMMA WrittenStep ==
    BookPlaces /\ SoFar /\ PlaysAsWritten /\ [Next]_bookVars => PlaysAsWritten'
<1> SUFFICES ASSUME BookPlaces, SoFar, PlaysAsWritten, [Next]_bookVars PROVE PlaysAsWritten'
  OBVIOUS
<1>1. CASE UNCHANGED bookVars
  <2>1. UNCHANGED <<file, args, plays, supNetwork, result>>
    BY <1>1 DEF bookVars
  <2>2. /\ PlaysOfTargets' = PlaysOfTargets /\ CommandsAfterNetwork' = CommandsAfterNetwork
        /\ allArgsAreTargets' = allArgsAreTargets /\ PlainNames' = PlainNames
    BY <2>1, SameInput
  <2>3. WrittenCommands(args[1])' = WrittenCommands(args[1])
    BY <2>1 DEF WrittenCommands, Items, TargetOf, IsTarget, TargetNames
  <2>4. /\ Joined(PlaysOfTargets)' = Joined(PlaysOfTargets)
        /\ Joined(CommandsAfterNetwork)' = Joined(CommandsAfterNetwork)
    BY <2>2 DEF Joined, JoinedTo
  <2> QED
    BY <2>1, <2>2, <2>3, <2>4 DEF PlaysAsWritten
<1>2. CASE NormalDone
  BY <1>2, NormalEnds
<1>3. CASE ArgsDone
  BY <1>3, ArgsEnd
<1>4. CASE Next /\ ~UNCHANGED bookVars /\ ~NormalDone /\ ~ArgsDone
  <2>1. result = "none"
    <3>1. phase # "done"
      BY <1>4 DEF Next, ReadItem, NextTarget, TargetsRead, NoArgs, SpecialMode, NormalMode, MakefileMode,
                  SpecialCommand, SpecialNextArg, NormalArg, MakefileArg
    <3> QED
      BY <3>1 DEF BookPlaces, Modes
  <2>2. result' # "playbook"
    BY <1>4, <2>1 DEF Next, End, ReadItem, NextTarget, TargetsRead, NoArgs, SpecialMode, NormalMode,
                      MakefileMode, SpecialCommand, SpecialNextArg, NormalArg, MakefileArg
  <2> QED
    BY <2>2 DEF PlaysAsWritten
<1> QED
  BY <1>1, <1>2, <1>3, <1>4

LEMMA BookInvAlways == Spec => []BookInv
<1>1. Init => BookInv
  <2>1. Init => SoFar /\ PlaysAsWritten
    BY DEF Init, SoFar, SpecialSoFar, NormalSoFar, MakefileSoFar, PlaysAsWritten
  <2> QED
    BY <2>1, BookPlacesInit, ReadInit DEF BookInv
<1>2. BookInv /\ [Next]_bookVars => BookInv'
  BY BookPlacesStep, ReadStep, SoFarStep, WrittenStep DEF BookInv
<1> QED
  BY <1>1, <1>2, PTL DEF Spec

\* For every Supfile with plain names and every command line, the playbook is
\* the one that is written: specialTargetMode's plays are the texts of the
\* targets, normalMode's play has all commands in order, makefileMode's play is
\* on localhost (target.go:49-84, mode_*.go).
THEOREM PlaysAsWrittenAlways == Spec => []PlaysAsWritten
<1>1. BookInv => PlaysAsWritten
  BY DEF BookInv
<1> QED
  BY <1>1, BookInvAlways, PTL
=============================================================================
