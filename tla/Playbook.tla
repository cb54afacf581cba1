------------------------------ MODULE Playbook ------------------------------
(***************************************************************************)
(* From a Supfile and the command line to the plays of an invocation:      *)
(* Targets.UnmarshalYAML (src/entity/supfile/target.go:25-89) reads the    *)
(* targets, and ParseInitialArgs chooses one of three modes by what is     *)
(* defined (src/usecase/appinit/parse_args.go:19-77, mode_*.go).           *)
(* Names are words; the texts in a target's list are "command" or          *)
(* "command network".                                                      *)
(***************************************************************************)
EXTENDS Naturals, Sequences, FiniteSets

CONSTANTS
    Word,       \* names of commands, networks and targets
    Within,     \* Within[a]: the words that contain a
    None,       \* no network
    Localhost,  \* the network "localhost"
    Inputs      \* pairs of a Supfile and a command line

Text == [cmd : Word, net : Word \cup {None}]
Target == [name : Word, items : Seq(Text)]
File == [targets : Seq(Target), commands : SUBSET Word, networks : SUBSET Word]
BookPlay == [net : Word, cmds : Seq(Word)]

ASSUME PlaybookAssumption ==
    /\ Within \in [Word -> SUBSET Word]
    /\ \A w \in Word : w \in Within[w]
    /\ None \notin Word /\ Localhost \in Word
    /\ Inputs \subseteq [file : File, args : Seq(Word)]

VARIABLES
    file, args,  \* the input
    phase,       \* "targets", "args", a mode, or "done"
    ti, ii,      \* target and item UnmarshalYAML is at
    texts,       \* the map targets: the texts of each target, as rewritten
    affix,       \* the map affixes: a network for each command name, or None
    ai, ci,      \* argument, and command of a target, a mode is at
    draft,       \* the play being filled
    plays,       \* the playbook
    supNetwork,  \* $SUP_NETWORK of each play
    result       \* "none", "playbook", or the exit status

bookVars == <<file, args, phase, ti, ii, texts, affix, ai, ci, draft, plays, supNetwork, result>>

TargetNames == {file.targets[k].name : k \in 1 .. Len(file.targets)}

BookTypeOK ==
    /\ [file |-> file, args |-> args] \in Inputs
    /\ phase \in {"targets", "args", "special", "normal", "makefile", "done"}
    /\ ti \in Nat \ {0} /\ ii \in Nat \ {0} /\ ai \in Nat \ {0} /\ ci \in Nat \ {0}
    /\ texts \in [1 .. Len(file.targets) -> Seq(Text)]
    /\ affix \in [Word -> Word \cup {None}]
    /\ draft \in [net : Word \cup {None}, cmds : Seq(Word)]
    /\ plays \in Seq(BookPlay)
    /\ supNetwork \in Seq(Word)
    /\ result \in {"none", "playbook", "status1", "status2", "status25", "status41"}

Init ==
    /\ \E in \in Inputs : file = in.file /\ args = in.args
    /\ phase = "targets" /\ ti = 1 /\ ii = 1 /\ ai = 1 /\ ci = 1
    /\ texts = [k \in 1 .. Len(file.targets) |-> file.targets[k].items]
    /\ affix = [w \in Word |-> None]
    /\ draft = [net |-> None, cmds |-> <<>>]
    /\ plays = <<>> /\ supNetwork = <<>> /\ result = "none"

----------------------------------------------------------------------------
(* Targets.UnmarshalYAML *)

Contains(text, name) == text.cmd \in Within[name] \/ (text.net # None /\ text.net \in Within[name])

\* A text of two parts maps its command to its network, for all targets; then
\* every text of every target that contains the command's name becomes it.
ReadItem ==
    /\ phase = "targets" /\ ti <= Len(file.targets) /\ ii <= Len(file.targets[ti].items)
    /\ LET part == file.targets[ti].items[ii] IN
         IF part.net = None
           THEN UNCHANGED <<texts, affix>>
           ELSE /\ affix' = [affix EXCEPT ![part.cmd] = part.net]
                /\ texts' = [k \in DOMAIN texts |->
                               [j \in 1 .. Len(texts[k]) |->
                                  IF Contains(texts[k][j], part.cmd)
                                    THEN [cmd |-> part.cmd, net |-> None]
                                    ELSE texts[k][j]]]
    /\ ii' = ii + 1
    /\ UNCHANGED <<file, args, phase, ti, ai, ci, draft, plays, supNetwork, result>>

\* Mutant of NextTarget: the index of the items starts at zero.
NextTargetFromZero ==
    /\ phase = "targets" /\ ti <= Len(file.targets) /\ ii > Len(file.targets[ti].items)
    /\ ti' = ti + 1 /\ ii' = 0
    /\ UNCHANGED <<file, args, phase, texts, affix, ai, ci, draft, plays, supNetwork, result>>

NextTarget ==
    /\ phase = "targets" /\ ti <= Len(file.targets) /\ ii > Len(file.targets[ti].items)
    /\ ti' = ti + 1 /\ ii' = 1
    /\ UNCHANGED <<file, args, phase, texts, affix, ai, ci, draft, plays, supNetwork, result>>

TargetsRead ==
    /\ phase = "targets" /\ ti > Len(file.targets)
    /\ phase' = "args"
    /\ UNCHANGED <<file, args, ti, ii, texts, affix, ai, ci, draft, plays, supNetwork, result>>

----------------------------------------------------------------------------
(* ParseInitialArgs and the modes *)

\* The command lists of the targets called name (a YAML mapping has one).
TargetOf(name) == CHOOSE k \in 1 .. Len(file.targets) : file.targets[k].name = name
IsTarget(name) == name \in TargetNames
IsCommandText(text) == text.net = None /\ text.cmd \in file.commands

End(status) == phase' = "done" /\ result' = status
Keep == UNCHANGED <<file, args, ti, ii, texts, affix>>

NoArgs ==
    /\ phase = "args" /\ args = <<>>
    /\ End("status2")
    /\ Keep /\ UNCHANGED <<ai, ci, draft, plays, supNetwork>>

allArgsAreTargets == \A k \in 1 .. Len(args) : IsTarget(args[k])

SpecialMode ==
    /\ phase = "args" /\ args # <<>> /\ file.networks # {} /\ allArgsAreTargets
    /\ phase' = "special"
    /\ Keep /\ UNCHANGED <<ai, ci, draft, plays, supNetwork, result>>

\* ensureNetworkExists ends with status 25.
NormalMode ==
    /\ phase = "args" /\ args # <<>> /\ file.networks # {} /\ ~allArgsAreTargets
    /\ IF args[1] \in file.networks
         THEN /\ phase' = "normal" /\ ai' = 2
              /\ draft' = [draft EXCEPT !.net = args[1]]
              /\ UNCHANGED result
         ELSE End("status25") /\ UNCHANGED <<ai, draft>>
    /\ Keep /\ UNCHANGED <<ci, plays, supNetwork>>

\* Without networks EnsureLocalhost defines one.
MakefileMode ==
    /\ phase = "args" /\ args # <<>> /\ file.networks = {}
    /\ phase' = "makefile"
    /\ draft' = [draft EXCEPT !.net = Localhost]
    /\ Keep /\ UNCHANGED <<ai, ci, plays, supNetwork, result>>

\* addSSUPDefaultEnvs: the first argument, whatever the network, or "localhost".
NetworkNamed(net) == IF net = Localhost THEN Localhost ELSE args[1]

AddPlay(p) ==
    /\ plays' = Append(plays, p)
    /\ supNetwork' = Append(supNetwork, NetworkNamed(p.net))

\* specialTargetMode: one play for each command, on the command's network.
SpecialCommand ==
    /\ phase = "special" /\ ai <= Len(args)
    /\ LET list == texts[TargetOf(args[ai])] IN
       /\ ci <= Len(list)
       /\ LET text == list[ci]
              to == affix[text.cmd]
          IN IF text.net # None \/ to = None
               THEN End("status41") /\ UNCHANGED <<ci, plays, supNetwork>>
             ELSE IF to \notin file.networks
               THEN End("status25") /\ UNCHANGED <<ci, plays, supNetwork>>
             ELSE /\ AddPlay([net |-> to, cmds |-> <<text.cmd>>])
                  /\ ci' = ci + 1
                  /\ UNCHANGED <<phase, result>>
    /\ Keep /\ UNCHANGED <<ai, draft>>

SpecialNextArg ==
    /\ phase = "special" /\ ai <= Len(args) /\ ci > Len(texts[TargetOf(args[ai])])
    /\ ai' = ai + 1 /\ ci' = 1
    /\ Keep /\ UNCHANGED <<phase, draft, plays, supNetwork, result>>

\* What an argument adds: the command of that name, then the target's commands.
Commands(arg) ==
    (IF arg \in file.commands THEN << [cmd |-> arg, net |-> None] >> ELSE <<>>)
    \o (IF IsTarget(arg) THEN texts[TargetOf(arg)] ELSE <<>>)

AllCommands(list) == \A k \in 1 .. Len(list) : IsCommandText(list[k])
Names(list) == [k \in 1 .. Len(list) |-> list[k].cmd]

\* Mutant of NormalArg: the commands of a later argument come first.
NormalArgPrepends ==
    /\ phase = "normal" /\ ai <= Len(args)
    /\ LET list == Commands(args[ai]) IN
         IF args[ai] \notin file.commands /\ ~IsTarget(args[ai])
           THEN End("status2") /\ UNCHANGED <<draft, ai>>
         ELSE IF ~AllCommands(list)
           THEN End("status1") /\ UNCHANGED <<draft, ai>>
         ELSE /\ draft' = [draft EXCEPT !.cmds = Names(list) \o @]
              /\ ai' = ai + 1
              /\ UNCHANGED <<phase, result>>
    /\ Keep /\ UNCHANGED <<ci, plays, supNetwork>>

NormalArg ==
    /\ phase = "normal" /\ ai <= Len(args)
    /\ LET list == Commands(args[ai]) IN
         IF args[ai] \notin file.commands /\ ~IsTarget(args[ai])
           THEN End("status2") /\ UNCHANGED <<draft, ai>>
         ELSE IF ~AllCommands(list)
           THEN End("status1") /\ UNCHANGED <<draft, ai>>
         ELSE /\ draft' = [draft EXCEPT !.cmds = @ \o Names(list)]
              /\ ai' = ai + 1
              /\ UNCHANGED <<phase, result>>
    /\ Keep /\ UNCHANGED <<ci, plays, supNetwork>>

NormalDone ==
    /\ phase = "normal" /\ ai > Len(args)
    /\ AddPlay(draft)
    /\ End("playbook")
    /\ Keep /\ UNCHANGED <<ai, ci, draft>>

\* The play is added after every argument, and goes on growing; an argument
\* that is neither command nor target adds nothing to it.
MakefileArg ==
    /\ phase = "makefile" /\ ai <= Len(args)
    /\ LET list == Commands(args[ai]) IN
         IF ~AllCommands(list)
           THEN End("status2") /\ UNCHANGED <<draft, plays, supNetwork, ai>>
           ELSE /\ draft' = [draft EXCEPT !.cmds = @ \o Names(list)]
                /\ AddPlay(draft')
                /\ ai' = ai + 1
                /\ UNCHANGED <<phase, result>>
    /\ Keep /\ UNCHANGED ci

ArgsDone ==
    /\ phase \in {"special", "makefile"} /\ ai > Len(args)
    /\ End("playbook")
    /\ Keep /\ UNCHANGED <<ai, ci, draft, plays, supNetwork>>

Next ==
    \/ ReadItem \/ NextTarget \/ TargetsRead
    \/ NoArgs \/ SpecialMode \/ NormalMode \/ MakefileMode
    \/ SpecialCommand \/ SpecialNextArg
    \/ NormalArg \/ NormalDone
    \/ MakefileArg \/ ArgsDone
    \/ phase = "done" /\ UNCHANGED bookVars

Spec == Init /\ [][Next]_bookVars

----------------------------------------------------------------------------
(* What the Supfile and the command line say, read directly. *)

\* The first n of the sequences of list, one after the other.
JoinedTo(list, n) ==
    LET upTo[i \in 0 .. Len(list)] == IF i = 0 THEN <<>> ELSE upTo[i - 1] \o list[i]
    IN upTo[n]
Joined(list) == JoinedTo(list, Len(list))

Items(name) == file.targets[TargetOf(name)].items

WrittenCommands(arg) ==
    (IF arg \in file.commands THEN <<arg>> ELSE <<>>)
    \o (IF IsTarget(arg) THEN Names(Items(arg)) ELSE <<>>)

\* A play for each text of a target, on the network the text names.
WrittenPlays(arg) ==
    [k \in 1 .. Len(Items(arg)) |->
        [net |-> Items(arg)[k].net, cmds |-> <<Items(arg)[k].cmd>>]]

PlaysOfTargets == [k \in 1 .. Len(args) |-> WrittenPlays(args[k])]
CommandsAfterNetwork == [k \in 1 .. Len(args) - 1 |-> WrittenCommands(args[k + 1])]

AllTexts == UNION {{t.items[j] : j \in 1 .. Len(t.items)} : t \in {file.targets[k] : k \in 1 .. Len(file.targets)}}
Mapped == {t \in AllTexts : t.net # None}

\* No mapped command's name is part of another name in a target, and none is
\* mapped to two networks, or mapped in one place and bare in another.
PlainNames ==
    \A m \in Mapped, t \in AllTexts :
        /\ Contains(t, m.cmd) => t.cmd = m.cmd
        /\ t.cmd = m.cmd => t.net = m.net

\* The targets and arguments mean what they say, if names are plain: a target
\* alone gives a play for each of its texts on the text's network, a network
\* and names give one play with all their commands in order, and a single name
\* without networks gives one play on localhost; and $SUP_NETWORK is the network
\* of the play, unless targets chose it (target.go:49-84, mode_*.go).
PlaysAsWritten ==
    (result = "playbook" /\ PlainNames) =>
        /\ plays = IF file.networks = {}
                     THEN IF Len(args) = 1
                            THEN <<[net |-> Localhost, cmds |-> WrittenCommands(args[1])]>>
                            ELSE plays
                   ELSE IF allArgsAreTargets THEN Joined(PlaysOfTargets)
                   ELSE <<[net |-> args[1], cmds |-> Joined(CommandsAfterNetwork)]>>
        /\ file.networks = {} \/ ~allArgsAreTargets =>
               \A k \in 1 .. Len(plays) : supNetwork[k] = plays[k].net
=============================================================================
