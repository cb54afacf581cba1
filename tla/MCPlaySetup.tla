---------------------------- MODULE MCPlaySetup ----------------------------
(* Networks, five variables with references to each other and to ssup's  *)
(* environment; invocations in the three modes, with -e and the host flags.  *)
EXTENDS PlaySetup, TLC

MCVar == {"A", "B", "SUP_HOST", "SUP_USER", "SUP_NETWORK"}
MCNetwork == {"lan", "wan", "localhost"}
MCNetHosts == ("lan" :> <<"web", "me@db", "localhost">>) @@ ("wan" :> <<"web", "web">>)
              @@ ("localhost" :> <<"localhost">>)
MCUserOf == ("web" :> "") @@ ("me@db" :> "me") @@ ("localhost" :> "") @@ ("10:22" :> "")
MCLit == {"1", "2", "3", "lan", "wan", "web", "me@db", "localhost", "10:22", "me", "root", "deploy"}
MCOsEnv == [v \in MCVar |-> IF v = "B" THEN Lits("3") ELSE Empty]
MCLocalHost == {"localhost"}

Env1(v, x) == [k \in {<<v>>} |-> x]
Env2(v, x, w, y) == (<<v>> :> x) @@ (<<w>> :> y)
Run(e) == [env |-> e, parts |-> {"run"}]
All == [env |-> Env1("A", Lits("2")), parts |-> Part]
On(n, cs) == [network |-> n, cmds |-> cs]

plain ==
    [conf |-> Env2("A", Lits("1"), "B", Ref("A")), netEnv |-> [n \in MCNetwork |-> NoEnv],
     plays |-> <<On("lan", <<Run(NoEnv)>>)>>, flags |-> <<>>, firstArg |-> "lan",
     makefile |-> FALSE, only |-> MCLit, except |-> {}, bad |-> {},
     sshconfig |-> [h \in {} |-> NoEnv]]
chain == [h \in {"localhost", "10:22"} |-> [to |-> IF h = "localhost" THEN "10:22" ELSE "web",
                                           user |-> "deploy"]]
alias(host) == [h \in {host} |-> [to |-> "10:22", user |-> "deploy"]]

\* References: to a variable of the Supfile, of ssup's environment, of another
\* that is a reference itself, to itself; a network's value over the Supfile's.
Variables == {
    [plain EXCEPT !.plays = <<On("lan", <<Run(NoEnv), Run(Env1("A", Lits("2"))), Run(NoEnv)>>)>>],
    [plain EXCEPT !.conf = Env2("A", Ref("B"), "B", Ref("SUP_HOST")),
                  !.plays = <<On("wan", <<Run(Env1("SUP_USER", Lits("root"))), Run(NoEnv)>>)>>],
    [plain EXCEPT !.conf = Env2("A", Subshell("1"), "B", Ref("B")),
                  !.netEnv["wan"] = Env1("A", Lits("2")),
                  !.plays = <<On("wan", <<Run(NoEnv), All>>), On("lan", <<Run(NoEnv)>>)>>],
    [plain EXCEPT !.netEnv["lan"] = Env1("B", Subshell("2")),
                  !.plays = <<On("lan", <<All, Run(NoEnv)>>), On("lan", <<Run(NoEnv)>>)>>],
    [plain EXCEPT !.conf = Env2("A", Ref("SUP_NETWORK"), "B", Ref("A")), !.firstArg = "3"] }

Flags == {
    [plain EXCEPT !.flags = << <<"A", "3">> >>, !.plays = <<On("lan", <<Run(NoEnv), All>>)>>],
    [plain EXCEPT !.flags = << <<"B", "2">>, <<"B", "3">> >>, !.netEnv["lan"] = Env1("A", Ref("B")),
                  !.plays = <<On("lan", <<All>>)>>],
    [plain EXCEPT !.flags = << <<"A", "3">>, <<"B">> >>] }

\* The host flags, alone and together, in three plays and in makefile mode.
Two == <<On("localhost", <<>>), On("localhost", <<Run(NoEnv)>>)>>
Three == <<On("lan", <<Run(NoEnv)>>), On("wan", <<>>), On("lan", <<Run(NoEnv)>>)>>
Hosts == {
    [plain EXCEPT !.only = {"web", "me@db"}, !.plays = Three],
    [plain EXCEPT !.except = {"me@db"}, !.sshconfig = alias("web"), !.plays = Three],
    [plain EXCEPT !.only = {"web", "me@db", "10:22"}, !.except = {"me@db"}, !.sshconfig = alias("web")],
    [plain EXCEPT !.only = {"me@db"}, !.plays = Three],
    [plain EXCEPT !.except = {"web"}, !.plays = Three],
    [plain EXCEPT !.bad = {"only", "except"}], [plain EXCEPT !.bad = {"except"}],
    [plain EXCEPT !.bad = {"sshconfig"}],
    [plain EXCEPT !.sshconfig = chain, !.makefile = TRUE, !.plays = Two],
    [plain EXCEPT !.sshconfig = alias("localhost"), !.makefile = TRUE, !.firstArg = "wan",
                  !.conf = Env2("A", Ref("SUP_NETWORK"), "B", Ref("A")),
                  !.plays = <<On("localhost", <<Run(NoEnv)>>), On("localhost", <<Run(NoEnv)>>)>>] }

MCSetups == Variables \cup Flags \cup Hosts
=============================================================================
