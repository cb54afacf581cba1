----------------------------- MODULE MCPlaybook -----------------------------
(* Supfiles of one or two targets over three commands, one of whose names   *)
(* is part of another's, and two networks.                                  *)
EXTENDS Playbook, TLC

CONSTANTS up, upload, setup, local, remote, t1, t2, localhost, none

MCWord == {up, upload, setup, local, remote, t1, t2, localhost}
\* "up" is part of "upload" and of "setup", "local" of "localhost".
MCWithin == [w \in MCWord |->
               CASE w = up -> {up, upload, setup}
                 [] w = local -> {local, localhost}
                 [] OTHER -> {w}]

MCText == [cmd : {up, upload, setup}, net : {local, remote, none}]
Lists == {<<a>> : a \in MCText} \cup {<<a, b>> : a, b \in MCText}
Tgt(name, list) == [name |-> name, items |-> list]

Targets == {<<>>} \cup {<<Tgt(t1, a)>> : a \in Lists}
           \cup {<<Tgt(t1, <<a>>), Tgt(t2, <<b>>)>> : a, b \in MCText}

Lines == {<<>>, <<up>>, <<up, upload>>, <<local, up, t1>>, <<remote, t1>>, <<t1>>, <<t1, t2>>,
          <<t2, setup>>, <<t1, local>>}

PassInputs ==
    [file : [targets : Targets, commands : {{up, upload, setup}}, networks : {{}, {local, remote}}],
     args : Lines]
    \cup [file : [targets : {<<Tgt(t1, <<[cmd |-> up, net |-> remote]>>)>>,
                             <<Tgt(t1, <<[cmd |-> up, net |-> none]>>)>>},
                  commands : {{}}, networks : {{}, {local}}],
          args : Lines]
    \cup [file : [targets : {<<Tgt(t1, <<[cmd |-> up, net |-> localhost],
                                         [cmd |-> setup, net |-> local]>>)>>},
                  commands : {{up, setup}}, networks : {{local, localhost}}],
          args : {<<t1>>, <<t1, t1>>, <<localhost, setup, t1>>}]
=============================================================================
