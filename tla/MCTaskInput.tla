----------------------------- MODULE MCTaskInput -----------------------------
(* The playbooks of MCStackup, and some with commands that take ssup's input, *)
(* three pieces long; on l2 a command ends without reading any.               *)
EXTENDS TaskInput, MCStackup

MCInputCmdName == MCCmdName \cup {"bash", "feed"}

bash == [plain EXCEPT !.name = "bash"]
feed == [plain EXCEPT !.name = "feed"]
bashShip == [ship EXCEPT !.name = "bash"]
bashBoth == [localOnly EXCEPT !.name = "bash", !.run = 1]

StdinPlaybooks ==
    { <<On(remotes, <<bash>>)>>,
      <<On({r1, l1}, <<bashShip>>)>>,
      <<On(locals, <<bash, bash>>)>>,
      <<On({l1}, <<feed, bash>>), On({r1}, <<bash>>)>>,
      <<On({l1, l2, r1}, <<bash>>)>>,
      <<On({l1}, <<bashBoth, plain>>)>>,
      <<On({l1, r1}, <<[one EXCEPT !.name = "feed"]>>), On({r2}, <<bash>>)>> }

InputPlaybooks == HandPlaybooks \cup StdinPlaybooks
=============================================================================
