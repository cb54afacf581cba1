------------------------------ MODULE LockStep ------------------------------
(***************************************************************************)
(* What ssup promises about a sequence of commands: "Each command will be  *)
(* run on all hosts in parallel, sup will check return status from all     *)
(* hosts, and run subsequent commands on success only"                     *)
(* (docs/base/targets.md).  A round is one task; its members are the       *)
(* clients it is for.  The next round begins, and the whole may end well,  *)
(* only when every member has been started and has succeeded.              *)
(***************************************************************************)
CONSTANT Client

VARIABLES members,  \* the clients of the round; empty between rounds
          started,  \* those whose command was started
          passed,   \* those whose command was waited for and succeeded
          outcome   \* "working", "ok" or "error"

lockVars == <<members, started, passed, outcome>>

Init == members = {} /\ started = {} /\ passed = {} /\ outcome = "working"

\* The round is over, and another, or a pause, follows.
NewRound(M) ==
    /\ outcome = "working"
    /\ passed = members
    /\ members' = M /\ started' = {} /\ passed' = {}
    /\ UNCHANGED outcome

Start(c) ==
    /\ outcome = "working"
    /\ c \in members \ started
    /\ started' = started \cup {c}
    /\ UNCHANGED <<members, passed, outcome>>

Pass(c) ==
    /\ outcome = "working"
    /\ c \in started \ passed
    /\ passed' = passed \cup {c}
    /\ UNCHANGED <<members, started, outcome>>

Succeed ==
    /\ outcome = "working" /\ passed = members
    /\ outcome' = "ok"
    /\ UNCHANGED <<members, started, passed>>

Fail ==
    /\ outcome = "working"
    /\ outcome' = "error"
    /\ UNCHANGED <<members, started, passed>>

Next ==
    \/ \E M \in SUBSET Client : NewRound(M)
    \/ \E c \in Client : Start(c) \/ Pass(c)
    \/ Succeed
    \/ Fail

Spec == Init /\ [][Next]_lockVars
=============================================================================
