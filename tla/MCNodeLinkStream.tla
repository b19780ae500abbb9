-------------------------- MODULE MCNodeLinkStream --------------------------
(***************************************************************************)
(* Instances of NodeLinkStream: a process with two pipes or a terminal,    *)
(* frames of which the journal holds two or only one.                      *)
(***************************************************************************)
EXTENDS NodeLinkStream
CONSTANTS stdout, stderr
Invocation(t, h, l, s) == [terminal |-> t, hook |-> h, large |-> l, sizes |-> s]
AllCalls == {Invocation(FALSE, FALSE, FALSE, {1, 2}), Invocation(TRUE, FALSE, FALSE, {1, 2}),
             Invocation(FALSE, FALSE, TRUE, {3}), Invocation(FALSE, TRUE, TRUE, {3}),
             Invocation(TRUE, FALSE, FALSE, {3})}
Faulty == {"abort", "refuse", "timeout", "giveUp", "prune", "close"}
=============================================================================
