------------------- MODULE MCTransitionCoordinator -------------------
(* Two workflows of one machine, an action of one run and a handoff.         *)
EXTENDS TransitionCoordinator, TLC

CONSTANTS m1, r1, r2, w1, w2, a1, b1

MCRunOf == [a \in Action |-> IF a = b1 THEN r2 ELSE r1]
MCMachineOf == [w \in Workflow |-> m1]
MCSource == [a \in Action |-> IF a = b1 THEN r1 ELSE Nobody]
=============================================================================
