------------------------- MODULE MCNodeLinkOneKey -------------------------
(* One key that two different requests claim: the digest conflict, with    *)
(* liveness, which needs a run without symmetry.                           *)
EXTENDS NodeLinkCommands, TLC

CONSTANTS k1, e1, e2, l1, l2, r1

MCEnvelope == {e1, e2}
MCKeyOf == [e \in MCEnvelope |-> k1]
MCResourceOf == [e \in MCEnvelope |-> r1]
MCLeaseOf == (e1 :> l1) @@ (e2 :> l2)
=============================================================================
