---------------------------- MODULE MCNodeLink ----------------------------
(* One task with two attempts on one leased resource.                      *)
EXTENDS NodeLink, TLC

CONSTANTS k1, k2, e1, e2, l1, l2, r1

MCKey == {k1, k2}
MCEnvelope == {e1, e2}
MCKeyOf == (e1 :> k1) @@ (e2 :> k2)
MCResourceOf == [e \in MCEnvelope |-> r1]
OneLease == [e \in MCEnvelope |-> l1]
TwoLeases == (e1 :> l1) @@ (e2 :> l2)
LeaseSymmetry ==
  {(k1 :> k2) @@ (k2 :> k1) @@ (e1 :> e2) @@ (e2 :> e1) @@ (l1 :> l2) @@ (l2 :> l1)}
MCSymmetry == {(k1 :> k2) @@ (k2 :> k1) @@ (e1 :> e2) @@ (e2 :> e1)}

=============================================================================
