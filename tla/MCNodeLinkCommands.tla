------------------------ MODULE MCNodeLinkCommands ------------------------
(* Two keys on one resource under two leases.                              *)
EXTENDS NodeLinkCommands, TLC

CONSTANTS k1, k2, e1, e2, l1, l2, r1

MCKey == {k1, k2}
MCEnvelope == {e1, e2}
MCKeyOf == (e1 :> k1) @@ (e2 :> k2)
MCResourceOf == [e \in MCEnvelope |-> r1]
MCLeaseOf == (e1 :> l1) @@ (e2 :> l2)

\* Exchanging the two commands with all that belongs to them changes nothing.
MCSymmetry ==
  {(k1 :> k2) @@ (k2 :> k1) @@ (e1 :> e2) @@ (e2 :> e1) @@ (l1 :> l2) @@ (l2 :> l1)}

\* Nothing more is explored while more replies are under way than a cancelled command and one
\* request leave behind.
FewReplies == Cardinality(outbox) <= MaxReplies + 1
=============================================================================
