-------------------------- MODULE MCDispatchQueue --------------------------
(* One node with two rows and two runs in its lifetime, and one replay at  *)
(* a time: enough for a cancelled run, the row that replaces it, and the   *)
(* run either of them may end in.                                          *)
EXTENDS DispatchQueue

CONSTANT p1

MCReplay == {p1}
=============================================================================
