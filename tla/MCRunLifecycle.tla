--------------------------- MODULE MCRunLifecycle ---------------------------
(***************************************************************************)
(* What has to end in a run's lifecycle: the operations that wait for the  *)
(* transition locks, and the teardowns of a slot with one run.  The two    *)
(* parts share no variable and SlotOwnership reduces the lock to Locked,   *)
(* so a behaviour moves one of them; which one is chosen initially, and    *)
(* the other keeps its initial state.                                      *)
(***************************************************************************)
EXTENDS MCTransitionCoordinator

CONSTANT s1

VARIABLES part, row, status, reclaimed, claim, rel, cl, rp, rec, stray,
  releases, crashes, replays, given, adrift, unheeded

Slot == INSTANCE SlotOwnership WITH
  Run <- {s1}, None <- Nobody, MaxReleases <- 1, MaxCrashes <- 1, MaxReplays <- 1

ASSUME Slot!SlotAssumption

slotVars == <<row, status, reclaimed, claim, rel, cl, rp, rec, stray, releases, crashes, replays, given, adrift, unheeded>>
partVars == <<part, vars, slotVars>>

PartInit ==
  /\ part \in {"locks", "slot"} /\ Init /\ Slot!Init
  /\ part = "slot" => \A r \in Run : home[r] = Nobody

\* A slot may be left as it is.
PartNext ==
  \/ part = "locks" /\ Next /\ UNCHANGED <<part, slotVars>>
  \/ part = "slot" /\ Slot!Next /\ UNCHANGED <<part, vars>>
  \/ part = "slot" /\ UNCHANGED partVars

\* In its initial state no part has a fair action to take.
PartSpec == PartInit /\ [][PartNext]_partVars /\ Fairness /\ Slot!Fairness

-----------------------------------------------------------------------------
(* The properties of SlotOwnership, under names of their own *)

\* Whatever dies behind a releasing fence, the slot leaves it in the end (STALE_RELEASE_RECLAIM_MS).
SlotFencesEnd == Slot!FencesEnd

\* The reconciler or a cleanup gives back the slot of a run that has ended, unless the run keeps it
\* for an operator.
SlotOrphansEnd == Slot!OrphansEnd
=============================================================================
