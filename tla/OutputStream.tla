---------------------------- MODULE OutputStream ----------------------------
(***************************************************************************)
(* What the link promises the caller of a streamed process: it is shown    *)
(* the pieces of output in the order in which they were produced, each     *)
(* once and none left out, and a call that ends well has shown all of      *)
(* them, unless the process was cut off.  A consumer that takes snapshots  *)
(* may be moved forward by one instead.                                    *)
(***************************************************************************)
EXTENDS Naturals

VARIABLES snapshots,  \* whether the consumer accepts a snapshot
          produced,   \* how many pieces the process has produced
          cut,        \* whether the process was terminated or its link closed
          shown,      \* how far the caller has been shown the output
          result      \* what the call returned

vars == <<snapshots, produced, cut, shown, result>>

TypeOK == /\ snapshots \in BOOLEAN
          /\ produced \in Nat
          /\ cut \in BOOLEAN
          /\ shown \in 0..produced
          /\ result \in {"none", "ok", "failed"}

Init == /\ snapshots \in BOOLEAN
        /\ produced = 0
        /\ cut = FALSE
        /\ shown = 0
        /\ result = "none"

Produce == /\ produced' = produced + 1
           /\ UNCHANGED <<snapshots, cut, shown, result>>

Cut == /\ cut' = TRUE
       /\ UNCHANGED <<snapshots, produced, shown, result>>

Show == /\ result = "none"
        /\ shown < produced
        /\ shown' = shown + 1
        /\ UNCHANGED <<snapshots, produced, cut, result>>

\* The projection is replaced by the source's own, never behind what was shown.
Replace == /\ snapshots
           /\ result = "none"
           /\ shown' \in (shown + 1)..produced
           /\ UNCHANGED <<snapshots, produced, cut, result>>

\* A call may fail because the process is terminated with it.
Return == /\ result = "none"
          /\ result' \in {"ok", "failed"}
          /\ result' = "ok" => shown = produced \/ cut
          /\ cut' \in {cut, TRUE}
          /\ UNCHANGED <<snapshots, produced, shown>>

Next == Produce \/ Cut \/ Show \/ Replace \/ Return

Spec == Init /\ [][Next]_vars
=============================================================================
