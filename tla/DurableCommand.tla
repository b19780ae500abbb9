-------------------------- MODULE DurableCommand --------------------------
(***************************************************************************)
(* What the durable command link promises a caller: a command offered to   *)
(* the node takes effect at most once, only while the caller holds it for  *)
(* offered, and is settled only when its effect is over.  The commands in  *)
(* Attempt replace one another: the next is offered only when no other one *)
(* may still take effect.                                                  *)
(***************************************************************************)
CONSTANTS
  Key,      \* commands
  Attempt   \* the commands of one task, a part of Key, each replacing the one before

VARIABLES
  caller,  \* what the caller holds: "idle", "offered", "settled", "forgotten"
  effect   \* what happened on the node: "none", "running", "over"

vars == <<caller, effect>>

Init ==
  /\ caller = [k \in Key |-> "idle"]
  /\ effect = [k \in Key |-> "none"]

Offer(k) ==
  /\ caller[k] = "idle"
  /\ k \in Attempt => \A j \in Attempt : caller[j] # "offered" /\ effect[j] # "running"
  /\ caller' = [caller EXCEPT ![k] = "offered"]
  /\ UNCHANGED effect

\* The node refused: nothing happened and the same command may be offered again.
Withdraw(k) ==
  /\ caller[k] = "offered" /\ effect[k] = "none"
  /\ caller' = [caller EXCEPT ![k] = "idle"]
  /\ UNCHANGED effect

Start(k) ==
  /\ caller[k] = "offered" /\ effect[k] = "none"
  /\ effect' = [effect EXCEPT ![k] = "running"]
  /\ UNCHANGED caller

Settle(k) ==
  /\ caller[k] = "offered" /\ effect[k] # "running"
  /\ caller' = [caller EXCEPT ![k] = "settled"]
  /\ UNCHANGED effect

\* Retention and deadlines end together for several commands.
Forget(gone) ==
  /\ gone # {}
  /\ \A k \in gone : caller[k] \in {"idle", "settled"} /\ effect[k] # "running"
  /\ caller' = [k \in Key |-> IF k \in gone THEN "forgotten" ELSE caller[k]]
  /\ UNCHANGED effect

\* Effects may end together, when the node's daemon dies.
Stop(gone) ==
  /\ gone # {} /\ \A k \in gone : effect[k] = "running"
  /\ effect' = [k \in Key |-> IF k \in gone THEN "over" ELSE effect[k]]
  /\ UNCHANGED caller

Next ==
  \/ \E k \in Key : Offer(k) \/ Withdraw(k) \/ Start(k) \/ Settle(k)
  \/ \E gone \in SUBSET Key : Forget(gone) \/ Stop(gone)

Spec == Init /\ [][Next]_vars
=============================================================================
