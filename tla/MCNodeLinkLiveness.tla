------------------------- MODULE MCNodeLinkLiveness -------------------------
(***************************************************************************)
(* What has to end on the node: one key that two requests claim, and the   *)
(* admission queue with items of all priorities.  The two parts share no   *)
(* variable and NodeLinkCommands abstracts the queue to a refusal that may *)
(* happen at any time, so a behaviour moves one of them; which one is      *)
(* chosen initially, and the other keeps its initial state.                *)
(***************************************************************************)
EXTENDS MCNodeLinkOneKey

CONSTANTS control, exec, big, small

Items == {control, exec, big, small}
Priorities == (control :> "control") @@ (exec :> "interactive") @@ (big :> "bulk") @@ (small :> "bulk")
Sizes == (control :> 1) @@ (exec :> 2) @@ (big :> 2) @@ (small :> 1)

VARIABLES part, state, pending, active, bulk, bytes, bulkBytes, closed, late

Queue == INSTANCE NodeLinkQueue WITH
  Item <- Items, PriorityOf <- Priorities, BytesOf <- Sizes,
  InFlight <- 2, ReservedControl <- 1, QueuedBytes <- 4, expired <- late

ASSUME Queue!QueueAssumption

queueVars == <<state, pending, active, bulk, bytes, bulkBytes, closed, late>>
partVars == <<part, vars, queueVars>>

PartInit == part \in {"commands", "queue"} /\ Init /\ Queue!Init

PartNext ==
  \/ part = "commands" /\ Next /\ UNCHANGED <<part, queueVars>>
  \/ part = "queue" /\ Queue!Next /\ UNCHANGED <<part, vars>>

PartSpec ==
  /\ PartInit /\ [][PartNext]_partVars
  /\ part = "commands" => Fairness

-----------------------------------------------------------------------------
(* The properties of NodeLinkQueue, under names of their own *)

\* queue.ts gives back exactly what an item took, on every path out of the queue and the executor.
QueueAccounts == Queue!TypeOK /\ Queue!Accounts

\* No path of queue.ts frees a slot without looking at the queue.
QueueNoIdleCapacity == Queue!NoIdleCapacity

\* Bulk transfers leave slots and bytes to the other commands (reservedControl of queue.ts).
QueueRoomForControl == Queue!RoomForControl

\* drain() of queue.ts lets nobody be overtaken by an item of the same or a lower priority.
QueueInOrder == Queue!InOrder
=============================================================================
