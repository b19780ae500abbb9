---------------------------- MODULE NodeLinkQueue ----------------------------
(***************************************************************************)
(* The admission queue of a node's link (services/node/src/link/queue.ts): *)
(* a bounded number of commands executes, a bounded number of bytes waits, *)
(* and bulk transfers leave room for everything else.  drain() runs in the *)
(* step of whatever calls it.                                              *)
(***************************************************************************)
EXTENDS Integers, Sequences, FiniteSets, SequencesExt

CONSTANTS Item,            \* commands offered to the queue, each once
          PriorityOf,      \* item -> "control", "interactive", "bulk"
          BytesOf,         \* item -> bytes
          InFlight,        \* limits.inFlight
          ReservedControl, \* limits.reservedControl
          QueuedBytes      \* limits.queuedBytes

QueueAssumption ==
  /\ PriorityOf \in [Item -> {"control", "interactive", "bulk"}]
  /\ BytesOf \in [Item -> Nat]
  /\ InFlight \in Nat \ {0} /\ QueuedBytes \in Nat
  /\ ReservedControl \in 0..InFlight

VARIABLES state,      \* what became of an item; "cancelling" is the await of item.cancel
          pending, active, bulk, bytes, bulkBytes, closed,
          expired     \* items whose deadline has passed

counters == <<active, bulk, bytes, bulkBytes>>
vars == <<state, pending, counters, closed, expired>>

Bulk == {i \in Item : PriorityOf[i] = "bulk"}
\* Mutant: bulk may use every slot.
AllSlots == InFlight

BulkSlots == InFlight - ReservedControl
InState(s) == {i \in Item : state[i] = s}

TypeOK ==
  /\ state \in [Item -> {"new", "queued", "active", "cancelling", "settled", "refused"}]
  /\ pending \in Seq(Item)
  /\ active \in 0..InFlight /\ bulk \in 0..active
  /\ bytes \in 0..QueuedBytes /\ bulkBytes \in 0..bytes
  /\ closed \in BOOLEAN /\ expired \subseteq Item

Init ==
  /\ state = [i \in Item |-> "new"]
  /\ pending = <<>> /\ active = 0 /\ bulk = 0 /\ bytes = 0 /\ bulkBytes = 0
  /\ closed = FALSE /\ expired = {}

IfBulk(i, n) == IF i \in Bulk THEN n ELSE 0

\* Mutant: the queue is served in order of arrival.
Arrival(q) == q

\* The order in which drain() looks at the queue.
ByPriority(q) ==
  LET of(p) == SelectSeq(q, LAMBDA i : PriorityOf[i] = p)
  IN  of("control") \o of("interactive") \o of("bulk")

\* One turn of drain(): an item leaves the queue, to be refused when its deadline has passed.
Turn(d, i) ==
  IF d.active = InFlight \/ (i \in Bulk /\ d.bulk >= BulkSlots) THEN d
  ELSE LET late == i \in expired
       IN  [state |-> [d.state EXCEPT ![i] = IF late THEN "refused" ELSE "active"],
            active |-> IF late THEN d.active ELSE d.active + 1,
            bulk |-> IF late THEN d.bulk ELSE d.bulk + IfBulk(i, 1),
            bytes |-> d.bytes - BytesOf[i],
            bulkBytes |-> d.bulkBytes - IfBulk(i, BytesOf[i])]

\* drain(), from the given state, queue and counters.
Drain(st, q, a, b, by, bb) ==
  LET start == [state |-> st, active |-> a, bulk |-> b, bytes |-> by, bulkBytes |-> bb]
      end == IF closed THEN start ELSE FoldLeft(Turn, start, ByPriority(q))
  IN  /\ state' = end.state
      /\ pending' = SelectSeq(q, LAMBDA i : end.state[i] = "queued")
      /\ active' = end.active /\ bulk' = end.bulk
      /\ bytes' = end.bytes /\ bulkBytes' = end.bulkBytes

\* The byte limits; bulk may fill only its share of the queue.
Fits(i) ==
  /\ bytes + BytesOf[i] <= QueuedBytes
  /\ i \in Bulk => (bulkBytes + BytesOf[i]) * InFlight <= QueuedBytes * BulkSlots

Run(i) ==
  /\ state[i] = "new"
  /\ IF closed \/ ~Fits(i)
     THEN /\ state' = [state EXCEPT ![i] = "refused"]
          /\ UNCHANGED <<pending, counters>>
     ELSE Drain([state EXCEPT ![i] = "queued"], Append(pending, i), active, bulk,
                bytes + BytesOf[i], bulkBytes + IfBulk(i, BytesOf[i]))
  /\ UNCHANGED <<closed, expired>>

\* Mutant: the slot is given back without looking at the queue.
FinishIdle(i) ==
  /\ state[i] = "active"
  /\ state' = [state EXCEPT ![i] = "settled"]
  /\ active' = active - 1 /\ bulk' = bulk - IfBulk(i, 1)
  /\ UNCHANGED <<pending, bytes, bulkBytes, closed, expired>>

\* The operation has ended either way: release().
Finish(i) ==
  /\ state[i] = "active"
  /\ Drain([state EXCEPT ![i] = "settled"], pending, active - 1, bulk - IfBulk(i, 1), bytes, bulkBytes)
  /\ UNCHANGED <<closed, expired>>

\* Mutant: a cancelled item keeps its bytes.
CancelKeepingBytes(i) ==
  /\ state[i] = "queued"
  /\ state' = [state EXCEPT ![i] = "cancelling"]
  /\ pending' = SelectSeq(pending, LAMBDA j : j # i)
  /\ UNCHANGED <<counters, closed, expired>>

\* Only an item that still waits is taken out; its own outcome callback settles it.
Cancel(i) ==
  /\ state[i] = "queued"
  /\ state' = [state EXCEPT ![i] = "cancelling"]
  /\ pending' = SelectSeq(pending, LAMBDA j : j # i)
  /\ bytes' = bytes - BytesOf[i] /\ bulkBytes' = bulkBytes - IfBulk(i, BytesOf[i])
  /\ UNCHANGED <<active, bulk, closed, expired>>

Cancelled(i) ==
  /\ state[i] = "cancelling"
  /\ state' = [state EXCEPT ![i] = "settled"]
  /\ UNCHANGED <<pending, counters, closed, expired>>

Retire ==
  /\ ~closed /\ closed' = TRUE
  /\ state' = [i \in Item |-> IF state[i] = "queued" THEN "refused" ELSE state[i]]
  /\ pending' = <<>> /\ bytes' = 0 /\ bulkBytes' = 0
  /\ UNCHANGED <<active, bulk, expired>>

\* drain() looks at the deadline of items that wait, never later.
Expire(i) ==
  /\ state[i] \in {"new", "queued"}
  /\ i \notin expired /\ expired' = expired \cup {i}
  /\ UNCHANGED <<state, pending, counters, closed>>

Next ==
  \/ \E i \in Item : Run(i) \/ Finish(i) \/ Cancel(i) \/ Cancelled(i) \/ Expire(i)
  \/ Retire

Spec == Init /\ [][Next]_vars

-----------------------------------------------------------------------------
(* Properties *)

\* Every path an item can take out of the queue or the executor gives back exactly what it took: its
\* slot, its bytes, and its share of the bulk limits.
Accounts ==
  LET total(items) == SumFunctionOnSet(BytesOf, items)
  IN  /\ active = Cardinality(InState("active"))
      /\ bulk = Cardinality(InState("active") \cap Bulk)
      /\ bytes = total(InState("queued"))
      /\ bulkBytes = total(InState("queued") \cap Bulk)
      /\ ToSet(pending) = InState("queued") /\ IsInjective(pending)

\* Nothing waits while it could execute: no path frees a slot without looking at the queue.
NoIdleCapacity ==
  \A i \in InState("queued") : active = InFlight \/ (i \in Bulk /\ bulk = BulkSlots)

\* Bulk transfers alone never take the last slots nor the last bytes: a command of another kind
\* that is held up or refused is so because of others of its kind.
RoomForControl ==
  /\ InState("queued") \subseteq Bulk \/ Cardinality(InState("active") \ Bulk) >= ReservedControl
  /\ bulkBytes * InFlight <= QueuedBytes * BulkSlots

\* Nobody is overtaken by an item of the same or a lower priority.
Rank(i) == CASE PriorityOf[i] = "control" -> 0 [] PriorityOf[i] = "interactive" -> 1 [] OTHER -> 2
InOrder ==
  [][\A m, n \in DOMAIN pending :
       (state'[pending[n]] = "active" /\ state'[pending[m]] = "queued")
         => Rank(pending[n]) < Rank(pending[m]) \/ (Rank(pending[n]) = Rank(pending[m]) /\ n < m)]_vars

=============================================================================
