---------------------- MODULE NodeLinkReceiptsProofs ----------------------
(***************************************************************************)
(* What holds of NodeLinkCommands for all keys, envelopes, resources,      *)
(* leases and any number of replies under way: its type, that an effect    *)
(* starts at most once, and what the durable receipts say: a confirmed     *)
(* closeout is over, an outcome is final, a running effect is retained,    *)
(* unfinished receipts are indexed and an acknowledged cancellation is     *)
(* durable.                                                                *)
(***************************************************************************)
EXTENDS NodeLinkCommandsProofs

-----------------------------------------------------------------------------
(* The inductive invariant, on top of Inv *)

Unfinished(r) == r.state # "none" /\ ~IsTerminal(r)
Started(r) == r.state \in {"admitted", "running"}

\* Of the queued writes of a held command only the last can be an outcome, it is what
\* the command holds, and "running" is written alone, before the effect starts.
WritesInOrder(h) ==
  /\ h.writes # <<>> => h.writes[Len(h.writes)].rcpt = h.rcpt
  /\ \A i \in 1..Len(h.writes) :
       LET r == h.writes[i].rcpt
       IN  /\ i # Len(h.writes) \/ h.writes[i].by # "run" => ~IsTerminal(r) /\ ~r.confirmed
           /\ h.phase # "starting" => ~Started(r)
  /\ h.phase \in {"starting", "executing"} => ~IsTerminal(h.rcpt) /\ ~h.rcpt.confirmed
  /\ h.phase = "starting" => h.rcpt.state = "running"
  /\ h.phase \in {"starting", "closing"} => Len(h.writes) = 1 /\ h.writes[1].by = "run"

\* How far the receipt file of a held command has come, by its phase.
FileOfPhase(k) ==
  /\ held[k].phase \in {"indexing", "fencing", "starting", "closing"} =>
       disk[k].state = "admitted" /\ ~disk[k].confirmed
  /\ held[k].phase \in {"executing", "settling", "draining"} =>
       Unfinished(disk[k]) /\ ~disk[k].confirmed
  /\ link = "up" /\ held[k].phase \in {"idle", "queued", "reading", "draining"} =>
       ~Started(disk[k])

\* An effect that may be running has an unconfirmed receipt, in memory and in its file,
\* and its key is not on its way to a second one.
EffectOfPhase(k) ==
  /\ held[k].phase = "executing" => k \in live
  /\ k \in live =>
       /\ disk[k].state # "none" /\ ~disk[k].confirmed
       /\ ~held[k].rcpt.confirmed
       /\ held[k].phase \notin
            {"checking", "pruning", "admitting", "indexing", "fencing", "starting", "closing"}

ConfirmedIsOutcome(h) == h.rcpt.confirmed => IsTerminal(h.rcpt)

ReceiptInv(k) ==
  /\ WritesInOrder(held[k]) /\ ConfirmedIsOutcome(held[k])
  /\ FileOfPhase(k) /\ EffectOfPhase(k)

\* The receipts former agents may still touch, or have, are unsettled and nobody's: no
\* command is held that could write or prune them.
FormerInv(k) ==
  /\ k \in leftover \cup overtaken =>
       /\ disk[k].state # "none" /\ ~disk[k].confirmed
       /\ held[k].phase \in {"idle", "queued", "reading"}
  /\ k \in overtaken => disk[k].state = "cancel-requested" /\ k \notin index

IndexInv(k) ==
  link \in {"up", "recovering"} /\ Unfinished(disk[k]) =>
    k \in index \/ InPhase(k, "indexing") \/ k \in overtaken

\* Boot rewrites unfinished receipts only.
RecoversUnfinished == link = "recovering" => \A k \in index : Unfinished(disk[k])

\* Replies live on the socket.
RepliesNeedSocket == link # "up" => outbox = {}

OnTheWay(k) ==
  \/ held[k].phase = "starting"
  \/ /\ held[k].phase \in {"pruning", "admitting", "indexing", "fencing"}
     /\ ~held[k].cancelRequested

\* The replies the caller builds on: a confirmed closeout, an acknowledged cancellation.
Binding(m) == m.rcpt.confirmed \/ (m.via = "cancel" /\ m.kind = "receipt")

\* While such a reply is under way its key is known, by its receipt or by its deadline,
\* and no delivery of it is on its way to the executor.
Told(m) ==
  /\ Binding(m) => /\ disk[m.key].state # "none" \/ KeyExpired(m.key)
                   /\ ~OnTheWay(m.key)
  /\ m.rcpt.confirmed => m.key \notin live
  /\ m.via = "cancel" /\ m.kind = "receipt" =>
       /\ disk[m.key].state # "running"
       /\ disk[m.key].state = "admitted" => held[m.key].cancelRequested

OutcomeInv ==
  /\ Inv
  /\ \A k \in Key : ReceiptInv(k) /\ IndexInv(k) /\ FormerInv(k)
  /\ RecoversUnfinished
  /\ RepliesNeedSocket
  /\ \A m \in outbox : Told(m)

-----------------------------------------------------------------------------
(* The queue of writes *)

\* The oldest write: an outcome only if it is the last one, which the command holds.
LEMMA HeadInOrder ==
  ASSUME NEW h \in Held, WritesInOrder(h), h.writes # <<>>
  PROVE  LET w == Head(h.writes)
         IN  /\ w \in Write
             /\ w = h.writes[1]
             /\ Len(h.writes) \in Nat \ {0}
             /\ Tail(h.writes) = <<>> => w.rcpt = h.rcpt
             /\ Tail(h.writes) # <<>> \/ w.by # "run" => ~IsTerminal(w.rcpt) /\ ~w.rcpt.confirmed
             /\ h.phase # "starting" => ~Started(w.rcpt)
             /\ h.phase \in {"starting", "closing"} => w.by = "run" /\ Tail(h.writes) = <<>>
  <1>1. h.writes \in Seq(Write)
    BY DEF Held
  <1>2. /\ Len(h.writes) \in Nat \ {0}
        /\ Head(h.writes) = h.writes[1] /\ Head(h.writes) \in Write
        /\ Tail(h.writes) \in Seq(Write)
        /\ Len(Tail(h.writes)) = Len(h.writes) - 1
    BY <1>1, EmptySeq, HeadTailProperties
  <1>3. Tail(h.writes) = <<>> <=> Len(h.writes) = 1
    <2>1. PICK t \in Seq(Write) : t = Tail(h.writes)
      BY <1>2
    <2>2. t = <<>> <=> Len(t) = 0
      BY EmptySeq
    <2> QED
      BY <1>2, <2>1, <2>2
  <1> QED
    BY <1>2, <1>3 DEF WritesInOrder

\* Taking the oldest write keeps the order.
LEMMA TailInOrder ==
  ASSUME NEW h \in Held, WritesInOrder(h), h.writes # <<>>,
         h.phase \notin {"starting", "closing"},
         NEW g \in Held, g.writes = Tail(h.writes), g.rcpt = h.rcpt,
         g.phase \in {h.phase, "draining"}
  PROVE  WritesInOrder(g)
  <1>1. h.writes \in Seq(Write)
    BY DEF Held
  <1>2. /\ Len(h.writes) \in Nat \ {0}
        /\ Tail(h.writes) \in Seq(Write)
        /\ Len(g.writes) = Len(h.writes) - 1
        /\ \A i \in 1..Len(g.writes) : g.writes[i] = h.writes[i + 1]
    BY <1>1, EmptySeq, HeadTailProperties
  <1>3. g.writes # <<>> => Len(g.writes) \in Nat \ {0}
    BY <1>2, EmptySeq
  <1>4. g.writes # <<>> => g.writes[Len(g.writes)].rcpt = g.rcpt
    BY <1>2, <1>3, h.writes # <<>> DEF WritesInOrder
  <1>5. \A i \in 1..Len(g.writes) :
          /\ i # Len(g.writes) \/ g.writes[i].by # "run"
               => ~IsTerminal(g.writes[i].rcpt) /\ ~g.writes[i].rcpt.confirmed
          /\ ~Started(g.writes[i].rcpt)
    BY <1>2 DEF WritesInOrder
  <1> QED
    BY <1>4, <1>5 DEF WritesInOrder

\* A write is queued behind others only while no outcome is known.
LEMMA AppendInOrder ==
  ASSUME NEW h \in Held, WritesInOrder(h), ~IsTerminal(h.rcpt), ~h.rcpt.confirmed,
         h.phase # "starting",
         NEW r \in Receipt, ~Started(r), NEW who \in {"run", "cancel", "retire"},
         who # "run" => ~IsTerminal(r) /\ ~r.confirmed,
         NEW g \in Held, g.writes = Append(h.writes, [rcpt |-> r, by |-> who]), g.rcpt = r,
         \/ g.phase = "settling"
         \/ g.phase = "executing" /\ ~IsTerminal(r) /\ ~r.confirmed
  PROVE  WritesInOrder(g)
  <1>1. h.writes \in Seq(Write) /\ [rcpt |-> r, by |-> who] \in Write
    BY DEF Held, Write
  <1>2. /\ Len(g.writes) = Len(h.writes) + 1 /\ Len(h.writes) \in Nat
        /\ g.writes[Len(h.writes) + 1] = [rcpt |-> r, by |-> who]
        /\ \A i \in 1..Len(h.writes) : g.writes[i] = h.writes[i]
    BY <1>1, AppendProperties, LenProperties
  <1>3. \A i \in 1..Len(h.writes) : /\ ~IsTerminal(h.writes[i].rcpt)
                                    /\ ~h.writes[i].rcpt.confirmed
                                    /\ ~Started(h.writes[i].rcpt)
    <2>1. h.writes # <<>> \/ Len(h.writes) = 0
      BY <1>1, EmptySeq
    <2> QED
      BY <1>2, <2>1 DEF WritesInOrder
  <1>4. \A i \in 1..Len(g.writes) :
          /\ i # Len(g.writes) \/ g.writes[i].by # "run"
               => ~IsTerminal(g.writes[i].rcpt) /\ ~g.writes[i].rcpt.confirmed
          /\ ~Started(g.writes[i].rcpt)
    <2> SUFFICES ASSUME NEW i \in 1..Len(g.writes)
                 PROVE  /\ i # Len(g.writes) \/ g.writes[i].by # "run"
                             => ~IsTerminal(g.writes[i].rcpt) /\ ~g.writes[i].rcpt.confirmed
                        /\ ~Started(g.writes[i].rcpt)
      OBVIOUS
    <2>1. CASE i \in 1..Len(h.writes)
      BY <1>2, <1>3, <2>1
    <2>2. CASE i = Len(h.writes) + 1
      BY <1>2, <2>2
    <2> QED
      BY <1>2, <2>1, <2>2
  <1> QED
    BY <1>2, <1>4 DEF WritesInOrder

\* The first queued write: the fence's, or the outcome of a refused start.
LEMMA SingleInOrder ==
  ASSUME NEW r, NEW g, g.writes = <<[rcpt |-> r, by |-> "run"]>>, g.rcpt = r,
         \/ g.phase = "starting" /\ r.state = "running" /\ ~r.confirmed
         \/ g.phase \in {"closing", "settling"} /\ ~Started(r)
  PROVE  WritesInOrder(g)
  <1>1. Len(g.writes) = 1 /\ g.writes[1] = [rcpt |-> r, by |-> "run"]
    OBVIOUS
  <1> QED
    BY <1>1 DEF WritesInOrder, IsTerminal, Terminal

\* With nothing queued and no effect at hand there is no order to keep.
LEMMA EmptyInOrder ==
  ASSUME NEW g, g.writes = <<>>, g.phase \notin {"starting", "closing", "executing"}
  PROVE  WritesInOrder(g)
  <1>1. Len(g.writes) = 0
    OBVIOUS
  <1> QED
    BY <1>1 DEF WritesInOrder

-----------------------------------------------------------------------------
(* Receipt, memory and effect of one key *)

\* A step that leaves a key's command, receipt and effect alone keeps its invariant.
LEMMA ReceiptFrame ==
  ASSUME NEW j \in Key, ReceiptInv(j), held'[j] = held[j], disk'[j] = disk[j],
         j \in live' => j \in live,
         j \in live /\ held[j].phase = "executing" => j \in live',
         link' = "up" => link = "up"
  PROVE  ReceiptInv(j)'
  BY DEF ReceiptInv, ConfirmedIsOutcome, IsTerminal, WritesInOrder, FileOfPhase, EffectOfPhase,
         Unfinished, Started

\* A command that leaves memory before anything was written for it leaves no trace.
LEMMA ReceiptIdle ==
  ASSUME NEW j \in Key, held'[j] = Idle, disk'[j] = disk[j], j \in live' => j \in live,
         ReceiptInv(j), link' = "up" => ~Started(disk[j])
  PROVE  ReceiptInv(j)'
  <1>1. /\ held'[j].phase = "idle" /\ held'[j].writes = <<>> /\ ~held'[j].rcpt.confirmed
    BY DEF Idle, NoReceipt
  <1>2. WritesInOrder(held[j])'
    BY <1>1, EmptyInOrder DEF WritesInOrder, IsTerminal, Started
  <1> QED
    BY <1>1, <1>2 DEF ReceiptInv, ConfirmedIsOutcome, IsTerminal, FileOfPhase, EffectOfPhase,
                      Unfinished, Started

\* A step of one command concerns its own key; admission also prunes settled receipts.
LEMMA OneKey ==
  ASSUME TypeOK, NEW k \in Key,
         \/ Progress(k) /\ ~RecoverInterrupted(k) /\ ~LeftoverLands(k)
         \/ Effect(k),
         NEW j \in Key, j # k
  PROVE  /\ held'[j] = held[j] /\ link' = link
         /\ j \in live' <=> j \in live
         /\ \/ disk'[j] = disk[j]
            \/ PruneSettled(k) /\ j \in Prunable /\ disk'[j] = NoReceipt
  <1>t. held \in [Key -> Held] /\ disk \in [Key -> Receipt]
    BY DEF TypeOK
  <1>1. CASE Dequeue(k) \/ ReadStored(k) \/ WriteAdmission(k) \/ IndexAdmission(k) \/ Fence(k)
    BY <1>1, <1>t DEF Dequeue, ReadStored, WriteAdmission, IndexAdmission, Fence, Persist,
                      Refuse, Fail, socket, effects, former
  <1>2. CASE CheckAdmission(k) \/ PruneSettled(k)
    BY <1>2, <1>t DEF CheckAdmission, PruneSettled, Refuse, effects, former
  <1>3. CASE StartEffect(k)
    BY <1>3, <1>t DEF StartEffect, WriteLands, socket, effects, former
  <1>4. CASE CloseCommand(k) \/ AcknowledgeCancel(k) \/ RetireAbort(k)
    BY <1>4, <1>t DEF CloseCommand, AcknowledgeCancel, RetireAbort, WriteLands, socket, effects, former
  <1>5. CASE RecordCancel(k) \/ RetireCancel(k)
    BY <1>5, <1>t DEF RecordCancel, RetireCancel, socket, effects, former
  <1>6. CASE Effect(k)
    BY <1>6, <1>t DEF Effect, EffectEnds, OrphanEnds, Persist, socket
  <1> QED
    BY <1>1, <1>2, <1>3, <1>4, <1>5, <1>6 DEF Progress

\* The steps of one command keep the receipt invariant of every other one: only a
\* settled receipt whose effect is over is pruned.
LEMMA OtherReceipts ==
  ASSUME TypeOK, NEW k \in Key,
         \/ Progress(k) /\ ~RecoverInterrupted(k) /\ ~LeftoverLands(k)
         \/ Effect(k),
         NEW j \in Key, j # k, ReceiptInv(j)
  PROVE  ReceiptInv(j)'
  <1>1. /\ held'[j] = held[j] /\ link' = link
        /\ j \in live' <=> j \in live
        /\ \/ disk'[j] = disk[j]
           \/ PruneSettled(k) /\ j \in Prunable /\ disk'[j] = NoReceipt
    BY OneKey
  <1>2. CASE disk'[j] = disk[j]
    BY <1>1, <1>2, ReceiptFrame
  <1>3. CASE j \in Prunable /\ disk'[j] = NoReceipt
    <2>1. /\ held[j].phase \in {"idle", "queued", "draining"}
          /\ disk[j].confirmed /\ IsTerminal(disk[j])
      BY <1>3 DEF Prunable, Active
    <2>2. held[j].phase # "draining" /\ j \notin live
      BY <2>1 DEF ReceiptInv, ConfirmedIsOutcome, IsTerminal, FileOfPhase, EffectOfPhase,
                  Unfinished
    <2>3. ~Started(disk'[j])
      BY <1>3 DEF NoReceipt, Started
    <2> QED
      BY <1>1, <2>1, <2>2, <2>3
         DEF ReceiptInv, ConfirmedIsOutcome, IsTerminal, WritesInOrder, FileOfPhase,
             EffectOfPhase, Started
  <1> QED
    BY <1>1, <1>2, <1>3

\* The gateway's requests and the passing of grants and deadlines keep it.
LEMMA RequestReceipts ==
  ASSUME TypeOK, NEW e \in Envelope, Request(e) \/ GrantExpires(e) \/ Expire(e),
         NEW j \in Key, ReceiptInv(j), BeforeFence(j)
  PROVE  ReceiptInv(j)'
  <1> DEFINE k == KeyOf[e]
  <1>k. k \in Key
    BY LinkAssumption
  <1>1. disk' = disk /\ live' = live /\ link' = link
    BY DEF Request, Bind, Release, Submit, Backpressure, Query, Cancel, GrantExpires, Expire,
           socket, effects, former
  <1>2. CASE held'[j] = held[j]
    BY <1>1, <1>2, ReceiptFrame
  <1>3. CASE held'[j] # held[j]
    <2>h. held \in [Key -> Held]
      BY DEF TypeOK
    <2>1. \/ /\ held[k].phase = "idle"
             /\ held' = [held EXCEPT ![k].phase = "queued", ![k].cmd = e]
          \/ /\ held[k].phase \notin {"idle", "draining"} /\ held[k].cmd = e
             /\ held' = [held EXCEPT ![k].cancelRequested = TRUE, ![k].waiting = TRUE,
                           ![k].phase = IF @ = "queued" THEN "reading" ELSE @]
      BY <1>3 DEF Request, Bind, Release, Submit, Backpressure, Query, Cancel, GrantExpires,
                  Expire, InPhase
    <2>2. j = k
      BY <1>3, <2>1, <2>h
    <2>3. /\ held'[j].writes = held[j].writes /\ held'[j].rcpt = held[j].rcpt
          /\ \/ held[j].phase = "idle" /\ held'[j].phase = "queued"
             \/ held[j].phase = "queued" /\ held'[j].phase = "reading"
             \/ held[j].phase \notin {"idle", "draining"} /\ held'[j].phase = held[j].phase
      BY <2>1, <2>2, <2>h, <1>k DEF Held
    <2>4. WritesInOrder(held[j])'
      BY <2>3 DEF ReceiptInv, ConfirmedIsOutcome, IsTerminal, WritesInOrder, Started
    <2> QED
      BY <1>1, <2>3, <2>4 DEF ReceiptInv, ConfirmedIsOutcome, IsTerminal, FileOfPhase,
                              EffectOfPhase, Unfinished, Started
  <1> QED
    BY <1>2, <1>3

\* Leaving the queue, reading the stored receipt, the admission check, the exclusive
\* create and the indexing of the receipt keep it.
LEMMA AdmissionReceipts ==
  ASSUME TypeOK, NEW k \in Key, ReceiptInv(k), KeyInv(k),
         \/ Dequeue(k) \/ ReadStored(k) \/ CheckAdmission(k) \/ PruneSettled(k)
         \/ WriteAdmission(k) \/ IndexAdmission(k)
  PROVE  ReceiptInv(k)'
  <1>t. held \in [Key -> Held] /\ disk \in [Key -> Receipt] /\ held[k] \in Held
    BY DEF TypeOK
  <1>0. link' = link /\ live' = live
    BY DEF Dequeue, ReadStored, CheckAdmission, PruneSettled, WriteAdmission, IndexAdmission,
           socket, effects
  <1>p. ASSUME NEW p \in Phase, held' = [held EXCEPT ![k].phase = p]
        PROVE  /\ held'[k].phase = p /\ held'[k].rcpt = held[k].rcpt
               /\ held'[k].writes = held[k].writes
    BY <1>p, <1>t DEF Held
  <1>1. CASE Dequeue(k)
    <2>1. disk' = disk /\ held[k].phase = "queued"
      BY <1>1 DEF Dequeue, InPhase
    <2>2. CASE held' = [held EXCEPT ![k] = Idle]
      <3>1. held'[k] = Idle
        BY <2>2, <1>t
      <3> QED
        BY <1>0, <2>1, <3>1, ReceiptIdle DEF ReceiptInv, ConfirmedIsOutcome, IsTerminal,
                                             FileOfPhase
    <2>3. CASE held' = [held EXCEPT ![k].phase = "reading"]
      <3>1. /\ held'[k].phase = "reading" /\ held'[k].rcpt = held[k].rcpt
            /\ held'[k].writes = held[k].writes
        BY <1>p, <2>3 DEF Phase
      <3> QED
        BY <1>0, <2>1, <3>1 DEF ReceiptInv, ConfirmedIsOutcome, IsTerminal, WritesInOrder,
                                FileOfPhase, EffectOfPhase, Started
    <2> QED
      BY <1>1, <2>2, <2>3 DEF Dequeue, Refuse, Fail
  <1>2. CASE ReadStored(k)
    <2>1. disk' = disk /\ held[k].phase = "reading"
      BY <1>2 DEF ReadStored, InPhase
    <2>2. CASE held' = [held EXCEPT ![k] = Idle]
      <3>1. held'[k] = Idle
        BY <2>2, <1>t
      <3> QED
        BY <1>0, <2>1, <3>1, ReceiptIdle DEF ReceiptInv, ConfirmedIsOutcome, IsTerminal,
                                             FileOfPhase
    <2>3. CASE held' = [held EXCEPT ![k].phase = "checking"] /\ disk[k].state = "none"
      <3>1. /\ held'[k].phase = "checking" /\ held'[k].rcpt = held[k].rcpt
            /\ held'[k].writes = held[k].writes
        BY <1>p, <2>3 DEF Phase
      <3> QED
        BY <1>0, <2>1, <2>3, <3>1 DEF ReceiptInv, ConfirmedIsOutcome, IsTerminal, WritesInOrder,
                                      FileOfPhase, EffectOfPhase, Started
    <2> QED
      BY <1>2, <2>2, <2>3 DEF ReadStored, Fail
  <1>3. CASE CheckAdmission(k) \/ PruneSettled(k)
    <2>1. held[k].phase \in {"checking", "pruning"} /\ disk[k].state = "none"
      BY <1>3 DEF CheckAdmission, PruneSettled, InPhase, KeyInv, BeforeFence
    <2>2. disk'[k] = disk[k]
      BY <1>3, <1>t, <2>1 DEF CheckAdmission, PruneSettled, Prunable, Active
    <2>3. CASE held' = [held EXCEPT ![k] = Idle]
      <3>1. held'[k] = Idle
        BY <2>3, <1>t
      <3> QED
        BY <1>0, <2>1, <2>2, <3>1, ReceiptIdle DEF Started
    <2>4. ASSUME NEW q \in {"pruning", "admitting"}, held' = [held EXCEPT ![k].phase = q]
          PROVE  ReceiptInv(k)'
      <3>1. /\ held'[k].phase = q /\ held'[k].rcpt = held[k].rcpt
            /\ held'[k].writes = held[k].writes
        BY <1>p, <2>4 DEF Phase
      <3> QED
        BY <1>0, <2>1, <2>2, <3>1 DEF ReceiptInv, ConfirmedIsOutcome, IsTerminal, WritesInOrder,
                                      FileOfPhase, EffectOfPhase, Started
    <2> QED
      BY <1>3, <2>3, <2>4 DEF CheckAdmission, PruneSettled, Refuse
  <1>4. CASE WriteAdmission(k)
    <2>1. /\ held[k].phase = "admitting" /\ held[k].writes = <<>>
          /\ disk'[k] = Rcpt(held[k].cmd, "admitted", FALSE)
          /\ held'[k].phase = "indexing" /\ held'[k].writes = held[k].writes
          /\ held'[k].rcpt = Rcpt(held[k].cmd, "admitted", FALSE)
      BY <1>4, <1>t DEF WriteAdmission, InPhase, KeyInv, BeforeFence, Held
    <2>2. WritesInOrder(held[k])'
      BY <2>1, EmptyInOrder
    <2> QED
      BY <1>0, <2>1, <2>2 DEF ReceiptInv, ConfirmedIsOutcome, IsTerminal, FileOfPhase,
                              EffectOfPhase, Rcpt
  <1>5. CASE IndexAdmission(k)
    <2>1. /\ held[k].phase = "indexing" /\ disk' = disk
          /\ held'[k].phase = "fencing" /\ held'[k].writes = held[k].writes
          /\ held'[k].rcpt = held[k].rcpt
      BY <1>5, <1>t DEF IndexAdmission, InPhase, Held
    <2> QED
      BY <1>0, <2>1 DEF ReceiptInv, ConfirmedIsOutcome, IsTerminal, WritesInOrder, FileOfPhase,
                        EffectOfPhase, Started
  <1> QED
    BY <1>1, <1>2, <1>3, <1>4, <1>5

\* The fence queues the first write: "running", or the outcome that ends the command here.
LEMMA FenceReceipts ==
  ASSUME TypeOK, NEW k \in Key, ReceiptInv(k), KeyInv(k), Fence(k)
  PROVE  ReceiptInv(k)'
  <1>t. held \in [Key -> Held] /\ held[k] \in Held
    BY DEF TypeOK
  <1>0. link' = link /\ live' = live /\ disk' = disk
    BY DEF Fence, socket, effects, former
  <1>1. held[k].phase = "fencing" /\ held[k].writes = <<>>
    BY DEF Fence, InPhase, KeyInv, BeforeFence
  <1>2. PICK s \in {"running", "cancelled", "failed"}, c \in BOOLEAN, p \in {"starting", "closing"} :
          /\ Persist(k, Rcpt(held[k].cmd, s, c), "run", p)
          /\ p = "starting" => s = "running" /\ c = FALSE
          /\ p = "closing" => s # "running"
    BY DEF Fence
  <1>3. PICK r : r = Rcpt(held[k].cmd, s, c)
    OBVIOUS
  <1>4. /\ held'[k].phase = p /\ held'[k].rcpt = r
        /\ held'[k].writes = <<[rcpt |-> r, by |-> "run"]>>
    BY <1>1, <1>2, <1>3, <1>t DEF Persist, Held
  <1>5. r.state = s /\ r.confirmed = c
    BY <1>3 DEF Rcpt
  <1>6. WritesInOrder(held[k])'
    <2>1. WritesInOrder(held'[k])
      BY <1>2, <1>4, <1>5, SingleInOrder DEF Started
    <2> QED
      BY <2>1 DEF WritesInOrder, IsTerminal, Started
  <1>7. ConfirmedIsOutcome(held[k])'
    BY <1>2, <1>4, <1>5 DEF ConfirmedIsOutcome, IsTerminal, Terminal
  <1> QED
    BY <1>0, <1>1, <1>4, <1>6, <1>7 DEF ReceiptInv, FileOfPhase, EffectOfPhase

\* The effect starts with "running" in its file and nothing queued behind it.
LEMMA StartReceipts ==
  ASSUME TypeOK, NEW k \in Key, ReceiptInv(k), KeyInv(k), StartEffect(k)
  PROVE  ReceiptInv(k)' /\ Unfinished(disk'[k])
  <1>t. held \in [Key -> Held] /\ disk \in [Key -> Receipt] /\ held[k] \in Held
    BY DEF TypeOK
  <1>0. /\ link' = link /\ held[k].phase = "starting" /\ held[k].writes # <<>>
        /\ disk'[k] = Head(held[k].writes).rcpt
    BY <1>t DEF StartEffect, WriteBy, WriteLands, InPhase, socket
  <1>1. Tail(held[k].writes) = <<>> /\ Head(held[k].writes).rcpt = held[k].rcpt
    BY <1>0, <1>t, HeadInOrder DEF ReceiptInv
  <1>2. disk'[k].state = "running" /\ ~disk'[k].confirmed /\ ~held[k].rcpt.confirmed
    BY <1>0, <1>1 DEF ReceiptInv, ConfirmedIsOutcome, IsTerminal, WritesInOrder
  <1>3. Unfinished(disk'[k])
    BY <1>2 DEF Unfinished, IsTerminal, Terminal
  <1>4. CASE /\ live' = live \cup {k}
             /\ held' = [held EXCEPT ![k].phase = "executing", ![k].writes = Tail(@)]
    <2>1. /\ held'[k].phase = "executing" /\ held'[k].rcpt = held[k].rcpt
          /\ held'[k].writes = <<>>
      BY <1>1, <1>4, <1>t DEF Held
    <2>2. Len(held'[k].writes) = 0
      BY <2>1
    <2>3. WritesInOrder(held[k])'
      BY <1>0, <2>1, <2>2 DEF ReceiptInv, ConfirmedIsOutcome, IsTerminal, WritesInOrder
    <2> QED
      BY <1>0, <1>2, <1>3, <1>4, <2>1, <2>3 DEF ReceiptInv, ConfirmedIsOutcome, IsTerminal,
                                                FileOfPhase, EffectOfPhase
  <1>5. ASSUME NEW f, f = Rcpt(held[k].cmd, "failed", TRUE),
               held' = [held EXCEPT ![k].phase = "settling", ![k].rcpt = f,
                           ![k].writes = Append(Tail(@), [rcpt |-> f, by |-> "run"])],
               UNCHANGED <<starts, live>>
        PROVE  ReceiptInv(k)'
    <2>0. /\ held'[k].phase = "settling" /\ held'[k].rcpt = f
          /\ held'[k].writes = Append(Tail(held[k].writes), [rcpt |-> f, by |-> "run"])
      BY <1>5, <1>t DEF Held
    <2>1. /\ held'[k].phase = "settling" /\ held'[k].rcpt = f
          /\ held'[k].writes = <<[rcpt |-> f, by |-> "run"]>>
      <3>1. Append(<<>>, [rcpt |-> f, by |-> "run"]) = <<[rcpt |-> f, by |-> "run"]>>
        OBVIOUS
      <3> QED
        BY <1>1, <2>0, <3>1
    <2>2. ~Started(f) /\ IsTerminal(f)
      BY <1>5 DEF Rcpt, Started, IsTerminal, Terminal
    <2>3. WritesInOrder(held'[k])
      BY <2>1, <2>2, SingleInOrder
    <2>4. WritesInOrder(held[k])'
      BY <2>3 DEF WritesInOrder, IsTerminal, Started
    <2>5. k \notin live' /\ live' = live
      BY <1>0, <1>5 DEF ReceiptInv, EffectOfPhase, effects, former
    <2>6. ConfirmedIsOutcome(held[k])'
      BY <2>1, <2>2 DEF ConfirmedIsOutcome, IsTerminal
    <2> QED
      BY <1>0, <1>2, <1>3, <2>1, <2>4, <2>5, <2>6 DEF ReceiptInv, FileOfPhase, EffectOfPhase
  <1> QED
    BY <1>3, <1>4, <1>5 DEF StartEffect

\* The executor's return and a recorded cancellation queue one more write; a confirmed
\* outcome is written only of an effect that has ended.
LEMMA RecordReceipts ==
  ASSUME TypeOK, NEW k \in Key, ReceiptInv(k), KeyInv(k),
         \/ Effect(k) \/ RecordCancel(k) \/ RetireCancel(k)
  PROVE  ReceiptInv(k)' /\ disk' = disk /\ link' = link
  <1>t. held \in [Key -> Held] /\ held[k] \in Held /\ held[k].rcpt \in Receipt
    BY DEF TypeOK, Held
  <1>0. link' = link /\ disk' = disk
    BY DEF Effect, EffectEnds, OrphanEnds, RecordCancel, RetireCancel, socket
  <1>1. CASE OrphanEnds(k)
    BY <1>0, <1>1, ReceiptFrame DEF OrphanEnds, InPhase
  <1>2. ASSUME NEW r \in Receipt, ~Started(r), r.confirmed => IsTerminal(r),
               NEW who \in {"run", "cancel", "retire"},
               who # "run" => ~IsTerminal(r) /\ ~r.confirmed,
               held[k].phase \in {"executing", "settling"},
               ~IsTerminal(held[k].rcpt), ~held[k].rcpt.confirmed,
               NEW g \in Held, held' = [held EXCEPT ![k] = g],
               g.writes = Append(held[k].writes, [rcpt |-> r, by |-> who]), g.rcpt = r,
               \/ g.phase = "settling"
               \/ g.phase = "executing" /\ ~IsTerminal(r) /\ ~r.confirmed,
               g.phase = "executing" => k \in live',
               k \in live' => k \in live /\ ~r.confirmed
        PROVE  ReceiptInv(k)'
    <2>1. held'[k] = g
      BY <1>2, <1>t
    <2>2. WritesInOrder(g)
      BY <1>2, <1>t, AppendInOrder DEF ReceiptInv
    <2>3. WritesInOrder(held[k])'
      BY <2>1, <2>2 DEF WritesInOrder, IsTerminal, Started
    <2> QED
      BY <1>0, <1>2, <2>1, <2>3 DEF ReceiptInv, ConfirmedIsOutcome, IsTerminal, FileOfPhase,
                                    EffectOfPhase, Unfinished, Started
  <1>3. ASSUME NEW o \in {"completed", "unknown"}, EffectEnds(k, o)
        PROVE  ReceiptInv(k)'
    <2>1. PICK s \in {"unknown", "cancelled", "completed", "failed"} :
            /\ Persist(k, Rcpt(held[k].cmd, s, s # "unknown"), "run", "settling")
            /\ s # "unknown" => o # "unknown"
      BY <1>3 DEF EffectEnds
    <2>2. PICK r : r = Rcpt(held[k].cmd, s, s # "unknown")
      OBVIOUS
    <2>3. held[k].phase = "executing" /\ held[k].cmd \in Envelope /\ k \in live
      BY <1>3 DEF EffectEnds, InPhase, KeyInv, HeldByKey, ReceiptInv, EffectOfPhase
    <2>4. /\ r \in Receipt /\ ~Started(r) /\ r.confirmed = (s # "unknown")
          /\ r.confirmed => IsTerminal(r)
      BY <2>2, <2>3, ReceiptTypes DEF Rcpt, ReceiptState, IsTerminal, Terminal, Started
    <2>5. ~IsTerminal(held[k].rcpt) /\ ~held[k].rcpt.confirmed
      BY <2>3 DEF ReceiptInv, ConfirmedIsOutcome, IsTerminal, WritesInOrder
    <2>6. k \in live' => k \in live /\ ~r.confirmed
      BY <1>3, <2>1, <2>3, <2>4 DEF EffectEnds
    <2>7. PICK g : g = [held[k] EXCEPT !.rcpt = r, !.phase = "settling",
                          !.writes = Append(@, [rcpt |-> r, by |-> "run"])]
      OBVIOUS
    <2>8. Append(held[k].writes, [rcpt |-> r, by |-> "run"]) \in Seq(Write)
      BY <1>t, <2>4, WriteTypes DEF Held
    <2>9. /\ g \in Held /\ g.rcpt = r /\ g.phase = "settling"
          /\ g.writes = Append(held[k].writes, [rcpt |-> r, by |-> "run"])
      BY <1>t, <2>4, <2>7, <2>8 DEF Held, Phase
    <2>10. held' = [held EXCEPT ![k] = g]
      BY <2>1, <2>2, <2>7 DEF Persist
    <2> QED
      BY <1>2, <2>3, <2>4, <2>5, <2>6, <2>9, <2>10
  <1>4. CASE RecordCancel(k) \/ RetireCancel(k)
    <2>1. /\ held[k].phase \in {"executing", "settling"} /\ ~IsTerminal(held[k].rcpt)
          /\ held[k].cmd \in Envelope /\ live' = live
      BY <1>4 DEF RecordCancel, RetireCancel, Admitted, KeyInv, HeldByKey, effects, former
    <2>2. PICK r : r = Rcpt(held[k].cmd, "cancel-requested", FALSE)
      OBVIOUS
    <2>3. r \in Receipt /\ ~Started(r) /\ ~IsTerminal(r) /\ ~r.confirmed
      BY <2>1, <2>2, ReceiptTypes DEF Rcpt, ReceiptState, Terminal, Started, IsTerminal
    <2>4. ~held[k].rcpt.confirmed
      BY <2>1 DEF ReceiptInv, ConfirmedIsOutcome
    <2>5. ASSUME NEW who \in {"cancel", "retire"}, NEW g, held' = [held EXCEPT ![k] = g],
                 \/ g = [held[k] EXCEPT !.rcpt = r, !.writes = Append(@, [rcpt |-> r, by |-> who])]
                 \/ g = [held[k] EXCEPT !.rcpt = r, !.waiting = FALSE,
                                         !.writes = Append(@, [rcpt |-> r, by |-> who])]
          PROVE  ReceiptInv(k)'
      <3>1. Append(held[k].writes, [rcpt |-> r, by |-> who]) \in Seq(Write)
        BY <1>t, <2>3, WriteTypes DEF Held
      <3>2. /\ g \in Held /\ g.rcpt = r /\ g.phase = held[k].phase
            /\ g.writes = Append(held[k].writes, [rcpt |-> r, by |-> who])
        BY <1>t, <2>3, <2>5, <3>1 DEF Held
      <3>3. g.phase = "executing" => k \in live'
        BY <2>1, <3>2 DEF ReceiptInv, EffectOfPhase
      <3> QED
        BY <1>2, <2>1, <2>3, <2>4, <2>5, <3>2, <3>3
    <2>6. CASE RecordCancel(k)
      <3>1. PICK g : g = [held[k] EXCEPT !.rcpt = r, !.waiting = FALSE,
                            !.writes = Append(@, [rcpt |-> r, by |-> "cancel"])]
        OBVIOUS
      <3>2. held' = [held EXCEPT ![k] = g]
        BY <2>2, <2>6, <3>1 DEF RecordCancel
      <3> QED
        BY <1>0, <2>5, <3>1, <3>2
    <2>7. CASE RetireCancel(k)
      <3>1. PICK g : g = [held[k] EXCEPT !.rcpt = r,
                            !.writes = Append(@, [rcpt |-> r, by |-> "retire"])]
        OBVIOUS
      <3>2. held' = [held EXCEPT ![k] = g]
        BY <2>2, <2>7, <3>1 DEF RetireCancel
      <3> QED
        BY <1>0, <2>5, <3>1, <3>2
    <2> QED
      BY <1>4, <2>6, <2>7
  <1> QED
    BY <1>0, <1>1, <1>3, <1>4 DEF Effect

\* What the oldest write puts into the file when it is not the fence's "running": never a
\* start, and an outcome only if nothing is queued behind it.
LEMMA LandedReceipt ==
  ASSUME TypeOK, NEW k \in Key, ReceiptInv(k), KeyInv(k),
         CloseCommand(k) \/ AcknowledgeCancel(k) \/ RetireAbort(k)
  PROVE  /\ held[k].phase \in {"executing", "settling", "closing", "draining"}
         /\ disk'[k] = Head(held[k].writes).rcpt
         /\ disk'[k].state # "none" /\ ~Started(disk'[k])
         /\ Tail(held[k].writes) = <<>> => disk'[k] = held[k].rcpt
         /\ Tail(held[k].writes) # <<>> \/ ~CloseCommand(k)
              => ~IsTerminal(disk'[k]) /\ ~disk'[k].confirmed
         /\ held[k].phase # "closing" \/ CloseCommand(k)
         /\ link' = link /\ live' = live
  <1>t. held \in [Key -> Held] /\ disk \in [Key -> Receipt] /\ held[k] \in Held
    BY DEF TypeOK
  <1>0. /\ held[k].writes # <<>> /\ disk'[k] = Head(held[k].writes).rcpt
        /\ link' = link /\ live' = live
    BY <1>t DEF CloseCommand, AcknowledgeCancel, RetireAbort, WriteBy, WriteLands, socket, effects, former
  <1>1. PICK w : w = Head(held[k].writes)
    OBVIOUS
  <1>2. CloseCommand(k) \/ w.by # "run"
    BY <1>1 DEF AcknowledgeCancel, RetireAbort, WriteBy
  <1>3. /\ Tail(held[k].writes) = <<>> => w.rcpt = held[k].rcpt
        /\ Tail(held[k].writes) # <<>> \/ w.by # "run" => ~IsTerminal(w.rcpt) /\ ~w.rcpt.confirmed
        /\ held[k].phase # "starting" => ~Started(w.rcpt)
        /\ held[k].phase \in {"starting", "closing"} => w.by = "run"
    BY <1>0, <1>1, <1>t, HeadInOrder DEF ReceiptInv
  <1>4. held[k].phase \in {"executing", "settling", "closing", "draining"}
    <2>1. held[k].phase \in {"starting", "executing", "settling", "closing", "draining"}
      BY <1>0, <1>t DEF KeyInv, BeforeFence, Held, Phase
    <2>2. CloseCommand(k) => held[k].phase # "starting"
      BY DEF CloseCommand
    <2> QED
      BY <1>2, <1>3, <2>1, <2>2
  <1>5. w.rcpt.state # "none"
    BY <1>0, <1>1, HeadByKey
  <1>6. ~CloseCommand(k) => w.by # "run"
    BY <1>2
  <1> QED
    BY <1>0, <1>1, <1>3, <1>4, <1>5, <1>6

\* Closing a command and acknowledging a cancellation keep the receipt invariant.
LEMMA AnswerReceipts ==
  ASSUME TypeOK, NEW k \in Key, ReceiptInv(k), KeyInv(k),
         CloseCommand(k) \/ AcknowledgeCancel(k) \/ RetireAbort(k)
  PROVE  /\ ReceiptInv(k)'
         /\ held'[k].phase \in {"idle", "draining", "executing", "settling"}
  <1>t. held \in [Key -> Held] /\ disk \in [Key -> Receipt] /\ held[k] \in Held
    BY DEF TypeOK
  <1>0. /\ held[k].writes # <<>> /\ Tail(held[k].writes) \in Seq(Write)
    BY <1>t, WriteTypes DEF CloseCommand, AcknowledgeCancel, RetireAbort, WriteBy, Held
  <1>1. /\ held[k].phase \in {"executing", "settling", "closing", "draining"}
        /\ disk'[k].state # "none" /\ ~Started(disk'[k])
        /\ Tail(held[k].writes) = <<>> => disk'[k] = held[k].rcpt
        /\ Tail(held[k].writes) # <<>> \/ ~CloseCommand(k)
             => ~IsTerminal(disk'[k]) /\ ~disk'[k].confirmed
        /\ held[k].phase # "closing" \/ CloseCommand(k)
        /\ link' = link /\ live' = live
    BY LandedReceipt
  <1>2. k \in live' => disk'[k].state # "none" /\ ~disk'[k].confirmed
    BY <1>1 DEF ReceiptInv, EffectOfPhase
  <1>3. CASE held' = [held EXCEPT ![k] = Idle] /\ held[k].phase \in {"settling", "closing", "draining"}
    <2>1. held'[k] = Idle
      BY <1>3, <1>t
    <2>2. /\ held'[k].phase = "idle" /\ held'[k].writes = <<>> /\ ~held'[k].rcpt.confirmed
      BY <2>1 DEF Idle, NoReceipt
    <2>3. WritesInOrder(held'[k])
      BY <2>2, EmptyInOrder
    <2>4. WritesInOrder(held[k])'
      BY <2>3 DEF WritesInOrder, IsTerminal, Started
    <2> QED
      BY <1>1, <1>2, <2>2, <2>4 DEF ReceiptInv, ConfirmedIsOutcome, IsTerminal, FileOfPhase,
                                    EffectOfPhase, Started
  <1>4. ASSUME NEW g \in Held, held' = [held EXCEPT ![k] = g],
               g.writes = Tail(held[k].writes), g.rcpt = held[k].rcpt,
               \/ g.phase = "draining"
               \/ g.phase = held[k].phase /\ held[k].phase # "closing",
               Tail(held[k].writes) # <<>> \/ ~CloseCommand(k)
        PROVE  ReceiptInv(k)' /\ held'[k].phase \in {"draining", "executing", "settling"}
    <2>1. held'[k] = g
      BY <1>4, <1>t
    <2>2. /\ ~IsTerminal(disk'[k]) /\ ~disk'[k].confirmed
      BY <1>1, <1>4
    <2>3. held[k].phase # "closing"
      BY <1>0, <1>1, <1>4, <1>t, HeadInOrder DEF ReceiptInv
    <2>4. WritesInOrder(g)
      BY <1>0, <1>1, <1>4, <1>t, <2>3, TailInOrder DEF ReceiptInv
    <2>5. WritesInOrder(held[k])'
      BY <2>1, <2>4 DEF WritesInOrder, IsTerminal, Started
    <2>6. g.phase = "executing" => k \in live'
      BY <1>1, <1>4 DEF ReceiptInv, EffectOfPhase
    <2>7. Unfinished(disk'[k])
      BY <1>1, <2>2 DEF Unfinished
    <2>8. EffectOfPhase(k)'
      BY <1>1, <1>2, <1>4, <2>1, <2>6 DEF ReceiptInv, EffectOfPhase
    <2>9. FileOfPhase(k)'
      BY <1>1, <1>4, <2>1, <2>3, <2>7 DEF FileOfPhase, Unfinished, Started, IsTerminal
    <2>10. ConfirmedIsOutcome(held[k])'
      BY <1>4, <2>1 DEF ReceiptInv, ConfirmedIsOutcome, IsTerminal
    <2> QED
      BY <1>1, <1>4, <2>1, <2>3, <2>5, <2>8, <2>9, <2>10 DEF ReceiptInv
  <1>5. CASE CloseCommand(k)
    <2>0. held[k].phase \in {"settling", "closing"}
      BY <1>5 DEF CloseCommand
    <2>1. CASE Tail(held[k].writes) = <<>>
      BY <1>3, <1>5, <2>0, <2>1 DEF CloseCommand, Idle
    <2>2. CASE Tail(held[k].writes) # <<>>
      <3>1. PICK g : g = [held[k] EXCEPT !.phase = "draining", !.writes = Tail(held[k].writes),
                                         !.waiting = FALSE]
        OBVIOUS
      <3>2. held' = [held EXCEPT ![k] = g]
        BY <1>5, <2>2, <3>1 DEF CloseCommand
      <3>3. /\ g \in Held /\ g.writes = Tail(held[k].writes) /\ g.rcpt = held[k].rcpt
            /\ g.phase = "draining"
        BY <1>0, <1>t, <3>1 DEF Held, Phase
      <3> QED
        BY <1>4, <2>2, <3>2, <3>3
    <2> QED
      BY <2>1, <2>2
  <1>6. CASE ~CloseCommand(k)
    <2>1. held' = [held EXCEPT ![k] = Signalled(k)]
      BY <1>6 DEF AcknowledgeCancel, RetireAbort
    <2>2. CASE InPhase(k, "draining") /\ Tail(held[k].writes) = <<>>
      BY <1>3, <2>1, <2>2 DEF Signalled, InPhase, Idle
    <2>3. CASE ~(InPhase(k, "draining") /\ Tail(held[k].writes) = <<>>)
      <3>1. PICK g : g = [held[k] EXCEPT !.aborted = TRUE, !.writes = Tail(held[k].writes)]
        OBVIOUS
      <3>2. held' = [held EXCEPT ![k] = g]
        BY <2>1, <2>3, <3>1 DEF Signalled
      <3>3. /\ g \in Held /\ g.writes = Tail(held[k].writes) /\ g.rcpt = held[k].rcpt
            /\ g.phase = held[k].phase
        BY <1>0, <1>t, <3>1 DEF Held
      <3> QED
        BY <1>1, <1>4, <1>6, <3>2, <3>3
    <2> QED
      BY <2>2, <2>3
  <1> QED
    BY <1>5, <1>6

\* A boot journal and a late cancellation rewrite the state of one receipt only.
LEMMA Rewritten ==
  ASSUME disk \in [Key -> Receipt], NEW k \in Key, NEW st,
         disk' = [disk EXCEPT ![k].state = st, ![k].confirmed = FALSE]
  PROVE  /\ disk'[k].state = st /\ disk'[k].cmd = disk[k].cmd /\ disk'[k].confirmed = FALSE
         /\ disk'[k] = Rcpt(disk[k].cmd, st, FALSE)
         /\ \A j \in Key : j # k => disk'[j] = disk[j]
  <1>1. disk[k] \in Receipt
    OBVIOUS
  <1> QED
    BY <1>1 DEF Receipt, Rcpt

\* The socket's and the daemon's steps keep it: whoever serves next finds no start in a
\* receipt file, because boot journalled them all.
LEMMA SocketReceipts ==
  ASSUME OutcomeInv,
         \/ Close \/ Retired \/ Connect \/ Ready \/ Crash
         \/ \E k \in Key : RecoverInterrupted(k) \/ LeftoverLands(k)
         \/ TakeReplies,
         NEW j \in Key
  PROVE  ReceiptInv(j)'
  <1>t. held \in [Key -> Held] /\ disk \in [Key -> Receipt]
    BY DEF OutcomeInv, Inv, TypeOK
  <1>r. ReceiptInv(j) /\ IndexInv(j) /\ FormerInv(j)
    BY DEF OutcomeInv
  <1>1. CASE Close \/ Connect \/ Crash
    <2>1. link' # "up" /\ disk' = disk /\ (j \in live' => j \in live)
      BY <1>1 DEF Close, Connect, Crash, effects, former
    <2>2. CASE held'[j] = Idle
      BY <1>r, <2>1, <2>2, ReceiptIdle
    <2>3. CASE held'[j] = held[j] /\ live' = live
      BY <1>r, <2>1, <2>3, ReceiptFrame
    <2> QED
      BY <1>1, <2>2, <2>3 DEF Close, Connect, Crash, effects, former
  <1>2. CASE Retired \/ TakeReplies
    <2>1. held' = held /\ disk' = disk /\ live' = live /\ (link' = "up" => link = "up")
      BY <1>2 DEF Retired, TakeReplies, effects, former, socket
    <2> QED
      BY <1>r, <2>1, ReceiptFrame
  <1>3. CASE Ready
    <2>1. held' = held /\ disk' = disk /\ live' = live /\ link = "recovering" /\ index = {}
      BY <1>3 DEF Ready, effects, former
    <2>2. held[j].phase = "idle" /\ (~Unfinished(disk[j]) \/ j \in overtaken)
      BY <1>r, <2>1 DEF OutcomeInv, Inv, NothingHeld, IndexInv, InPhase
    <2>3. ~Started(disk[j])
      BY <1>r, <2>2 DEF FormerInv, Unfinished, Started, IsTerminal, Terminal
    <2> QED
      BY <1>r, <2>1, <2>2, <2>3
         DEF ReceiptInv, ConfirmedIsOutcome, WritesInOrder, FileOfPhase, EffectOfPhase, Started,
             IsTerminal
  <1>4. ASSUME NEW k \in Key, RecoverInterrupted(k) PROVE ReceiptInv(j)'
    <2>1. /\ held' = held /\ live' = live /\ link' = link /\ link = "recovering"
          /\ held[j].phase = "idle" /\ disk[k].state # "none"
      BY <1>4 DEF RecoverInterrupted, effects, former, socket, OutcomeInv, Inv, NothingHeld,
                  RecoversRetained
    <2>2. \/ disk'[j] = disk[j]
          \/ disk'[j].state = "failed" /\ ~disk'[j].confirmed
      BY <1>4, <1>t, Rewritten DEF RecoverInterrupted
    <2> QED
      BY <1>r, <2>1, <2>2
         DEF ReceiptInv, ConfirmedIsOutcome, WritesInOrder, FileOfPhase, EffectOfPhase, Started,
             IsTerminal
  <1>5. ASSUME NEW k \in Key, LeftoverLands(k) PROVE ReceiptInv(j)'
    <2>1. held' = held /\ live' = live /\ link' = link /\ k \in leftover
      BY <1>5 DEF LeftoverLands, socket
    <2>2. CASE j # k
      <3>1. disk'[j] = disk[j]
        BY <1>5, <1>t, <2>2 DEF LeftoverLands
      <3> QED
        BY <1>r, <2>1, <3>1, ReceiptFrame
    <2>3. CASE j = k
      <3>1. disk'[j].state = "cancel-requested" /\ ~disk'[j].confirmed
        BY <1>5, <1>t, <2>3, Rewritten DEF LeftoverLands
      <3>2. held[j].phase \in {"idle", "queued", "reading"}
        BY <1>r, <2>1, <2>3 DEF FormerInv
      <3> QED
        BY <1>r, <2>1, <3>1, <3>2
           DEF ReceiptInv, ConfirmedIsOutcome, WritesInOrder, FileOfPhase, EffectOfPhase, Started,
               IsTerminal
    <2> QED
      BY <2>2, <2>3
  <1> QED
    BY <1>1, <1>2, <1>3, <1>4, <1>5

\* Every step keeps the receipt invariant of every key.
LEMMA ReceiptStep ==
  ASSUME OutcomeInv, [Step]_vars, NEW j \in Key
  PROVE  ReceiptInv(j)'
  <1>i. TypeOK /\ ReceiptInv(j) /\ KeyInv(j)
    BY DEF OutcomeInv, Inv
  <1>1. ASSUME NEW e \in Envelope, Request(e) \/ GrantExpires(e) \/ Expire(e)
        PROVE  ReceiptInv(j)'
    BY <1>1, <1>i, RequestReceipts DEF KeyInv
  <1>2. ASSUME NEW k \in Key, Progress(k), ~RecoverInterrupted(k), ~LeftoverLands(k)
        PROVE  ReceiptInv(j)'
    <2>1. CASE j # k
      BY <1>2, <1>i, <2>1, OtherReceipts
    <2>2. CASE j = k
      BY <1>2, <1>i, <2>2, AdmissionReceipts, FenceReceipts, StartReceipts, RecordReceipts,
         AnswerReceipts DEF Progress
    <2> QED
      BY <2>1, <2>2
  <1>3. ASSUME NEW k \in Key, Effect(k) PROVE ReceiptInv(j)'
    BY <1>3, <1>i, OtherReceipts, RecordReceipts
  <1>4. CASE UNCHANGED vars
    BY <1>4, <1>i, ReceiptFrame DEF vars, effects, former
  <1>5. CASE \/ Close \/ Retired \/ Connect \/ Ready \/ Crash
             \/ \E k \in Key : RecoverInterrupted(k) \/ LeftoverLands(k)
             \/ TakeReplies
    BY <1>5, SocketReceipts
  <1> QED
    BY <1>1, <1>2, <1>3, <1>4, <1>5 DEF Step

-----------------------------------------------------------------------------
(* The pending index *)

\* A landing write enters its key in the index unless it is an outcome.
LEMMA LandIndex ==
  ASSUME TypeOK, NEW k \in Key, WriteLands(k), NEW j \in Key, IndexInv(j),
         link' = link, overtaken' = overtaken, ~InPhase(k, "indexing"), j # k => held'[j] = held[j]
  PROVE  IndexInv(j)'
  <1>t. disk \in [Key -> Receipt]
    BY DEF TypeOK
  <1>1. CASE j = k
    BY <1>t, <1>1 DEF WriteLands, IndexInv, Unfinished, LeavesIndex, IsTerminal
  <1>2. CASE j # k
    BY <1>t, <1>2 DEF WriteLands, IndexInv, InPhase
  <1> QED
    BY <1>1, <1>2

\* Every step keeps unfinished receipts in the index of a serving or recovering agent.
LEMMA IndexStep ==
  ASSUME OutcomeInv, [Step]_vars, NEW j \in Key
  PROVE  IndexInv(j)'
  <1>t. held \in [Key -> Held] /\ disk \in [Key -> Receipt] /\ TypeOK /\ IndexInv(j)
    BY DEF OutcomeInv, Inv, TypeOK
  <1>1. ASSUME NEW e \in Envelope, Request(e) \/ GrantExpires(e) \/ Expire(e)
        PROVE  IndexInv(j)'
    <2>k. KeyOf[e] \in Key
      BY LinkAssumption
    <2>1. disk' = disk /\ index' = index /\ link' = link /\ overtaken' = overtaken
      BY <1>1 DEF Request, Bind, Release, Submit, Backpressure, Query, Cancel, GrantExpires,
                  Expire, socket, effects, former
    <2>2. \/ held' = held
          \/ /\ held[KeyOf[e]].phase = "idle"
             /\ held' = [held EXCEPT ![KeyOf[e]].phase = "queued", ![KeyOf[e]].cmd = e]
          \/ held' = [held EXCEPT ![KeyOf[e]].cancelRequested = TRUE, ![KeyOf[e]].waiting = TRUE,
                         ![KeyOf[e]].phase = IF @ = "queued" THEN "reading" ELSE @]
      BY <1>1 DEF Request, Bind, Release, Submit, Backpressure, Query, Cancel, GrantExpires,
                  Expire, InPhase
    <2>3. InPhase(j, "indexing") => held'[j].phase = "indexing"
      <3>1. CASE j # KeyOf[e]
        BY <1>t, <2>2, <3>1 DEF InPhase
      <3>2. CASE j = KeyOf[e] /\ held[j].phase = "indexing"
        <4>1. held[j] \in Held
          BY <1>t
        <4> QED
          BY <1>t, <2>2, <3>2, <4>1 DEF Held
      <3> QED
        BY <3>1, <3>2 DEF InPhase
    <2> QED
      BY <1>t, <2>1, <2>3 DEF IndexInv, InPhase
  <1>2. ASSUME NEW k \in Key, Dequeue(k) \/ ReadStored(k) \/ Fence(k) \/ RecordCancel(k)
                               \/ RetireCancel(k) \/ Effect(k)
        PROVE  IndexInv(j)'
    <2>1. disk' = disk /\ index' = index /\ link' = link /\ overtaken' = overtaken
      BY <1>2 DEF Dequeue, ReadStored, Fence, RecordCancel, RetireCancel, Effect,
                  EffectEnds, OrphanEnds, socket, effects, former
    <2>2. held'[j] = held[j] \/ ~InPhase(j, "indexing")
      <3>1. CASE j = k
        BY <1>2, <3>1 DEF Dequeue, ReadStored, Fence, RecordCancel, RetireCancel, Admitted, Effect,
                          EffectEnds, OrphanEnds, InPhase
      <3>2. CASE j # k
        BY <1>2, <1>t, <3>2 DEF Dequeue, ReadStored, Refuse, Fail, Fence, Persist, RecordCancel,
                                RetireCancel, Effect, EffectEnds, OrphanEnds
      <3> QED
        BY <3>1, <3>2
    <2> QED
      BY <1>t, <2>1, <2>2 DEF IndexInv, InPhase
  <1>3. ASSUME NEW k \in Key, CheckAdmission(k) \/ PruneSettled(k) PROVE IndexInv(j)'
    <2>1. /\ link' = link /\ overtaken' = overtaken /\ held[k].phase \in {"checking", "pruning"}
          /\ j # k => held'[j] = held[j]
      BY <1>3, <1>t DEF CheckAdmission, PruneSettled, Refuse, InPhase, effects, former
    <2>2. Unfinished(disk'[j]) => disk'[j] = disk[j] /\ (j \in index => j \in index')
      <3>1. CASE CheckAdmission(k)
        <4>1. \E met \in SUBSET {i \in Contenders(k) : Closed(i)} : index' = index \ met
          BY <3>1 DEF CheckAdmission
        <4> QED
          BY <3>1, <4>1 DEF CheckAdmission, Closed, Unfinished
      <3>2. CASE PruneSettled(k)
        BY <3>2 DEF PruneSettled, Prunable, Unfinished, NoReceipt
      <3> QED
        BY <1>3, <3>1, <3>2
    <2> QED
      BY <1>t, <2>1, <2>2 DEF IndexInv, InPhase
  <1>4. ASSUME NEW k \in Key, WriteAdmission(k) \/ IndexAdmission(k) PROVE IndexInv(j)'
    <2>1. link' = link /\ index \subseteq index' /\ overtaken' = overtaken
      BY <1>4 DEF WriteAdmission, IndexAdmission, socket, effects, former
    <2>2. CASE j # k
      <3>1. held'[j] = held[j] /\ disk'[j] = disk[j]
        BY <1>4, <1>t, <2>2 DEF WriteAdmission, IndexAdmission
      <3> QED
        BY <1>t, <2>1, <3>1 DEF IndexInv, InPhase
    <2>3. CASE j = k /\ WriteAdmission(k)
      BY <1>t, <2>3 DEF WriteAdmission, IndexInv, InPhase, Held
    <2>4. CASE j = k /\ IndexAdmission(k)
      BY <2>4 DEF IndexAdmission, IndexInv
    <2> QED
      BY <1>4, <2>2, <2>3, <2>4
  <1>5. ASSUME NEW k \in Key, \/ StartEffect(k) \/ CloseCommand(k)
                               \/ AcknowledgeCancel(k) \/ RetireAbort(k)
        PROVE  IndexInv(j)'
    <2>1. /\ WriteLands(k) /\ link' = link /\ held[k].writes # <<>>
          /\ overtaken' = overtaken
      BY <1>5 DEF StartEffect, CloseCommand, AcknowledgeCancel, RetireAbort, WriteBy, socket,
                  effects, former
    <2>2. ~InPhase(k, "indexing")
      BY <2>1 DEF OutcomeInv, Inv, KeyInv, BeforeFence, InPhase
    <2>3. j # k => held'[j] = held[j]
      BY <1>5, <1>t DEF StartEffect, CloseCommand, AcknowledgeCancel, RetireAbort
    <2> QED
      BY <1>t, <2>1, <2>2, <2>3, LandIndex
  <1>6. CASE Close \/ Retired \/ Crash
    BY <1>6 DEF Close, Retired, Crash, IndexInv
  <1>7. CASE Connect
    BY <1>7, <1>t DEF Connect, IndexInv, Retained, Unfinished, InPhase
  <1>8. CASE Ready \/ TakeReplies \/ UNCHANGED vars
    BY <1>8, <1>t DEF Ready, TakeReplies, vars, socket, effects, former, IndexInv, InPhase
  <1>9. ASSUME NEW k \in Key, RecoverInterrupted(k) PROVE IndexInv(j)'
    <2>1. /\ held' = held /\ link' = link /\ index' = index \ {k} /\ disk[k] \in Receipt
          /\ overtaken' = overtaken
      BY <1>9, <1>t DEF RecoverInterrupted, socket, effects, former
    <2>2. CASE j = k
      <3>1. disk'[k].state = "failed"
        BY <1>9, <1>t, <2>1 DEF RecoverInterrupted, Receipt
      <3> QED
        BY <2>2, <3>1 DEF IndexInv, Unfinished, IsTerminal, Terminal
    <2>3. CASE j # k
      <3>1. disk'[j] = disk[j]
        BY <1>9, <1>t, <2>3 DEF RecoverInterrupted
      <3> QED
        BY <1>t, <2>1, <2>3, <3>1 DEF IndexInv, InPhase
    <2> QED
      BY <2>2, <2>3
  <1>10. ASSUME NEW k \in Key, LeftoverLands(k) PROVE IndexInv(j)'
    <2>1. /\ held' = held /\ link' = link /\ index' = index
          /\ overtaken' = overtaken \cup ({k} \ index)
      BY <1>10 DEF LeftoverLands, socket
    <2>2. CASE j = k
      BY <2>1, <2>2 DEF IndexInv
    <2>3. CASE j # k
      <3>1. disk'[j] = disk[j]
        BY <1>10, <1>t, <2>3 DEF LeftoverLands
      <3> QED
        BY <1>t, <2>1, <2>3, <3>1 DEF IndexInv, InPhase
    <2> QED
      BY <2>2, <2>3
  <1> QED
    BY <1>1, <1>2, <1>3, <1>4, <1>5, <1>6, <1>7, <1>8, <1>9, <1>10 DEF Step, Progress

\* Every step keeps what is said of former agents' receipts: nobody holds a command that
\* writes them, and the next agent starts from what the last one left.
LEMMA FormerStep ==
  ASSUME OutcomeInv, [Step]_vars, NEW j \in Key
  PROVE  FormerInv(j)'
  <1>t. /\ held \in [Key -> Held] /\ disk \in [Key -> Receipt] /\ TypeOK
        /\ FormerInv(j) /\ ReceiptInv(j) /\ KeyInv(j)
    BY DEF OutcomeInv, Inv, TypeOK
  <1>1. ASSUME held'[j].phase \in {"idle", "queued", "reading"}
                 \/ j \notin leftover \cup overtaken,
               disk'[j] = disk[j] \/ j \notin leftover \cup overtaken,
               j \in index' => j \in index \/ j \notin overtaken,
               former' = former
        PROVE  FormerInv(j)'
    BY <1>t, <1>1 DEF FormerInv, former
  <1>2. ASSUME NEW k \in Key, Progress(k) \/ Effect(k), ~RecoverInterrupted(k), ~LeftoverLands(k)
        PROVE  FormerInv(j)'
    <2>1. former' = former
      BY <1>2 DEF Progress, Effect, Dequeue, ReadStored, CheckAdmission, PruneSettled,
                  WriteAdmission, IndexAdmission, Fence, StartEffect, CloseCommand, RecordCancel,
                  AcknowledgeCancel, RetireCancel, RetireAbort, EffectEnds, OrphanEnds, effects,
                  former
    <2>2. index' \subseteq index \cup {k}
      BY <1>2 DEF Progress, Effect, Dequeue, ReadStored, CheckAdmission, PruneSettled,
                  WriteAdmission, IndexAdmission, Fence, StartEffect, CloseCommand, RecordCancel,
                  AcknowledgeCancel, RetireCancel, RetireAbort, EffectEnds, OrphanEnds, WriteLands
    <2>3. CASE j # k
      <3>1. /\ held'[j] = held[j]
            /\ disk'[j] = disk[j] \/ j \in Prunable
        BY <1>2, <1>t, <2>3, OneKey
      <3>2. j \in Prunable => disk[j].confirmed
        BY DEF Prunable
      <3>3. j \in Prunable => j \notin leftover \cup overtaken
        BY <1>t, <3>2 DEF FormerInv
      <3>4. held'[j].phase \in {"idle", "queued", "reading"} \/ j \notin leftover \cup overtaken
        BY <1>t, <3>1 DEF FormerInv
      <3> QED
        BY <1>1, <2>1, <2>2, <2>3, <3>1, <3>3, <3>4
    <2>4. CASE j = k /\ j \in leftover \cup overtaken
      <3>1. /\ held[k].phase \in {"idle", "queued", "reading"} /\ disk[k].state # "none"
            /\ held[k].writes = <<>>
        BY <1>t, <2>4 DEF FormerInv, KeyInv, BeforeFence
      <3>2. ~WriteBy(k, "run") /\ ~WriteBy(k, "cancel") /\ ~WriteBy(k, "retire")
        BY <3>1 DEF WriteBy
      <3>3. Dequeue(k) \/ ReadStored(k) \/ OrphanEnds(k)
        BY <1>2, <3>1, <3>2
           DEF Progress, Effect, CheckAdmission, PruneSettled, WriteAdmission, IndexAdmission,
               Fence, StartEffect, CloseCommand, RecordCancel, AcknowledgeCancel, RetireCancel,
               RetireAbort, EffectEnds, InPhase, Admitted
      <3>4. disk' = disk /\ index' = index /\ held'[k].phase \in {"idle", "queued", "reading"}
        BY <1>t, <3>1, <3>3 DEF Dequeue, ReadStored, OrphanEnds, Refuse, Fail, Idle, Held
      <3> QED
        BY <1>1, <2>1, <2>4, <3>4
    <2>5. CASE j = k /\ j \notin leftover \cup overtaken
      BY <2>1, <2>5 DEF FormerInv, former
    <2> QED
      BY <2>3, <2>4, <2>5
  <1>3. ASSUME NEW e \in Envelope, Request(e) \/ GrantExpires(e) \/ Expire(e)
        PROVE  FormerInv(j)'
    <2>1. disk' = disk /\ index' = index /\ former' = former
      BY <1>3 DEF Request, Bind, Release, Submit, Backpressure, Query, Cancel, GrantExpires,
                  Expire, effects
    <2>2. \/ held' = held
          \/ /\ held[KeyOf[e]].phase = "idle"
             /\ held' = [held EXCEPT ![KeyOf[e]].phase = "queued", ![KeyOf[e]].cmd = e]
          \/ held' = [held EXCEPT ![KeyOf[e]].cancelRequested = TRUE, ![KeyOf[e]].waiting = TRUE,
                         ![KeyOf[e]].phase = IF @ = "queued" THEN "reading" ELSE @]
      BY <1>3 DEF Request, Bind, Release, Submit, Backpressure, Query, Cancel, GrantExpires,
                  Expire, InPhase
    <2>3. held[j].phase \in {"idle", "queued", "reading"} =>
            held'[j].phase \in {"idle", "queued", "reading"}
      <3>1. CASE j # KeyOf[e]
        BY <1>t, <2>2, <3>1
      <3>2. CASE j = KeyOf[e]
        <4>1. held[j] \in Held
          BY <1>t
        <4> QED
          BY <1>t, <2>2, <3>2, <4>1 DEF Held
      <3> QED
        BY <3>1, <3>2
    <2> QED
      BY <1>t, <2>1, <2>3 DEF FormerInv, former
  <1>4. CASE Close \/ Retired \/ Ready \/ TakeReplies \/ UNCHANGED vars
    <2>1. /\ disk' = disk /\ index' = index /\ former' = former
          /\ held'[j] = held[j] \/ held'[j] = Idle
      BY <1>4 DEF Close, Retired, Ready, TakeReplies, vars, effects, former
    <2> QED
      BY <1>t, <2>1 DEF FormerInv, former, Idle
  <1>5. CASE Connect
    <2>1. /\ disk' = disk /\ held'[j] = Idle /\ leftover' = Unwritten /\ overtaken' = {}
      BY <1>5 DEF Connect
    <2>2. j \in Unwritten => disk[j].state # "none" /\ ~disk[j].confirmed
      BY <1>t DEF Unwritten, InPhase, FormerInv, ReceiptInv, FileOfPhase, Unfinished
    <2> QED
      BY <2>1, <2>2 DEF FormerInv, Idle
  <1>6. CASE Crash
    BY <1>6 DEF Crash, FormerInv
  <1>7. ASSUME NEW k \in Key, RecoverInterrupted(k) PROVE FormerInv(j)'
    <2>1. /\ held' = held /\ former' = former /\ index' = index \ {k} /\ k \in index
          /\ disk' = [disk EXCEPT ![k].state = "failed", ![k].confirmed = FALSE]
      BY <1>7 DEF RecoverInterrupted, effects
    <2>2. /\ disk'[k].state = "failed" /\ ~disk'[k].confirmed
          /\ j # k => disk'[j] = disk[j]
      BY <1>t, <2>1, Rewritten
    <2> QED
      BY <1>t, <2>1, <2>2 DEF FormerInv, former
  <1>8. ASSUME NEW k \in Key, LeftoverLands(k) PROVE FormerInv(j)'
    <2>1. /\ held' = held /\ index' = index /\ k \in leftover /\ leftover' = leftover \ {k}
          /\ overtaken' = overtaken \cup ({k} \ index)
          /\ disk' = [disk EXCEPT ![k].state = "cancel-requested", ![k].confirmed = FALSE]
      BY <1>8 DEF LeftoverLands, socket
    <2>2. /\ disk'[k].state = "cancel-requested" /\ ~disk'[k].confirmed
          /\ j # k => disk'[j] = disk[j]
      BY <1>t, <2>1, Rewritten
    <2> QED
      BY <1>t, <2>1, <2>2 DEF FormerInv
  <1> QED
    BY <1>2, <1>3, <1>4, <1>5, <1>6, <1>7, <1>8 DEF Step


\* Boot only meets unfinished receipts in its index, and replies die with their socket.
LEMMA BootStep ==
  ASSUME OutcomeInv, [Step]_vars
  PROVE  RecoversUnfinished' /\ RepliesNeedSocket'
  <1>t. held \in [Key -> Held] /\ disk \in [Key -> Receipt] /\ index \subseteq Key
    BY DEF OutcomeInv, Inv, TypeOK
  <1>i. RecoversUnfinished /\ RepliesNeedSocket /\ NothingHeld
    BY DEF OutcomeInv, Inv
  <1>1. ASSUME NEW e \in Envelope, Request(e) \/ GrantExpires(e) \/ Expire(e)
        PROVE  RecoversUnfinished' /\ RepliesNeedSocket'
    <2>1. disk' = disk /\ index' = index /\ link' = link /\ (link = "up" \/ outbox' = outbox)
      BY <1>1 DEF Request, Bind, Release, Submit, Backpressure, Query, Cancel, GrantExpires,
                  Expire, socket, CloseoutAuthorized, Authorized
    <2> QED
      BY <1>i, <2>1 DEF RecoversUnfinished, RepliesNeedSocket
  <1>2. ASSUME NEW k \in Key, Progress(k), ~RecoverInterrupted(k), ~LeftoverLands(k)
        PROVE  RecoversUnfinished' /\ RepliesNeedSocket'
    <2>1. held[k].phase # "idle" /\ link' = link
      BY <1>2, ProgressHolds DEF OutcomeInv, Inv, KeyInv
    <2>2. link # "up" => outbox' = outbox
      BY <1>2 DEF Progress, Dequeue, ReadStored, CheckAdmission, PruneSettled, WriteAdmission,
                  IndexAdmission, Fence, StartEffect, CloseCommand, RecordCancel, AcknowledgeCancel, RetireCancel,
                  RetireAbort, Refuse, Fail, Answer, Send
    <2> QED
      BY <1>i, <2>1, <2>2 DEF NothingHeld, RecoversUnfinished, RepliesNeedSocket
  <1>3. ASSUME NEW k \in Key, Effect(k) PROVE RecoversUnfinished' /\ RepliesNeedSocket'
    BY <1>3, <1>i DEF Effect, EffectEnds, OrphanEnds, socket, RecoversUnfinished, RepliesNeedSocket
  <1>4. CASE Close \/ Retired \/ Ready \/ Crash
    BY <1>4, <1>i DEF Close, Retired, Ready, Crash, RecoversUnfinished, RepliesNeedSocket
  <1>5. CASE TakeReplies \/ UNCHANGED vars
    BY <1>5, <1>i DEF TakeReplies, vars, socket, RecoversUnfinished, RepliesNeedSocket
  <1>6. CASE Connect
    BY <1>6, <1>i DEF Connect, Retained, Unfinished, RecoversUnfinished, RepliesNeedSocket
  <1>7. ASSUME NEW k \in Key, RecoverInterrupted(k)
        PROVE  RecoversUnfinished' /\ RepliesNeedSocket'
    <2>1. \A i \in index' : i \in index /\ i # k /\ disk'[i] = disk[i]
      BY <1>7, <1>t DEF RecoverInterrupted
    <2> QED
      BY <1>7, <1>i, <2>1 DEF RecoverInterrupted, socket, RecoversUnfinished, RepliesNeedSocket
  <1>8. ASSUME NEW k \in Key, LeftoverLands(k)
        PROVE  RecoversUnfinished' /\ RepliesNeedSocket'
    <2>1. /\ disk'[k].state = "cancel-requested"
          /\ \A i \in Key : i # k => disk'[i] = disk[i]
      BY <1>8, <1>t, Rewritten DEF LeftoverLands
    <2>2. Unfinished(disk'[k])
      BY <2>1 DEF Unfinished, IsTerminal, Terminal
    <2> QED
      BY <1>8, <1>i, <1>t, <2>1, <2>2
         DEF LeftoverLands, socket, RecoversUnfinished, RepliesNeedSocket, Unfinished, IsTerminal
  <1> QED
    BY <1>1, <1>2, <1>3, <1>4, <1>5, <1>6, <1>7, <1>8 DEF Step

-----------------------------------------------------------------------------
(* Replies under way *)

\* A reply stays true while its key's file and effect are left alone, deadlines only pass
\* and the key is not set on its way.
LEMMA ToldFrame ==
  ASSUME NEW m, Told(m), disk'[m.key] = disk[m.key], expired \subseteq expired',
         m.key \in live' => m.key \in live,
         OnTheWay(m.key)' => OnTheWay(m.key),
         held[m.key].cancelRequested /\ disk[m.key].state = "admitted"
           => held'[m.key].cancelRequested
  PROVE  Told(m)'
  BY DEF Told, Binding, KeyExpired

\* It stays true when the file of its key holds no start and nobody is on the way.
LEMMA ToldSettled ==
  ASSUME NEW m, m.rcpt.confirmed => m.key \notin live',
         ~Started(disk'[m.key]), disk'[m.key].state # "none" \/ KeyExpired(m.key)',
         ~OnTheWay(m.key)'
  PROVE  Told(m)'
  BY DEF Told, Started

\* Requests and deadlines do not make a reply under way untrue.
LEMMA ToldRequest ==
  ASSUME OutcomeInv, NEW e \in Envelope, Request(e) \/ GrantExpires(e) \/ Expire(e),
         NEW m \in outbox
  PROVE  Told(m)'
  <1>i. /\ held \in [Key -> Held] /\ Told(m) /\ m.key \in Key /\ ReceiptInv(m.key)
        /\ link = "up"
    BY DEF OutcomeInv, Inv, TypeOK, Reply, RepliesNeedSocket
  <1>k. KeyOf[e] \in Key
    BY LinkAssumption
  <1>1. disk' = disk /\ expired \subseteq expired' /\ live' = live
    BY DEF Request, Bind, Release, Submit, Backpressure, Query, Cancel, GrantExpires, Expire,
           socket, effects, former
  <1>2. CASE held'[m.key] = held[m.key]
    BY <1>i, <1>1, <1>2, ToldFrame DEF OnTheWay
  <1>3. CASE held'[m.key] # held[m.key]
    <2>1. \/ /\ held[KeyOf[e]].phase = "idle"
             /\ held' = [held EXCEPT ![KeyOf[e]].phase = "queued", ![KeyOf[e]].cmd = e]
          \/ /\ held[KeyOf[e]].phase \notin {"idle", "draining"}
             /\ held' = [held EXCEPT ![KeyOf[e]].cancelRequested = TRUE, ![KeyOf[e]].waiting = TRUE,
                           ![KeyOf[e]].phase = IF @ = "queued" THEN "reading" ELSE @]
      BY <1>3 DEF Request, Bind, Release, Submit, Backpressure, Query, Cancel, GrantExpires,
                  Expire, InPhase
    <2>2. m.key = KeyOf[e] /\ held[m.key] \in Held
      BY <1>3, <1>i, <2>1
    <2>3. CASE held[m.key].phase = "idle" /\ held'[m.key].phase = "queued"
      <3>1. ~Started(disk[m.key])
        BY <1>i, <2>3 DEF ReceiptInv, FileOfPhase
      <3> QED
        BY <1>i, <1>1, <2>3, <3>1, ToldFrame DEF OnTheWay, Started
    <2>4. CASE /\ held'[m.key].cancelRequested
               /\ held'[m.key].phase \in {held[m.key].phase, "reading"}
      BY <1>i, <1>1, <2>4, ToldFrame DEF OnTheWay
    <2> QED
      BY <1>i, <1>k, <2>1, <2>2, <2>3, <2>4 DEF Held
  <1> QED
    BY <1>2, <1>3

\* A step of another command leaves it true: what is pruned can no longer be delivered.
LEMMA ToldOther ==
  ASSUME OutcomeInv, NEW k \in Key, Progress(k) \/ Effect(k), ~RecoverInterrupted(k),
         ~LeftoverLands(k), NEW m \in outbox, m.key # k
  PROVE  Told(m)'
  <1>i. TypeOK /\ Told(m) /\ m.key \in Key /\ DeadlinesTogether /\ DiskByKey(m.key)
    BY DEF OutcomeInv, Inv, KeyInv, TypeOK, Reply
  <1>1. /\ held'[m.key] = held[m.key]
        /\ m.key \in live' <=> m.key \in live
        /\ \/ disk'[m.key] = disk[m.key]
           \/ PruneSettled(k) /\ m.key \in Prunable /\ disk'[m.key] = NoReceipt
    BY <1>i, OneKey
  <1>2. expired' = expired
    BY DEF Progress, Effect, Dequeue, ReadStored, CheckAdmission, PruneSettled, WriteAdmission,
           IndexAdmission, Fence, StartEffect, CloseCommand, RecordCancel, AcknowledgeCancel,
           RetireCancel, RetireAbort, RecoverInterrupted, EffectEnds, OrphanEnds
  <1>3. CASE disk'[m.key] = disk[m.key]
    BY <1>i, <1>1, <1>2, <1>3, ToldFrame DEF OnTheWay
  <1>4. CASE m.key \in Prunable /\ disk'[m.key] = NoReceipt
    <2>1. /\ held[m.key].phase \in {"idle", "queued", "draining"} /\ m.key \in BoundKey
          /\ disk[m.key].cmd \in expired /\ disk[m.key].state # "none"
      BY <1>4 DEF Prunable, Active, IsTerminal, Terminal
    <2>2. KeyExpired(m.key)'
      BY <1>i, <1>2, <2>1 DEF DiskByKey, DeadlinesTogether, KeyExpired
    <2>3. ~OnTheWay(m.key)' /\ ~Started(disk'[m.key])
      BY <1>1, <1>4, <2>1 DEF OnTheWay, NoReceipt, Started
    <2> QED
      BY <1>i, <1>1, <2>2, <2>3, ToldSettled DEF Told
  <1> QED
    BY <1>1, <1>3, <1>4

\* Up to the start of its effect a key with a reply under way is either refused or taken
\* to be cancelled.
LEMMA ToldAdmission ==
  ASSUME OutcomeInv, NEW k \in Key,
         \/ Dequeue(k) \/ ReadStored(k) \/ CheckAdmission(k) \/ PruneSettled(k)
         \/ WriteAdmission(k) \/ IndexAdmission(k),
         NEW m \in outbox, m.key = k
  PROVE  Told(m)'
  <1>i. /\ held \in [Key -> Held] /\ disk \in [Key -> Receipt] /\ held[k] \in Held
        /\ Told(m) /\ ReceiptInv(k) /\ KeyInv(k) /\ link = "up"
    BY DEF OutcomeInv, Inv, TypeOK, RepliesNeedSocket
  <1>0. expired' = expired /\ live' = live
    BY DEF Dequeue, ReadStored, CheckAdmission, PruneSettled, WriteAdmission, IndexAdmission,
           effects
  <1>1. CASE Dequeue(k) \/ ReadStored(k)
    <2>1. disk' = disk /\ held[k].phase \in {"queued", "reading"}
      BY <1>1 DEF Dequeue, ReadStored, InPhase
    <2>2. ~Started(disk[k])
      BY <1>i, <2>1 DEF ReceiptInv, FileOfPhase
    <2>3. held'[k].phase \in {"idle", "reading", "checking"}
      BY <1>1, <1>i DEF Dequeue, ReadStored, Refuse, Fail, Idle, Held
    <2> QED
      BY <1>i, <1>0, <2>1, <2>2, <2>3, ToldFrame DEF OnTheWay, Started
  <1>2. CASE CheckAdmission(k)
    <2>1. held[k].phase = "checking" /\ disk[k].state = "none" /\ disk' = disk
      BY <1>2, <1>i DEF CheckAdmission, InPhase, KeyInv, BeforeFence
    <2>3. CASE held' = [held EXCEPT ![k] = Idle]
      BY <1>i, <1>0, <2>1, <2>3, ToldFrame DEF OnTheWay, Idle
    <2>4. CASE /\ held' = [held EXCEPT ![k].phase = "pruning"]
               /\ held[k].cancelRequested \/ held[k].cmd \notin expired
      <3>1. held'[k].phase = "pruning" /\ held'[k].cancelRequested = held[k].cancelRequested
        BY <1>i, <2>4 DEF Held
      <3>2. held[k].cmd \in Envelope /\ KeyOf[held[k].cmd] = k
        BY <1>i, <2>1 DEF KeyInv, HeldByKey
      <3>3. CASE held[k].cancelRequested
        BY <1>i, <1>0, <2>1, <3>1, <3>3, ToldFrame DEF OnTheWay
      <3>4. CASE ~held[k].cancelRequested
        <4>1. ~KeyExpired(m.key)
          BY <2>4, <3>2, <3>4 DEF KeyExpired
        <4>2. ~Binding(m)
          BY <1>i, <2>1, <4>1 DEF Told
        <4> QED
          BY <4>2 DEF Told, Binding
      <3> QED
        BY <3>3, <3>4
    <2> QED
      BY <1>2, <2>3, <2>4 DEF CheckAdmission, Refuse
  <1>5. CASE PruneSettled(k)
    <2>1. held[k].phase = "pruning" /\ disk[k].state = "none"
      BY <1>5, <1>i DEF PruneSettled, InPhase, KeyInv, BeforeFence
    <2>2. disk'[k] = disk[k]
      BY <1>5, <1>i, <2>1 DEF PruneSettled, Prunable, Active
    <2>3. CASE held' = [held EXCEPT ![k] = Idle]
      BY <1>i, <1>0, <2>1, <2>2, <2>3, ToldFrame DEF OnTheWay, Idle
    <2>4. CASE held' = [held EXCEPT ![k].phase = "admitting"]
      <3>1. held'[k].phase = "admitting" /\ held'[k].cancelRequested = held[k].cancelRequested
        BY <1>i, <2>4 DEF Held
      <3> QED
        BY <1>i, <1>0, <2>1, <2>2, <3>1, ToldFrame DEF OnTheWay
    <2> QED
      BY <1>5, <2>3, <2>4 DEF PruneSettled, Refuse
  <1>3. CASE WriteAdmission(k)
    <2>1. /\ held[k].phase = "admitting" /\ held'[k].phase = "indexing"
          /\ held'[k].cancelRequested = held[k].cancelRequested
          /\ disk'[k].state = "admitted"
      BY <1>3, <1>i DEF WriteAdmission, InPhase, Held, Rcpt
    <2>2. Binding(m) => held[k].cancelRequested
      BY <1>i, <2>1 DEF Told, OnTheWay
    <2> QED
      BY <1>i, <1>0, <2>1, <2>2 DEF Told, Binding, OnTheWay
  <1>4. CASE IndexAdmission(k)
    <2>1. /\ held[k].phase = "indexing" /\ held'[k].phase = "fencing" /\ disk' = disk
          /\ held'[k].cancelRequested = held[k].cancelRequested
      BY <1>4, <1>i DEF IndexAdmission, InPhase, Held
    <2> QED
      BY <1>i, <1>0, <2>1, ToldFrame DEF OnTheWay
  <1> QED
    BY <1>1, <1>2, <1>3, <1>4, <1>5

\* From the fence on, the effect of a key with a reply under way does not start again.
LEMMA ToldExecution ==
  ASSUME OutcomeInv, NEW k \in Key,
         \/ Fence(k) \/ StartEffect(k) \/ Effect(k) \/ RecordCancel(k) \/ RetireCancel(k)
         \/ CloseCommand(k) \/ AcknowledgeCancel(k) \/ RetireAbort(k),
         NEW m \in outbox, m.key = k
  PROVE  Told(m)'
  <1>i. /\ held \in [Key -> Held] /\ disk \in [Key -> Receipt] /\ held[k] \in Held
        /\ Told(m) /\ ReceiptInv(k) /\ KeyInv(k) /\ TypeOK
    BY DEF OutcomeInv, Inv, TypeOK
  <1>0. expired' = expired
    BY DEF Fence, StartEffect, Effect, EffectEnds, OrphanEnds, RecordCancel, RetireCancel,
           CloseCommand, AcknowledgeCancel, RetireAbort
  <1>1. CASE Fence(k)
    <2>1. held[k].phase = "fencing" /\ disk' = disk /\ live' = live
      BY <1>1 DEF Fence, InPhase, effects, former
    <2>2. /\ held'[k].cancelRequested = held[k].cancelRequested
          /\ held'[k].phase = "closing" \/ (held'[k].phase = "starting" /\ ~held[k].cancelRequested)
      <3>1. \/ /\ ~held[k].cancelRequested
               /\ Persist(k, Rcpt(held[k].cmd, "running", FALSE), "run", "starting")
            \/ Persist(k, Rcpt(held[k].cmd, "cancelled", TRUE), "run", "closing")
            \/ Persist(k, Rcpt(held[k].cmd, "failed", TRUE), "run", "closing")
        BY <1>1 DEF Fence
      <3>2. ASSUME NEW r, NEW p, Persist(k, r, "run", p)
            PROVE  held'[k].phase = p /\ held'[k].cancelRequested = held[k].cancelRequested
        BY <1>i, <3>2 DEF Persist, Held
      <3> QED
        BY <3>1, <3>2
    <2> QED
      BY <1>i, <1>0, <2>1, <2>2, ToldFrame DEF OnTheWay
  <1>2. CASE StartEffect(k)
    <2>1. OnTheWay(m.key)
      BY <1>2 DEF StartEffect, InPhase, OnTheWay
    <2>2. ~Binding(m)
      BY <1>i, <2>1 DEF Told
    <2> QED
      BY <2>2 DEF Told, Binding
  <1>3. CASE OrphanEnds(k)
    BY <1>i, <1>0, <1>3, ToldFrame DEF OrphanEnds, OnTheWay
  <1>4. CASE \/ \E o \in {"completed", "unknown"} : EffectEnds(k, o)
             \/ RecordCancel(k) \/ RetireCancel(k)
    <2>1. /\ disk' = disk /\ live' \subseteq live
      BY <1>4 DEF EffectEnds, RecordCancel, RetireCancel, effects, former
    <2>2. /\ held'[k].cancelRequested = held[k].cancelRequested
          /\ held'[k].phase \in {"executing", "settling"}
      <3>1. CASE \E o \in {"completed", "unknown"} : EffectEnds(k, o)
        <4>1. PICK r : Persist(k, r, "run", "settling")
          BY <3>1 DEF EffectEnds
        <4> QED
          BY <1>i, <4>1 DEF Persist, Held
      <3>2. CASE RecordCancel(k)
        BY <1>i, <3>2 DEF RecordCancel, Admitted, Held
      <3>3. CASE RetireCancel(k)
        BY <1>i, <3>3 DEF RetireCancel, Admitted, Held
      <3> QED
        BY <1>4, <3>1, <3>2, <3>3
    <2> QED
      BY <1>i, <1>0, <2>1, <2>2, ToldFrame DEF OnTheWay
  <1>5. CASE CloseCommand(k) \/ AcknowledgeCancel(k) \/ RetireAbort(k)
    <2>1. disk'[k].state # "none" /\ ~Started(disk'[k]) /\ live' = live
      BY <1>i, <1>5, LandedReceipt
    <2>2. ~OnTheWay(m.key)'
      BY <1>i, <1>5, AnswerReceipts DEF OnTheWay
    <2> QED
      BY <1>i, <2>1, <2>2, ToldSettled DEF Told
  <1> QED
    BY <1>1, <1>2, <1>3, <1>4, <1>5 DEF Effect

\* Only an outcome can bind: refusals and failures say nothing of a receipt.
LEMMA SentBinds ==
  ASSUME NEW k \in Key, NEW via,
         NEW m \in {Failure(k, "command"), Failure(k, "cancel"), Failure(k, via), Refusal(k)}
  PROVE  Told(m)'
  <1>1. m.rcpt = NoReceipt /\ m.kind # "receipt"
    BY DEF Failure, Refusal
  <1>2. ~m.rcpt.confirmed
    BY <1>1 DEF NoReceipt
  <1> QED
    BY <1>1, <1>2 DEF Told, Binding

\* An answer from the receipt file is true of the key it names.
LEMMA SentReceipt ==
  ASSUME OutcomeInv, link = "up", NEW e \in Envelope, NEW via \in {"cancel", "receipt"},
         AnswerReceipt(e, via), UNCHANGED <<held, disk, expired, live>>,
         via = "cancel" => held[KeyOf[e]].phase \in {"idle", "draining"},
         NEW m \in outbox' \ outbox
  PROVE  Told(m)'
  <1> DEFINE k == KeyOf[e]
  <1>i. /\ k \in Key /\ ReceiptInv(k) /\ KeyInv(k) /\ disk[k] \in Receipt
    BY LinkAssumption DEF OutcomeInv, Inv, TypeOK
  <1>1. CASE m = Failure(k, via)
    BY <1>i, <1>1, SentBinds
  <1>2. ASSUME NEW r \in {disk[k], Known(k)}, m = Outcome(k, via, r), disk[k].state # "none"
        PROVE  Told(m)'
    <2>1. m.key = k /\ m.via = via /\ m.rcpt = r
      BY <1>2 DEF Outcome
    <2>2. r.confirmed => disk[k].confirmed
      BY <1>i, <1>2 DEF Known, Receipt
    <2>3. r.confirmed => k \notin live
      BY <1>i, <2>2 DEF ReceiptInv, EffectOfPhase
    <2>4. OnTheWay(k) => ~disk[k].confirmed
      BY <1>i, <1>2 DEF OnTheWay, ReceiptInv, FileOfPhase, KeyInv, BeforeFence
    <2>5. via = "cancel" => ~Started(disk[k]) /\ ~OnTheWay(k)
      BY <1>i DEF OnTheWay, ReceiptInv, FileOfPhase
    <2>6. OnTheWay(k)' => OnTheWay(k)
      BY DEF OnTheWay
    <2> QED
      BY <1>2, <2>1, <2>2, <2>3, <2>4, <2>5, <2>6 DEF Told, Binding, Started
  <1> QED
    BY <1>1, <1>2 DEF AnswerReceipt, Send

\* An answer to the command, and to a cancellation that joined it, is true when it is sent.
LEMMA SentAnswer ==
  ASSUME NEW k \in Key, NEW r, Answer(k, r),
         r.confirmed => k \notin live', ~Started(disk'[k]), disk'[k].state # "none",
         ~OnTheWay(k)',
         NEW m \in outbox' \ outbox
  PROVE  Told(m)'
  <1>1. m \in {Outcome(k, "command", r), Outcome(k, "cancel", r)}
    BY DEF Answer, Send
  <1>2. m.key = k /\ m.rcpt = r
    BY <1>1 DEF Outcome
  <1> QED
    BY <1>2, ToldSettled

\* Every reply is true when it is sent.
LEMMA ToldNew ==
  ASSUME OutcomeInv, [Step]_vars, NEW m \in outbox' \ outbox
  PROVE  Told(m)'
  <1>t. /\ TypeOK /\ held \in [Key -> Held] /\ disk \in [Key -> Receipt]
        /\ \A k \in Key : ReceiptInv(k) /\ KeyInv(k)
    BY DEF OutcomeInv, Inv, TypeOK
  <1>1. ASSUME NEW e \in Envelope, Request(e) PROVE Told(m)'
    <2>k. KeyOf[e] \in Key
      BY LinkAssumption
    <2>1. CASE Bind(e) \/ Release(e)
      BY <2>1 DEF Bind, Release
    <2>2. CASE Submit(e) \/ Backpressure(e)
      <3>1. m \in {Failure(KeyOf[e], "command"), Refusal(KeyOf[e])}
        BY <2>2 DEF Submit, Backpressure, Send
      <3> QED
        BY <2>k, <3>1, SentBinds
    <2>3. CASE Query(e)
      BY <2>3, SentReceipt DEF Query, CloseoutAuthorized, effects, former
    <2>4. CASE Cancel(e)
      <3>1. \/ m = Failure(KeyOf[e], "cancel")
            \/ /\ AnswerReceipt(e, "cancel") /\ UNCHANGED <<held, disk, expired, live>>
               /\ held[KeyOf[e]].phase \in {"idle", "draining"} /\ link = "up"
        BY <2>4 DEF Cancel, Send, effects, former, CloseoutAuthorized
      <3> QED
        BY <2>k, <3>1, SentBinds, SentReceipt
    <2> QED
      BY <1>1, <2>1, <2>2, <2>3, <2>4 DEF Request
  <1>2. ASSUME NEW k \in Key, Dequeue(k) \/ CheckAdmission(k) \/ PruneSettled(k) PROVE Told(m)'
    <2>1. m \in {Failure(k, "command"), Failure(k, "cancel"), Refusal(k)}
      BY <1>2 DEF Dequeue, CheckAdmission, PruneSettled, Refuse, Fail, Send
    <2> QED
      BY <2>1, SentBinds
  <1>3. ASSUME NEW k \in Key, ReadStored(k) PROVE Told(m)'
    <2>1. CASE Fail(k)
      <3>1. m \in {Failure(k, "command"), Failure(k, "cancel")}
        BY <2>1 DEF Fail, Send
      <3> QED
        BY <3>1, SentBinds
    <2>2. CASE /\ Answer(k, Known(k)) /\ held' = [held EXCEPT ![k] = Idle]
               /\ disk[k].state # "none"
      <3>1. /\ held[k].phase = "reading" /\ disk' = disk /\ live' = live
        BY <1>3 DEF ReadStored, InPhase, effects, former
      <3>2. link = "up"
        BY <2>2 DEF Answer, Send
      <3>3. disk[k] \in Receipt
        BY <1>t
      <3>4. Known(k).confirmed => disk[k].confirmed
        BY <3>3 DEF Known, Receipt
      <3>5. Known(k).confirmed => k \notin live'
        BY <1>t, <3>1, <3>4 DEF ReceiptInv, EffectOfPhase
      <3>6. ~Started(disk'[k])
        BY <1>t, <3>1, <3>2 DEF ReceiptInv, FileOfPhase
      <3>7. ~OnTheWay(k)'
        BY <1>t, <2>2 DEF OnTheWay, Idle
      <3> QED
        BY <2>2, <3>1, <3>5, <3>6, <3>7, SentAnswer
    <2> QED
      BY <1>3, <2>1, <2>2 DEF ReadStored
  <1>4. ASSUME NEW k \in Key, CloseCommand(k) \/ AcknowledgeCancel(k) PROVE Told(m)'
    <2>1. /\ disk'[k].state # "none" /\ ~Started(disk'[k]) /\ live' = live
      BY <1>t, <1>4, LandedReceipt
    <2>2. ~OnTheWay(k)'
      BY <1>t, <1>4, AnswerReceipts DEF OnTheWay
    <2>3. held[k].rcpt.confirmed => k \notin live'
      BY <1>t, <2>1 DEF ReceiptInv, EffectOfPhase
    <2>4. CASE CloseCommand(k)
      BY <2>1, <2>2, <2>3, <2>4, SentAnswer DEF CloseCommand
    <2>5. CASE AcknowledgeCancel(k)
      <3>1. m = Outcome(k, "cancel", held[k].rcpt)
        BY <2>5 DEF AcknowledgeCancel, Send
      <3>2. m.key = k /\ m.rcpt = held[k].rcpt
        BY <3>1 DEF Outcome
      <3> QED
        BY <2>1, <2>2, <2>3, <3>2, ToldSettled
    <2> QED
      BY <1>4, <2>4, <2>5
  <1>5. ASSUME NEW k \in Key,
               \/ WriteAdmission(k) \/ IndexAdmission(k) \/ Fence(k) \/ StartEffect(k)
               \/ RecordCancel(k) \/ RetireCancel(k) \/ RetireAbort(k) \/ RecoverInterrupted(k)
               \/ LeftoverLands(k) \/ Effect(k)
        PROVE  outbox' = outbox
    BY <1>5 DEF WriteAdmission, IndexAdmission, Fence, StartEffect, RecordCancel, RetireCancel,
                RetireAbort, RecoverInterrupted, LeftoverLands, Effect, EffectEnds, OrphanEnds
  <1>6. ASSUME NEW e \in Envelope, GrantExpires(e) \/ Expire(e) PROVE outbox' = outbox
    BY <1>6 DEF GrantExpires, Expire
  <1>7. CASE \/ Close \/ Retired \/ Connect \/ Ready \/ Crash
             \/ TakeReplies \/ UNCHANGED vars
    BY <1>7 DEF Close, Retired, Connect, Ready, Crash, TakeReplies, vars
  <1> QED
    BY <1>1, <1>2, <1>3, <1>4, <1>5, <1>6, <1>7 DEF Step, Progress

\* Every reply under way stays true.
LEMMA ToldStep ==
  ASSUME OutcomeInv, [Step]_vars, NEW m \in outbox'
  PROVE  Told(m)'
  <1>1. CASE m \notin outbox
    BY <1>1, ToldNew
  <1> SUFFICES ASSUME m \in outbox PROVE Told(m)'
    BY <1>1
  <1>i. Told(m) /\ link = "up"
    BY DEF OutcomeInv, RepliesNeedSocket
  <1>2. ASSUME NEW k \in Key, RecoverInterrupted(k) PROVE FALSE
    BY <1>2, <1>i DEF RecoverInterrupted
  <1>7. ASSUME NEW k \in Key, LeftoverLands(k) PROVE Told(m)'
    <2>1. /\ held' = held /\ expired' = expired /\ live' = live /\ k \in leftover
          /\ disk' = [disk EXCEPT ![k].state = "cancel-requested", ![k].confirmed = FALSE]
      BY <1>7 DEF LeftoverLands, socket
    <2>2. /\ disk \in [Key -> Receipt] /\ m.key \in Key /\ FormerInv(k)
      BY DEF OutcomeInv, Inv, TypeOK, Reply
    <2>3. CASE m.key = k
      <3>1. disk'[k].state = "cancel-requested"
        BY <2>1, <2>2, Rewritten
      <3>2. ~OnTheWay(k)'
        BY <2>1, <2>2 DEF FormerInv, OnTheWay
      <3> QED
        BY <1>i, <2>1, <2>3, <3>1, <3>2, ToldSettled DEF Told, Started
    <2>4. CASE m.key # k
      <3>1. disk'[m.key] = disk[m.key]
        BY <2>1, <2>2, <2>4, Rewritten
      <3> QED
        BY <1>i, <2>1, <3>1, ToldFrame DEF OnTheWay
    <2> QED
      BY <2>3, <2>4
  <1>3. ASSUME NEW k \in Key, Progress(k) \/ Effect(k) PROVE Told(m)'
    <2>1. CASE m.key # k
      BY <1>2, <1>3, <1>7, <2>1, ToldOther
    <2>2. CASE m.key = k
      BY <1>2, <1>3, <1>7, <2>2, ToldAdmission, ToldExecution DEF Progress
    <2> QED
      BY <2>1, <2>2
  <1>4. CASE Retired \/ Connect \/ Ready \/ Close \/ Crash
    BY <1>4, <1>i DEF Retired, Connect, Ready, Close, Crash
  <1>5. CASE TakeReplies \/ UNCHANGED vars
    <2>1. held' = held /\ disk' = disk /\ expired' = expired /\ live' = live
      BY <1>5 DEF TakeReplies, vars, effects, former
    <2> QED
      BY <1>i, <2>1, ToldFrame DEF OnTheWay
  <1>6. ASSUME NEW e \in Envelope, Request(e) \/ GrantExpires(e) \/ Expire(e) PROVE Told(m)'
    BY <1>6, ToldRequest
  <1> QED
    BY <1>3, <1>4, <1>5, <1>6 DEF Step

-----------------------------------------------------------------------------
(* The theorems *)

\* Initially there is nothing held, written, running or said.
LEMMA OutcomeInit == Init => OutcomeInv
  <1> SUFFICES ASSUME Init PROVE OutcomeInv
    OBVIOUS
  <1>1. Inv
    BY InvInit
  <1>2. ASSUME NEW k \in Key PROVE ReceiptInv(k) /\ IndexInv(k) /\ FormerInv(k)
    <2>1. /\ held[k] = Idle /\ disk[k] = NoReceipt /\ live = {} /\ link = "down"
      BY DEF Init
    <2>2. WritesInOrder(held[k])
      BY <2>1, EmptyInOrder DEF Idle
    <2> QED
      BY <2>1, <2>2 DEF ReceiptInv, ConfirmedIsOutcome, FileOfPhase, EffectOfPhase, IndexInv, Idle,
                        NoReceipt, Started, FormerInv, Init
  <1> QED
    BY <1>1, <1>2 DEF Init, OutcomeInv, RecoversUnfinished, RepliesNeedSocket

\* Every step keeps the whole invariant.
LEMMA OutcomeStep == OutcomeInv /\ [Step]_vars => OutcomeInv'
  <1> SUFFICES ASSUME OutcomeInv, [Step]_vars PROVE OutcomeInv'
    OBVIOUS
  <1>0. FormerKnown
    BY DEF OutcomeInv, FormerInv, FormerKnown, Inv, TypeOK
  <1>1. Inv'
    BY <1>0, InvStep DEF OutcomeInv
  <1>2. \A k \in Key : ReceiptInv(k)' /\ IndexInv(k)' /\ FormerInv(k)'
    BY ReceiptStep, IndexStep, FormerStep
  <1>3. RecoversUnfinished' /\ RepliesNeedSocket'
    BY BootStep
  <1>4. \A m \in outbox' : Told(m)'
    BY ToldStep
  <1> QED
    BY <1>1, <1>2, <1>3, <1>4 DEF OutcomeInv

\* The invariant holds in every reachable state.
LEMMA OutcomeAlways == Spec => []OutcomeInv
  BY OutcomeInit, OutcomeStep, NextIsStep, PTL DEF Spec

\* Every variable of the command link keeps its type.
THEOREM TypeCorrect == Spec => []TypeOK
  <1>1. OutcomeInv => TypeOK
    BY DEF OutcomeInv, Inv
  <1> QED
    BY <1>1, OutcomeAlways, PTL

\* The effect of a key starts at most once, however often the key is delivered,
\* over every socket, restart, cancellation and pruned receipt.
THEOREM StartsAtMostOnce == Spec => []AtMostOnce
  <1>1. OutcomeInv => AtMostOnce
    BY DEF OutcomeInv, AtMostOnce, Inv, KeyInv
  <1> QED
    BY <1>1, OutcomeAlways, PTL

\* A confirmed closeout, durable or on its way to the caller, is never about an effect
\* that may still be running.
THEOREM ConfirmedMeansOver == Spec => []ConfirmedIsOver
  <1>1. OutcomeInv => ConfirmedIsOver
    BY DEF OutcomeInv, ReceiptInv, EffectOfPhase, Told, ConfirmedIsOver
  <1> QED
    BY <1>1, OutcomeAlways, PTL

\* While the agent serves, the pending index holds every unfinished receipt but the boot
\* journals that a former agent's cancellation replaced.
THEOREM PendingIsIndexed == Spec => []UnfinishedIsIndexed
  <1>1. OutcomeInv => UnfinishedIsIndexed
    BY DEF OutcomeInv, IndexInv, Unfinished, UnfinishedIsIndexed
  <1> QED
    BY <1>1, OutcomeAlways, PTL

\* An acknowledged cancellation is in the receipt file and stays there.
THEOREM CancelStaysDurable == Spec => []CancelIsDurable
  <1>1. OutcomeInv => CancelIsDurable
    BY DEF OutcomeInv, Told, CancelIsDurable
  <1> QED
    BY <1>1, OutcomeAlways, PTL

\* The key of an effect that may be running is retained.
THEOREM RunningStaysRetained == Spec => []RunningIsRetained
  <1>1. OutcomeInv => RunningIsRetained
    BY DEF OutcomeInv, Inv, TypeOK, ReceiptInv, EffectOfPhase, RunningIsRetained
  <1> QED
    BY <1>1, OutcomeAlways, PTL

\* What an outcome may become: it stays, it is pruned, or it is a boot journal, which the
\* cancellation a former agent left unwritten replaces.
Kept(j) ==
  \/ disk'[j] \in {disk[j], NoReceipt}
  \/ /\ ~disk[j].confirmed /\ j \in leftover
     /\ disk'[j] = Rcpt(disk[j].cmd, "cancel-requested", FALSE)

\* A step finds an outcome and keeps it in this sense; its effect does not start.
LEMMA OutcomeKept ==
  ASSUME OutcomeInv, [Step]_vars, NEW j \in Key, IsTerminal(disk[j])
  PROVE  Kept(j) /\ starts'[j] = starts[j]
  <1>t. /\ TypeOK /\ held \in [Key -> Held] /\ disk \in [Key -> Receipt]
        /\ starts \in [Key -> Nat] /\ ReceiptInv(j) /\ KeyInv(j)
        /\ FormerInv(j)
    BY DEF OutcomeInv, Inv, TypeOK
  <1>p. held[j].phase \in {"idle", "queued", "reading"} /\ held[j].writes = <<>>
    BY <1>t DEF ReceiptInv, FileOfPhase, Unfinished, KeyInv, BeforeFence, Held, Phase, IsTerminal,
                Terminal
  <1>1. ASSUME NEW k \in Key, Progress(k) \/ Effect(k), ~RecoverInterrupted(k),
               ~LeftoverLands(k), j # k
        PROVE  disk'[j] \in {disk[j], NoReceipt} /\ starts'[j] = starts[j]
    <2>1. disk'[j] \in {disk[j], NoReceipt}
      BY <1>1, <1>t, OneKey
    <2>2. starts' = starts \/ starts' = [starts EXCEPT ![k] = @ + 1]
      BY <1>1 DEF Progress, Effect, Dequeue, ReadStored, CheckAdmission, PruneSettled,
                  WriteAdmission, IndexAdmission, Fence, StartEffect, CloseCommand, RecordCancel,
                  AcknowledgeCancel, RetireCancel, RetireAbort, EffectEnds, OrphanEnds, effects, former
    <2> QED
      BY <1>1, <1>t, <2>1, <2>2
  <1>2. ASSUME Progress(j) \/ Effect(j), ~RecoverInterrupted(j), ~LeftoverLands(j)
        PROVE  disk' = disk /\ starts' = starts
    <2>1. ~WriteBy(j, "run") /\ ~WriteBy(j, "cancel") /\ ~WriteBy(j, "retire")
      BY <1>p DEF WriteBy
    <2> QED
      BY <1>2, <1>p, <2>1
         DEF Progress, Effect, Dequeue, ReadStored, CheckAdmission, PruneSettled, WriteAdmission,
             IndexAdmission, Fence, StartEffect, CloseCommand, RecordCancel, AcknowledgeCancel,
             RetireCancel, RetireAbort, EffectEnds, OrphanEnds, InPhase, effects, former
  <1>3. ASSUME NEW k \in Key, RecoverInterrupted(k) PROVE disk'[j] = disk[j] /\ starts' = starts
    <2>1. Unfinished(disk[k])
      BY <1>3 DEF RecoverInterrupted, OutcomeInv, RecoversUnfinished
    <2>2. j # k
      BY <2>1 DEF Unfinished
    <2> QED
      BY <1>3, <1>t, <2>2 DEF RecoverInterrupted, effects, former
  <1>4. ASSUME NEW e \in Envelope, Request(e) \/ GrantExpires(e) \/ Expire(e)
        PROVE  disk' = disk /\ starts' = starts
    BY <1>4 DEF Request, Bind, Release, Submit, Backpressure, Query, Cancel, GrantExpires, Expire,
                socket, effects, former
  <1>5. CASE \/ Close \/ Retired \/ Connect \/ Ready \/ Crash
             \/ TakeReplies \/ UNCHANGED vars
    BY <1>5 DEF Close, Retired, Connect, Ready, Crash, TakeReplies, vars, effects, Kept
  <1>6. ASSUME NEW k \in Key, LeftoverLands(k) PROVE Kept(j) /\ starts' = starts
    <2>1. /\ starts' = starts /\ k \in leftover
          /\ disk' = [disk EXCEPT ![k].state = "cancel-requested", ![k].confirmed = FALSE]
      BY <1>6 DEF LeftoverLands
    <2>2. CASE j = k
      <3>1. disk'[j] = Rcpt(disk[j].cmd, "cancel-requested", FALSE)
        BY <1>t, <2>1, <2>2, Rewritten
      <3> QED
        BY <1>t, <2>1, <2>2, <3>1 DEF FormerInv, Kept
    <2>3. CASE j # k
      <3>1. disk'[j] = disk[j]
        BY <1>t, <2>1, <2>3, Rewritten
      <3> QED
        BY <2>1, <3>1 DEF Kept
    <2> QED
      BY <2>2, <2>3
  <1> QED
    BY <1>1, <1>2, <1>3, <1>4, <1>5, <1>6 DEF Step, Kept

\* An outcome is not rewritten until it is pruned, and the effect it ends does not start:
\* only the journal of a boot gives way, to the cancellation a former agent still wrote.
THEOREM OutcomesAreFinal == Spec => TerminalIsFinal
  <1>1. OutcomeInv /\ [Next]_vars =>
          [\A k \in Key : IsTerminal(disk[k]) =>
             /\ \/ disk'[k] \in {disk[k], NoReceipt}
                \/ /\ ~disk[k].confirmed /\ k \in leftover
                   /\ disk'[k] = Rcpt(disk[k].cmd, "cancel-requested", FALSE)
             /\ starts'[k] = starts[k]]_vars
    BY OutcomeKept, NextIsStep DEF Kept
  <1> QED
    BY <1>1, OutcomeAlways, PTL DEF Spec, TerminalIsFinal

=============================================================================
