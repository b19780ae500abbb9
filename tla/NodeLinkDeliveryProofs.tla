---------------------- MODULE NodeLinkDeliveryProofs ----------------------
(***************************************************************************)
(* What NodeLinkCommands does for a caller that delivers each command at   *)
(* most once: it answers it at most once, a refusal means that nothing     *)
(* happened, and a confirmed closeout that nothing will.                   *)
(***************************************************************************)
EXTENDS NodeLinkReceiptsProofs

-----------------------------------------------------------------------------
(* The invariant of one key whose command is delivered once *)

\* No delivery of the key left a trace; it may have been asked for in vain.
Untouched(k) ==
  /\ starts[k] = 0 /\ disk[k].state = "none" /\ held[k].phase = "idle"
  /\ \A m \in outbox : m.key = k => m.kind = "error" /\ m.via # "command"

\* The delivered command neither runs nor can run any more.
Over(k) == k \notin live /\ held[k].phase \in {"idle", "settling", "draining"}

\* A command is answered once, when it has left the agent's hands.
OneAnswer(k) ==
  /\ \A m \in outbox : m.key = k /\ m.via = "command" => held[k].phase \in {"idle", "draining"}
  /\ \A m, n \in outbox :
       m.key = k /\ n.key = k /\ m.via = "command" /\ n.via = "command" => m = n

\* A definitive refusal: nothing happened and nothing of the key is known.
RefusedIsClean(k) ==
  \A m \in outbox : m.key = k /\ m.kind = "refused" =>
    /\ m.via = "command" /\ starts[k] = 0 /\ disk[k].state = "none" /\ held[k].phase = "idle"
    /\ \A n \in outbox : n.key = k => n.kind # "receipt"

\* A confirmed closeout, whatever was asked for.
ConfirmedReply(k) ==
  \A m \in outbox : m.key = k /\ m.rcpt.confirmed => m.kind = "receipt" /\ Over(k)

\* Until its receipt is created nothing is known of the key, and until it executes
\* it has not started.
BeforeStart(k) ==
  /\ held[k].phase \in {"queued", "reading", "checking", "pruning", "admitting"} =>
       /\ starts[k] = 0 /\ disk[k].state = "none"
       /\ \A m \in outbox : m.key = k => m.kind = "error" /\ m.via # "command"
  /\ held[k].phase \in {"indexing", "fencing", "starting"} => starts[k] = 0
  /\ k \in live => starts[k] > 0

Once(k) == OneAnswer(k) /\ RefusedIsClean(k) /\ ConfirmedReply(k) /\ BeforeStart(k)

-----------------------------------------------------------------------------
(* Replies *)

\* What the operators that build replies say.
LEMMA ReplyFields ==
  /\ \A k, v, r : /\ Outcome(k, v, r).key = k /\ Outcome(k, v, r).via = v
                  /\ Outcome(k, v, r).kind = "receipt" /\ Outcome(k, v, r).rcpt = r
  /\ \A k, v : /\ Failure(k, v).key = k /\ Failure(k, v).via = v
               /\ Failure(k, v).kind = "error" /\ Failure(k, v).rcpt.confirmed = FALSE
  /\ \A k : /\ Refusal(k).key = k /\ Refusal(k).via = "command"
            /\ Refusal(k).kind = "refused" /\ Refusal(k).rcpt.confirmed = FALSE
  BY DEF Outcome, Failure, Refusal, NoReceipt

\* A command's replies carry its key.
LEMMA RepliesByKey ==
  ASSUME NEW k, Fail(k) \/ Refuse(k) \/ \E r : Answer(k, r), NEW m \in outbox'
  PROVE  m \in outbox \/ m.key = k
  <1>1. CASE Fail(k)
    BY <1>1, ReplyFields DEF Fail, Send
  <1>2. CASE Refuse(k)
    BY <1>2, ReplyFields DEF Refuse, Send
  <1>3. ASSUME NEW r, Answer(k, r) PROVE m \in outbox \/ m.key = k
    BY <1>3, ReplyFields DEF Answer, Send
  <1> QED
    BY <1>1, <1>2, <1>3

-----------------------------------------------------------------------------
(* Phases *)

\* A held command that is set to a phase, is written for or gone is in that phase.
LEMMA PhaseFields ==
  ASSUME held \in [Key -> Held], NEW k \in Key, NEW p
  PROVE  /\ held' = [held EXCEPT ![k].phase = p] => held'[k].phase = p
         /\ \A r, who : Persist(k, r, who, p) => held'[k].phase = p
         /\ held' = [held EXCEPT ![k] = Idle] => held'[k].phase = "idle"
         /\ \A r, w : held' = [held EXCEPT ![k].phase = p, ![k].rcpt = r, ![k].writes = w]
                     => held'[k].phase = p
         /\ \A r, w : held' = [held EXCEPT ![k].rcpt = r, ![k].waiting = FALSE, ![k].writes = w]
                     => held'[k].phase = held[k].phase
         /\ \A r, w : held' = [held EXCEPT ![k].rcpt = r, ![k].writes = w]
                     => held'[k].phase = held[k].phase
  <1>t. held[k] \in Held
    OBVIOUS
  <1>1. ASSUME held' = [held EXCEPT ![k].phase = p] PROVE held'[k].phase = p
    BY <1>1, <1>t DEF Held
  <1>2. ASSUME NEW r, NEW w, held' = [held EXCEPT ![k].phase = p, ![k].rcpt = r, ![k].writes = w]
        PROVE  held'[k].phase = p
    BY <1>2, <1>t DEF Held
  <1>3. ASSUME NEW r, NEW who, Persist(k, r, who, p) PROVE held'[k].phase = p
    BY <1>3, <1>t DEF Held, Persist
  <1>4. ASSUME held' = [held EXCEPT ![k] = Idle] PROVE held'[k].phase = "idle"
    BY <1>4 DEF Idle
  <1>5. ASSUME NEW r, NEW w,
               held' = [held EXCEPT ![k].rcpt = r, ![k].waiting = FALSE, ![k].writes = w]
        PROVE  held'[k].phase = held[k].phase
    BY <1>5, <1>t DEF Held
  <1>6. ASSUME NEW r, NEW w, held' = [held EXCEPT ![k].rcpt = r, ![k].writes = w]
        PROVE  held'[k].phase = held[k].phase
    BY <1>6, <1>t DEF Held
  <1> QED
    BY <1>1, <1>2, <1>3, <1>4, <1>5, <1>6

-----------------------------------------------------------------------------
(* Steps that are not about a key *)

\* The key's command, effect and replies are left alone; its settled receipt may be pruned.
Apart(k) ==
  /\ held'[k] = held[k] /\ starts'[k] = starts[k] /\ (k \in live' => k \in live)
  /\ disk'[k] = disk[k] \/ disk'[k] = NoReceipt
  /\ \A m \in outbox' : m.key = k => m \in outbox

\* Such a step keeps what holds of the key.
LEMMA ApartKeeps ==
  ASSUME NEW k \in Key, Apart(k)
  PROVE  /\ Once(k) => Once(k)'
         /\ Untouched(k) => Untouched(k)'
         /\ Over(k) => Over(k)'
  <1>1. disk[k].state = "none" => disk'[k].state = "none"
    BY DEF Apart, NoReceipt
  <1>2. Over(k) => Over(k)'
    BY DEF Apart, Over
  <1>3. OneAnswer(k) => OneAnswer(k)'
    BY DEF Apart, OneAnswer
  <1>4. RefusedIsClean(k) => RefusedIsClean(k)'
    BY <1>1 DEF Apart, RefusedIsClean
  <1>5. ConfirmedReply(k) => ConfirmedReply(k)'
    BY <1>2 DEF Apart, ConfirmedReply
  <1>6. BeforeStart(k) => BeforeStart(k)'
    BY <1>1 DEF Apart, BeforeStart
  <1>7. Untouched(k) => Untouched(k)'
    BY <1>1 DEF Apart, Untouched
  <1> QED
    BY <1>2, <1>3, <1>4, <1>5, <1>6, <1>7 DEF Once

\* The steps of one command are not about another one.
LEMMA ProgressApart ==
  ASSUME OutcomeInv, NEW k \in Key, Progress(k) \/ Effect(k), NEW j \in Key, j # k
  PROVE  Apart(j)
  <1>t. TypeOK /\ starts \in [Key -> Nat] /\ disk \in [Key -> Receipt]
    BY DEF OutcomeInv, Inv, TypeOK
  <1>1. starts'[j] = starts[j]
    BY <1>t DEF Progress, Effect, Dequeue, ReadStored, CheckAdmission, PruneSettled,
           WriteAdmission, IndexAdmission, Fence, StartEffect, CloseCommand, RecordCancel,
           AcknowledgeCancel, RetireCancel, RetireAbort, RecoverInterrupted, LeftoverLands, EffectEnds, OrphanEnds, effects, former
  <1>2. \A m \in outbox' : m.key = j => m \in outbox
    <2>1. CASE Dequeue(k) \/ ReadStored(k) \/ CheckAdmission(k) \/ PruneSettled(k)
      BY <2>1, RepliesByKey DEF Dequeue, ReadStored, CheckAdmission, PruneSettled
    <2>2. CASE CloseCommand(k) \/ AcknowledgeCancel(k)
      <3>1. CASE CloseCommand(k)
        BY <3>1, RepliesByKey DEF CloseCommand
      <3>2. CASE AcknowledgeCancel(k)
        BY <3>2, ReplyFields DEF AcknowledgeCancel, Send
      <3> QED
        BY <2>2, <3>1, <3>2
    <2>3. CASE outbox' = outbox
      BY <2>3
    <2> QED
      BY <2>1, <2>2, <2>3 DEF Progress, Effect, WriteAdmission, IndexAdmission, Fence, StartEffect,
           RecordCancel, RetireCancel, RetireAbort, RecoverInterrupted, LeftoverLands, EffectEnds,
           OrphanEnds
  <1>3. CASE RecoverInterrupted(k) \/ LeftoverLands(k)
    BY <1>1, <1>2, <1>3, <1>t DEF RecoverInterrupted, LeftoverLands, Apart, effects, former
  <1>4. CASE ~RecoverInterrupted(k) /\ ~LeftoverLands(k)
    <2>1. /\ held'[j] = held[j] /\ (j \in live' <=> j \in live)
          /\ disk'[j] = disk[j] \/ disk'[j] = NoReceipt
      BY <1>4, <1>t, OneKey
    <2> QED
      BY <1>1, <1>2, <2>1 DEF Apart
  <1> QED
    BY <1>3, <1>4

\* Requests about other keys, ends of grants and deadlines are not about a key.
LEMMA RequestApart ==
  ASSUME TypeOK, NEW e \in Envelope, NEW j \in Key,
         \/ GrantExpires(e) \/ Expire(e) \/ Bind(e) \/ Release(e)
         \/ KeyOf[e] # j /\ (Submit(e) \/ Backpressure(e) \/ Query(e) \/ Cancel(e))
  PROVE  Apart(j)
  <1>k. KeyOf[e] \in Key
    BY LinkAssumption
  <1>1. CASE GrantExpires(e) \/ Expire(e) \/ Bind(e) \/ Release(e)
    BY <1>1 DEF GrantExpires, Expire, Bind, Release, Apart, effects, former
  <1>2. CASE KeyOf[e] # j /\ (Submit(e) \/ Backpressure(e) \/ Query(e) \/ Cancel(e))
    <2>1. held'[j] = held[j]
      BY <1>2 DEF Submit, Backpressure, Query, Cancel, TypeOK
    <2>2. \A m \in outbox' : m.key = j => m \in outbox
      BY SMTT(20), <1>2
         DEF Submit, Backpressure, Query, Cancel, AnswerReceipt, Send, Outcome, Failure, Refusal
    <2> QED
      BY <1>2, <2>1, <2>2 DEF Submit, Backpressure, Query, Cancel, Apart, effects, former
  <1> QED
    BY <1>1, <1>2

-----------------------------------------------------------------------------
(* Steps about a key *)

\* A receipt that is told as confirmed is about an effect that is over.
LEMMA ToldIsOver ==
  ASSUME OutcomeInv, NEW k \in Key, Once(k),
         disk[k].confirmed, disk[k].state # "none", Active(k) \/ IsTerminal(disk[k])
  PROVE  Over(k)
  <1>1. ReceiptInv(k) /\ KeyInv(k)
    BY DEF OutcomeInv, Inv
  <1>2. held[k] \in Held /\ held[k].phase \in Phase
    BY DEF OutcomeInv, Inv, TypeOK, Held
  <1>3. k \notin live
    BY <1>1 DEF ReceiptInv, EffectOfPhase
  <1>4. held[k].phase \notin {"queued", "reading", "checking", "pruning", "admitting"}
    BY DEF Once, BeforeStart
  <1>5. held[k].phase \notin {"indexing", "fencing", "starting", "closing"}
    BY <1>1 DEF ReceiptInv, FileOfPhase
  <1>6. held[k].phase # "executing"
    BY <1>1, <1>3 DEF ReceiptInv, EffectOfPhase
  <1> QED
    BY <1>2, <1>3, <1>4, <1>5, <1>6 DEF Over, Phase

\* A query or a cancellation of the key.
LEMMA AskedOnce ==
  ASSUME OutcomeInv, NEW e \in Envelope, Query(e) \/ Cancel(e),
         NEW k \in Key, k = KeyOf[e], Once(k)
  PROVE  /\ Once(k)'
         /\ Untouched(k) => Untouched(k)'
         /\ Over(k) => Over(k)'
  <1>t. held \in [Key -> Held] /\ held[k] \in Held /\ ReceiptInv(k)
    BY DEF OutcomeInv, Inv, TypeOK
  <1>1. disk' = disk /\ starts' = starts /\ live' = live
    BY DEF Query, Cancel, effects, former
  <1>2. \/ held' = held
        \/ /\ held[k].phase \notin {"idle", "draining"} /\ outbox' = outbox
           /\ held'[k].phase = IF held[k].phase = "queued" THEN "reading" ELSE held[k].phase
    BY <1>t DEF Query, Cancel, Held
  <1>3. CASE held' # held
    BY <1>1, <1>2, <1>3 DEF Once, OneAnswer, RefusedIsClean, ConfirmedReply, BeforeStart, Untouched,
                            Over
  <1>4. CASE held' = held
    <2>1. CASE outbox' \subseteq outbox
      BY <1>1, <1>4, <2>1 DEF Once, OneAnswer, RefusedIsClean, ConfirmedReply, BeforeStart,
                              Untouched, Over
    <2>2. ASSUME NEW m, outbox' = outbox \cup {m}, m.key = k, m.via # "command",
                 m.kind = "error", ~m.rcpt.confirmed
          PROVE  Once(k)' /\ (Untouched(k) => Untouched(k)')
      BY <1>1, <1>4, <2>2 DEF Once, OneAnswer, RefusedIsClean, ConfirmedReply, BeforeStart,
                              Untouched, Over
    <2>3. ASSUME NEW m, outbox' = outbox \cup {m}, m.key = k, m.via # "command",
                 m.kind = "receipt", disk[k].state # "none", m.rcpt.confirmed => Over(k)
          PROVE  Once(k)' /\ (Untouched(k) => Untouched(k)')
      BY <1>1, <1>4, <2>3 DEF Once, OneAnswer, RefusedIsClean, ConfirmedReply, BeforeStart,
                              Untouched, Over
    <2>4. \/ outbox' \subseteq outbox
          \/ \E v \in {"receipt", "cancel"} : outbox' = outbox \cup {Failure(k, v)}
          \/ /\ disk[k].state # "none"
             /\ \E v \in {"receipt", "cancel"} :
                  outbox' = outbox \cup {Outcome(k, v, IF Active(k) THEN disk[k] ELSE Known(k))}
      BY <1>4, <1>t DEF Query, Cancel, AnswerReceipt, Send, Held
    <2>5. ASSUME NEW v \in {"receipt", "cancel"}, outbox' = outbox \cup {Failure(k, v)}
          PROVE  Once(k)' /\ (Untouched(k) => Untouched(k)')
      BY <2>2, <2>5, ReplyFields
    <2>6. ASSUME disk[k].state # "none", NEW v \in {"receipt", "cancel"},
                 outbox' = outbox \cup {Outcome(k, v, IF Active(k) THEN disk[k] ELSE Known(k))}
          PROVE  Once(k)' /\ (Untouched(k) => Untouched(k)')
      <3>1. Known(k).confirmed => disk[k].confirmed /\ IsTerminal(disk[k])
        BY DEF OutcomeInv, Inv, TypeOK, Known, Receipt
      <3>2. (IF Active(k) THEN disk[k] ELSE Known(k)).confirmed => Over(k)
        BY <2>6, <3>1, ToldIsOver
      <3> QED
        BY <2>3, <2>6, <3>2, ReplyFields
    <2>7. Over(k) => Over(k)'
      BY <1>1, <1>4 DEF Over
    <2> QED
      BY <2>1, <2>4, <2>5, <2>6, <2>7
  <1> QED
    BY <1>3, <1>4

\* The delivery of a key that left no trace.
LEMMA DeliveredOnce ==
  ASSUME OutcomeInv, NEW e \in Envelope, Submit(e) \/ Backpressure(e),
         NEW k \in Key, k = KeyOf[e], Once(k), Untouched(k)
  PROVE  Once(k)' /\ (k \in live' => k \in live)
  <1>t. held \in [Key -> Held] /\ held[k] \in Held
    BY DEF OutcomeInv, Inv, TypeOK
  <1>1. disk' = disk /\ starts' = starts /\ live' = live
    BY DEF Submit, Backpressure, effects, former
  <1>2. k \notin live
    BY DEF Once, BeforeStart, Untouched
  <1>3. \A m \in outbox : m.key = k => m.kind = "error" /\ m.via # "command" /\ ~m.rcpt.confirmed
    BY DEF Once, ConfirmedReply, Untouched
  <1>4. CASE held'[k].phase = "queued" /\ outbox' = outbox
    <2>1. OneAnswer(k)'
      BY <1>1, <1>2, <1>3, <1>4
         DEF Once, OneAnswer, RefusedIsClean, ConfirmedReply, BeforeStart, Over, Untouched
    <2>2. RefusedIsClean(k)'
      BY <1>1, <1>2, <1>3, <1>4
         DEF Once, OneAnswer, RefusedIsClean, ConfirmedReply, BeforeStart, Over, Untouched
    <2>3. ConfirmedReply(k)'
      BY <1>1, <1>2, <1>3, <1>4
         DEF Once, OneAnswer, RefusedIsClean, ConfirmedReply, BeforeStart, Over, Untouched
    <2>4. BeforeStart(k)'
      BY <1>1, <1>2, <1>3, <1>4
         DEF Once, OneAnswer, RefusedIsClean, ConfirmedReply, BeforeStart, Over, Untouched
    <2> QED
      BY <1>1, <2>1, <2>2, <2>3, <2>4 DEF Once
  <1>5. ASSUME NEW m, held'[k] = held[k], outbox' = outbox \/ outbox' = outbox \cup {m},
               m.key = k, m.via = "command", m.kind # "receipt", ~m.rcpt.confirmed
        PROVE  Once(k)'
    BY <1>1, <1>2, <1>3, <1>5 DEF Once, OneAnswer, RefusedIsClean, ConfirmedReply, BeforeStart,
                                  Untouched, Over
  <1>6. CASE Submit(e)
    <2>1. CASE held' = [held EXCEPT ![k].phase = "queued", ![k].cmd = e] /\ outbox' = outbox
      BY <1>4, <1>t, <2>1 DEF Held
    <2>2. CASE held' = held /\ Send({Failure(k, "command")})
      <3>1. PICK m : m = Failure(k, "command")
        OBVIOUS
      <3>2. m.key = k /\ m.via = "command" /\ m.kind # "receipt" /\ ~m.rcpt.confirmed
        BY <3>1, ReplyFields
      <3>3. held'[k] = held[k] /\ (outbox' = outbox \/ outbox' = outbox \cup {m})
        BY <2>2, <3>1 DEF Send
      <3> QED
        BY <1>1, <1>2, <1>5, <3>2, <3>3
    <2> QED
      BY <1>6, <2>1, <2>2 DEF Submit
  <1>7. CASE Backpressure(e)
    <2>1. PICK m : m = Refusal(k)
      OBVIOUS
    <2>2. m.key = k /\ m.via = "command" /\ m.kind # "receipt" /\ ~m.rcpt.confirmed
      BY <2>1, ReplyFields
    <2>3. held'[k] = held[k] /\ (outbox' = outbox \/ outbox' = outbox \cup {m})
      BY <1>7, <2>1 DEF Backpressure, Send
    <2> QED
      BY <1>1, <1>2, <1>5, <2>2, <2>3
  <1> QED
    BY <1>1, <1>2, <1>6, <1>7

\* Up to the fence: the command goes on, or is told once that it failed or was refused.
LEMMA AdmissionOnce ==
  ASSUME OutcomeInv, NEW k \in Key, Once(k),
         \/ Dequeue(k) \/ ReadStored(k) \/ CheckAdmission(k) \/ PruneSettled(k)
         \/ WriteAdmission(k) \/ IndexAdmission(k) \/ Fence(k)
  PROVE  Once(k)' /\ ~Untouched(k) /\ ~Over(k)
  <1>t. held \in [Key -> Held] /\ held[k] \in Held /\ disk \in [Key -> Receipt]
    BY DEF OutcomeInv, Inv, TypeOK
  <1>1. starts' = starts /\ live' = live
    BY DEF Dequeue, ReadStored, CheckAdmission, PruneSettled, WriteAdmission, IndexAdmission,
           Fence, effects, former
  <1>2. held[k].phase \in {"queued", "reading", "checking", "pruning", "admitting", "indexing",
                           "fencing"}
    BY DEF Dequeue, ReadStored, CheckAdmission, PruneSettled, WriteAdmission, IndexAdmission,
           Fence, InPhase
  <1>3. ~Untouched(k) /\ ~Over(k)
    BY <1>2 DEF Untouched, Over
  <1>4. CASE WriteAdmission(k) \/ IndexAdmission(k) \/ Fence(k)
    <2>1. /\ outbox' = outbox
          /\ held[k].phase \in {"admitting", "indexing", "fencing"}
          /\ held'[k].phase \in {"indexing", "fencing", "starting", "closing"}
      <3>1. CASE WriteAdmission(k)
        BY <3>1, <1>t DEF WriteAdmission, InPhase, Held
      <3>2. CASE IndexAdmission(k)
        BY <3>2, <1>t DEF IndexAdmission, InPhase, Held
      <3>3. CASE Fence(k)
        <4>1. \E s, c : \/ Persist(k, Rcpt(held[k].cmd, s, c), "run", "starting")
                       \/ Persist(k, Rcpt(held[k].cmd, s, c), "run", "closing")
          BY <3>3 DEF Fence
        <4>2. held'[k].phase = "starting" \/ held'[k].phase = "closing"
          BY <4>1, <1>t, PhaseFields
        <4> QED
          BY <3>3, <4>2 DEF Fence, InPhase
      <3> QED
        BY <1>4, <3>1, <3>2, <3>3
    <2> QED
      <3>1. OneAnswer(k)'
        BY <1>1, <2>1
           DEF Once, OneAnswer, RefusedIsClean, ConfirmedReply, BeforeStart, Over, Untouched
      <3>2. RefusedIsClean(k)'
        BY <1>1, <2>1
           DEF Once, OneAnswer, RefusedIsClean, ConfirmedReply, BeforeStart, Over, Untouched
      <3>3. ConfirmedReply(k)'
        BY <1>1, <2>1
           DEF Once, OneAnswer, RefusedIsClean, ConfirmedReply, BeforeStart, Over, Untouched
      <3>4. BeforeStart(k)'
        BY <1>1, <2>1
           DEF Once, OneAnswer, RefusedIsClean, ConfirmedReply, BeforeStart, Over, Untouched
      <3> QED
        BY <1>3, <3>1, <3>2, <3>3, <3>4 DEF Once
  <1>5. CASE Dequeue(k) \/ ReadStored(k) \/ CheckAdmission(k) \/ PruneSettled(k)
    <2>1. /\ held[k].phase \in {"queued", "reading", "checking", "pruning"}
          /\ starts[k] = 0 /\ disk[k].state = "none" /\ k \notin live
          /\ \A m \in outbox : /\ m.key = k => m.kind = "error" /\ m.via # "command"
                               /\ m.key = k => ~m.rcpt.confirmed
      BY <1>5 DEF Once, ConfirmedReply, BeforeStart, Dequeue, ReadStored, CheckAdmission,
                  PruneSettled, InPhase
    <2>2. disk'[k].state = "none"
      <3>1. disk'[k] = disk[k] \/ disk'[k] = NoReceipt
        BY <1>5, <1>t DEF Dequeue, ReadStored, CheckAdmission, PruneSettled
      <3> QED
        BY <2>1, <3>1 DEF NoReceipt
    <2>3. CASE outbox' = outbox /\ held'[k].phase \in {"reading", "checking", "pruning", "admitting"}
      <3>1. OneAnswer(k)'
        BY <1>1, <2>1, <2>2, <2>3
           DEF Once, OneAnswer, RefusedIsClean, ConfirmedReply, BeforeStart, Over, Untouched
      <3>2. RefusedIsClean(k)'
        BY <1>1, <2>1, <2>2, <2>3
           DEF Once, OneAnswer, RefusedIsClean, ConfirmedReply, BeforeStart, Over, Untouched
      <3>3. ConfirmedReply(k)'
        BY <1>1, <2>1, <2>2, <2>3
           DEF Once, OneAnswer, RefusedIsClean, ConfirmedReply, BeforeStart, Over, Untouched
      <3>4. BeforeStart(k)'
        BY <1>1, <2>1, <2>2, <2>3
           DEF Once, OneAnswer, RefusedIsClean, ConfirmedReply, BeforeStart, Over, Untouched
      <3> QED
        BY <1>3, <3>1, <3>2, <3>3, <3>4 DEF Once
    <2>4. ASSUME NEW m, NEW extra, m.key = k, m.via = "command", m.kind # "receipt",
                 ~m.rcpt.confirmed,
                 \A n \in extra : n.key = k /\ n.via = "cancel" /\ n.kind = "error" /\ ~n.rcpt.confirmed,
                 outbox' = outbox \/ outbox' = outbox \cup ({m} \cup extra),
                 held'[k].phase = "idle"
          PROVE  Once(k)'
      BY <1>1, <2>1, <2>2, <2>4 DEF Once, OneAnswer, RefusedIsClean, ConfirmedReply, BeforeStart,
                                    Over
    <2>5. ASSUME Fail(k) PROVE Once(k)'
      <3>1. held'[k].phase = "idle"
        BY <2>5, <1>t DEF Fail, Idle
      <3> DEFINE extra == IF held[k].waiting THEN {Failure(k, "cancel")} ELSE {}
      <3>2. \A n \in extra : n.key = k /\ n.via = "cancel" /\ n.kind = "error" /\ ~n.rcpt.confirmed
        BY ReplyFields
      <3>m. PICK m : m = Failure(k, "command")
        OBVIOUS
      <3>3. m.key = k /\ m.via = "command" /\ m.kind # "receipt" /\ ~m.rcpt.confirmed
        BY <3>m, ReplyFields
      <3>e. PICK x : x = extra
        OBVIOUS
      <3>4. outbox' = outbox \/ outbox' = outbox \cup ({m} \cup x)
        BY <2>5, <3>m, <3>e DEF Fail, Send
      <3> QED
        <4>1. \A n \in x : n.key = k /\ n.via = "cancel" /\ n.kind = "error" /\ ~n.rcpt.confirmed
          BY <3>2, <3>e
        <4> HIDE DEF extra
        <4> QED
          BY <2>4, <3>1, <3>3, <3>4, <4>1
    <2>6. ASSUME Refuse(k) PROVE Once(k)'
      <3>1. held'[k].phase = "idle"
        BY <2>6, <1>t DEF Refuse, Idle
      <3> DEFINE extra == IF held[k].waiting THEN {Failure(k, "cancel")} ELSE {}
      <3>2. \A n \in extra : n.key = k /\ n.via = "cancel" /\ n.kind = "error" /\ ~n.rcpt.confirmed
        BY ReplyFields
      <3>m. PICK m : m = Refusal(k)
        OBVIOUS
      <3>3. m.key = k /\ m.via = "command" /\ m.kind # "receipt" /\ ~m.rcpt.confirmed
        BY <3>m, ReplyFields
      <3>e. PICK x : x = extra
        OBVIOUS
      <3>4. outbox' = outbox \/ outbox' = outbox \cup ({m} \cup x)
        BY <2>6, <3>m, <3>e DEF Refuse, Send
      <3> QED
        <4>1. \A n \in x : n.key = k /\ n.via = "cancel" /\ n.kind = "error" /\ ~n.rcpt.confirmed
          BY <3>2, <3>e
        <4> HIDE DEF extra
        <4> QED
          BY <2>4, <3>1, <3>3, <3>4, <4>1
    <2>7. \/ outbox' = outbox /\ held'[k].phase \in {"reading", "checking", "pruning", "admitting"}
          \/ Fail(k) \/ Refuse(k)
      <3>1. ASSUME NEW p \in Phase, held' = [held EXCEPT ![k].phase = p]
            PROVE  held'[k].phase = p
        BY <3>1, <1>t DEF Held
      <3>2. CASE Dequeue(k)
        BY <3>1, <3>2 DEF Dequeue, Phase
      <3>3. CASE ReadStored(k)
        BY <2>1, <3>1, <3>3 DEF ReadStored, Phase
      <3>4. CASE CheckAdmission(k)
        BY <3>1, <3>4 DEF CheckAdmission, Phase
      <3>5. CASE PruneSettled(k)
        BY <3>1, <3>5 DEF PruneSettled, Phase
      <3> QED
        BY <1>5, <3>2, <3>3, <3>4, <3>5
    <2> QED
      BY <1>3, <2>3, <2>5, <2>6, <2>7
  <1> QED
    BY <1>3, <1>4, <1>5

\* The start of the effect, its end, and a cancellation that is recorded.
LEMMA ExecutionOnce ==
  ASSUME OutcomeInv, NEW k \in Key, Once(k),
         StartEffect(k) \/ Effect(k) \/ RecordCancel(k) \/ RetireCancel(k)
  PROVE  /\ Once(k)'
         /\ Untouched(k) => Untouched(k)'
         /\ Over(k) => Over(k)'
  <1>t. /\ held \in [Key -> Held] /\ held[k] \in Held /\ disk \in [Key -> Receipt]
        /\ starts \in [Key -> Nat]
    BY DEF OutcomeInv, Inv, TypeOK
  <1>1. outbox' = outbox
    BY DEF StartEffect, Effect, EffectEnds, OrphanEnds, RecordCancel, RetireCancel
  <1>2. CASE StartEffect(k)
    <2>1. /\ held[k].phase = "starting" /\ held'[k].phase \in {"executing", "settling"}
          /\ starts[k] = 0
      <3>1. held[k].phase = "starting" /\ starts[k] = 0
        BY <1>2 DEF StartEffect, InPhase, Once, BeforeStart
      <3>2. CASE held' = [held EXCEPT ![k].phase = "executing", ![k].writes = Tail(@)]
        BY <3>1, <3>2, <1>t DEF Held
      <3>3. ASSUME NEW f, held' = [held EXCEPT ![k].phase = "settling", ![k].rcpt = f,
                                     ![k].writes = Append(Tail(@), [rcpt |-> f, by |-> "run"])]
            PROVE  held'[k].phase = "settling"
        BY <3>3, <1>t DEF Held
      <3> QED
        BY <1>2, <3>1, <3>2, <3>3 DEF StartEffect
    <2>2. k \in live' => starts'[k] > 0
      <3>1. CASE starts' = [starts EXCEPT ![k] = @ + 1]
        BY <1>t, <2>1, <3>1
      <3>2. CASE UNCHANGED <<starts, live>>
        BY <3>2 DEF Once, BeforeStart
      <3> QED
        BY <1>2, <3>1, <3>2 DEF StartEffect
    <2> QED
      BY <1>1, <2>1, <2>2 DEF Once, OneAnswer, RefusedIsClean, ConfirmedReply, BeforeStart,
                              Untouched, Over
  <1>3. CASE Effect(k) \/ RecordCancel(k) \/ RetireCancel(k)
    <2>1. disk' = disk /\ starts' = starts /\ live' \subseteq live
      BY <1>3 DEF Effect, EffectEnds, OrphanEnds, RecordCancel, RetireCancel, effects, former
    <2>2. \/ held' = held
          \/ /\ held[k].phase \in {"executing", "settling"}
             /\ held'[k].phase = held[k].phase \/ held'[k].phase = "settling"
      <3>1. ASSUME NEW o, EffectEnds(k, o)
            PROVE  held[k].phase = "executing" /\ held'[k].phase = "settling"
        <4>1. PICK r : Persist(k, r, "run", "settling")
          BY <3>1 DEF EffectEnds
        <4> QED
          BY <3>1, <4>1, <1>t, PhaseFields DEF EffectEnds, InPhase
      <3>2. CASE RecordCancel(k)
        BY <3>2, <1>t DEF RecordCancel, Admitted, Held
      <3>3. CASE RetireCancel(k)
        BY <3>3, <1>t DEF RetireCancel, Admitted, Held
      <3> QED
        BY <1>3, <3>1, <3>2, <3>3 DEF Effect, OrphanEnds
    <2> QED
      BY <1>1, <2>1, <2>2 DEF Once, OneAnswer, RefusedIsClean, ConfirmedReply, BeforeStart,
                              Untouched, Over
  <1> QED
    BY <1>2, <1>3

\* The command is answered, a cancellation acknowledged, an executor signalled.
LEMMA AnswerOnce ==
  ASSUME OutcomeInv, NEW k \in Key, Once(k),
         CloseCommand(k) \/ AcknowledgeCancel(k) \/ RetireAbort(k)
  PROVE  /\ Once(k)'
         /\ ~Untouched(k)
         /\ Over(k) => Over(k)'
  <1>t. /\ held \in [Key -> Held] /\ held[k] \in Held /\ held[k].phase \in Phase
    BY DEF OutcomeInv, Inv, TypeOK, Held
  <1>i. ReceiptInv(k) /\ KeyInv(k)
    BY DEF OutcomeInv, Inv
  <1>1. starts' = starts /\ live' = live
    BY DEF CloseCommand, AcknowledgeCancel, RetireAbort, effects, former
  <1>2. /\ held[k].writes # <<>>
        /\ held[k].phase \in {"starting", "executing", "settling", "closing", "draining"}
    BY <1>i, <1>t DEF CloseCommand, AcknowledgeCancel, RetireAbort, WriteBy, KeyInv, BeforeFence, Phase
  <1>3. held[k].rcpt.confirmed /\ held[k].phase # "closing" => Over(k)
    BY <1>2, <1>i DEF ReceiptInv, WritesInOrder, EffectOfPhase, Over
  <1>4. ~Untouched(k)
    BY <1>2 DEF Untouched
  <1>5. \A m \in outbox : m.key = k => m.kind # "refused"
    BY <1>2 DEF Once, RefusedIsClean
  <1>6. CASE CloseCommand(k)
    <2>1. /\ held[k].phase \in {"settling", "closing"}
          /\ held'[k].phase \in {"idle", "draining"}
      BY <1>6, <1>t DEF CloseCommand, Idle, Held
    <2>2. held[k].rcpt.confirmed => k \notin live
      BY <1>i DEF ReceiptInv, EffectOfPhase
    <2>3. Over(k) => Over(k)'
      BY <1>1, <2>1 DEF Over
    <2>4. \A m \in outbox : m.key = k => m.via # "command"
      BY <2>1 DEF Once, OneAnswer
    <2>5. ASSUME NEW m, NEW n, m.key = k, m.via = "command", m.kind = "receipt",
                 m.rcpt = held[k].rcpt,
                 n.key = k, n.via = "cancel", n.kind = "receipt", n.rcpt = held[k].rcpt,
                 outbox' \in {outbox, outbox \cup {m}, outbox \cup {m, n}}
          PROVE  Once(k)'
      BY <1>1, <1>5, <2>1, <2>2, <2>4, <2>5 DEF Once, OneAnswer, RefusedIsClean, ConfirmedReply,
                                                BeforeStart, Over
    <2>6. outbox' \in {outbox, outbox \cup {Outcome(k, "command", held[k].rcpt)},
             outbox \cup {Outcome(k, "command", held[k].rcpt), Outcome(k, "cancel", held[k].rcpt)}}
      BY <1>6 DEF CloseCommand, Answer, Send
    <2> QED
      <3>1. PICK m, n : /\ m = Outcome(k, "command", held[k].rcpt)
                        /\ n = Outcome(k, "cancel", held[k].rcpt)
        OBVIOUS
      <3>2. /\ m.key = k /\ m.via = "command" /\ m.kind = "receipt" /\ m.rcpt = held[k].rcpt
            /\ n.key = k /\ n.via = "cancel" /\ n.kind = "receipt" /\ n.rcpt = held[k].rcpt
        BY <3>1, ReplyFields
      <3>3. Once(k)'
        BY <2>5, <2>6, <3>1, <3>2
      <3> QED
        BY <1>4, <2>3, <3>3
  <1>7. CASE AcknowledgeCancel(k) \/ RetireAbort(k)
    <2>1. \/ held[k].phase = "draining" /\ held'[k].phase = "idle"
          \/ held'[k].phase = held[k].phase
      <3>1. held'[k] = Signalled(k)
        BY <1>7, <1>t DEF AcknowledgeCancel, RetireAbort
      <3> QED
        BY <3>1, <1>t DEF Signalled, InPhase, Idle, Held
    <2>2. Over(k) => Over(k)'
      BY <1>1, <2>1 DEF Over
    <2>3. held[k].phase # "closing"
      BY <1>7, <1>i, <1>2, <1>t, HeadInOrder DEF AcknowledgeCancel, RetireAbort, WriteBy, ReceiptInv
    <2>4. ASSUME NEW m, m.key = k, m.via = "cancel", m.kind = "receipt", m.rcpt = held[k].rcpt,
                 outbox' \in {outbox, outbox \cup {m}}
          PROVE  Once(k)'
      BY <1>1, <1>2, <1>3, <1>5, <2>1, <2>2, <2>3, <2>4
         DEF Once, OneAnswer, RefusedIsClean, ConfirmedReply, BeforeStart
    <2>5. outbox' \in {outbox, outbox \cup {Outcome(k, "cancel", held[k].rcpt)}}
      BY <1>7 DEF AcknowledgeCancel, RetireAbort, Send
    <2> QED
      <3>1. PICK m : m = Outcome(k, "cancel", held[k].rcpt)
        OBVIOUS
      <3>2. m.key = k /\ m.via = "cancel" /\ m.kind = "receipt" /\ m.rcpt = held[k].rcpt
        BY <3>1, ReplyFields
      <3>3. Once(k)'
        BY <2>4, <2>5, <3>1, <3>2
      <3> QED
        BY <1>4, <2>2, <3>3
  <1> QED
    BY <1>6, <1>7

\* The socket and the daemon come and go.
LEMMA SocketOnce ==
  ASSUME OutcomeInv, NEW k \in Key, Once(k),
         \/ Close \/ Retired \/ Connect \/ Ready \/ Crash \/ TakeReplies
         \/ RecoverInterrupted(k) \/ LeftoverLands(k) \/ UNCHANGED vars
  PROVE  /\ Once(k)'
         /\ Untouched(k) => Untouched(k)'
         /\ Over(k) => Over(k)'
  <1>1. CASE UNCHANGED vars \/ Retired \/ Ready \/ TakeReplies
    <2>1. /\ held' = held /\ disk' = disk /\ starts' = starts /\ live' = live
          /\ outbox' \subseteq outbox
      BY <1>1 DEF vars, Retired, Ready, TakeReplies, effects, former
    <2> QED
      BY <2>1 DEF Once, OneAnswer, RefusedIsClean, ConfirmedReply, BeforeStart, Untouched, Over
  <1>2. CASE Close \/ Crash \/ Connect
    <2>1. /\ held'[k] = held[k] \/ held'[k].phase = "idle"
          /\ disk' = disk /\ starts' = starts /\ live' \subseteq live /\ outbox' = {}
      BY <1>2 DEF Close, Crash, Connect, effects, former, Idle, OutcomeInv, RepliesNeedSocket
    <2> QED
      BY <2>1 DEF Once, OneAnswer, RefusedIsClean, ConfirmedReply, BeforeStart, Untouched, Over
  <1>3. CASE RecoverInterrupted(k)
    <2>1. /\ held' = held /\ starts' = starts /\ live' = live /\ outbox = {} /\ outbox' = {}
          /\ held[k].phase = "idle" /\ disk[k].state # "none"
      BY <1>3 DEF RecoverInterrupted, effects, former, OutcomeInv, RepliesNeedSocket, Inv, NothingHeld,
                  RecoversRetained
    <2> QED
      BY <2>1 DEF Once, OneAnswer, RefusedIsClean, ConfirmedReply, BeforeStart, Untouched, Over
  <1>4. CASE LeftoverLands(k)
    <2>1. /\ held' = held /\ starts' = starts /\ live' = live /\ outbox' = outbox
          /\ k \in leftover
      BY <1>4 DEF LeftoverLands
    <2>2. disk[k].state # "none" /\ held[k].phase \in {"idle", "queued", "reading"}
      BY <2>1 DEF OutcomeInv, FormerInv
    <2>3. /\ held[k].phase = "idle" /\ ~Untouched(k)
          /\ \A m \in outbox : m.key = k => m.kind # "refused"
      BY <2>2 DEF Once, BeforeStart, RefusedIsClean, Untouched
    <2> QED
      BY <2>1, <2>3 DEF Once, OneAnswer, RefusedIsClean, ConfirmedReply, BeforeStart, Untouched, Over
  <1> QED
    BY <1>1, <1>2, <1>3, <1>4

-----------------------------------------------------------------------------
(* Every step *)

\* Any step but the delivery of a command.
Undelivered ==
  \/ \E e \in Envelope : Bind(e) \/ Release(e) \/ Query(e) \/ Cancel(e) \/ GrantExpires(e) \/ Expire(e)
  \/ \E k \in Key : Progress(k) \/ Effect(k)
  \/ Close \/ Retired \/ Connect \/ Ready \/ Crash
  \/ TakeReplies

\* Every request of the daemon but the delivery of a command is a step of the link; so is a
\* delivery.
LEMMA StepKinds ==
  /\ [Undelivered]_vars => [Step]_vars
  /\ \A e \in Envelope : Submit(e) \/ Backpressure(e) => [Step]_vars
  BY DEF Undelivered, Step, Request

\* What is untouched stays so until it is delivered, and what is over stays over.
LEMMA UndeliveredOnce ==
  ASSUME OutcomeInv, [Undelivered]_vars, NEW k \in Key, Once(k)
  PROVE  /\ Once(k)'
         /\ Untouched(k) => Untouched(k)'
         /\ Over(k) => Over(k)'
  <1>t. TypeOK
    BY DEF OutcomeInv, Inv
  <1>1. ASSUME NEW e \in Envelope, Query(e) \/ Cancel(e)
        PROVE  Once(k)' /\ (Untouched(k) => Untouched(k)') /\ (Over(k) => Over(k)')
    BY <1>1, <1>t, RequestApart, ApartKeeps, AskedOnce
  <1>2. ASSUME NEW e \in Envelope, GrantExpires(e) \/ Expire(e) \/ Bind(e) \/ Release(e)
        PROVE  Once(k)' /\ (Untouched(k) => Untouched(k)') /\ (Over(k) => Over(k)')
    BY <1>2, <1>t, RequestApart, ApartKeeps
  <1>3. ASSUME NEW j \in Key, Progress(j) \/ Effect(j)
        PROVE  Once(k)' /\ (Untouched(k) => Untouched(k)') /\ (Over(k) => Over(k)')
    <2>1. CASE j # k
      BY <1>3, <2>1, ProgressApart, ApartKeeps
    <2>2. CASE j = k
      BY <1>3, <2>2, AdmissionOnce, ExecutionOnce, AnswerOnce, SocketOnce DEF Progress
    <2> QED
      BY <2>1, <2>2
  <1>4. CASE \/ Close \/ Retired \/ Connect \/ Ready \/ Crash \/ TakeReplies \/ UNCHANGED vars
    BY <1>4, SocketOnce
  <1> QED
    BY <1>1, <1>2, <1>3, <1>4 DEF Undelivered

\* A command that is delivered while its key is untouched is delivered once.
LEMMA DeliveryOnce ==
  ASSUME OutcomeInv, NEW e \in Envelope, Submit(e) \/ Backpressure(e),
         NEW k \in Key, Once(k), KeyOf[e] = k => Untouched(k)
  PROVE  /\ Once(k)'
         /\ KeyOf[e] # k => (Untouched(k) => Untouched(k)') /\ (Over(k) => Over(k)')
  <1>t. TypeOK
    BY DEF OutcomeInv, Inv
  <1>1. CASE KeyOf[e] = k
    BY <1>1, DeliveredOnce
  <1>2. CASE KeyOf[e] # k
    BY <1>2, <1>t, RequestApart, ApartKeeps
  <1> QED
    BY <1>1, <1>2

\* The one refusal of a command, once taken, leaves its key untouched.
LEMMA RefusalTaken ==
  ASSUME TypeOK, NEW k \in Key, Once(k), NEW m \in outbox, m.key = k, m.kind = "refused",
         outbox' = outbox \ {m}, UNCHANGED <<socket, held, disk, index, expired, effects>>
  PROVE  Untouched(k)'
  <1>1. /\ m.via = "command" /\ starts[k] = 0 /\ disk[k].state = "none" /\ held[k].phase = "idle"
        /\ \A n \in outbox : n.key = k => n.kind # "receipt"
    BY DEF Once, RefusedIsClean
  <1>2. \A n \in outbox' : n.key = k => n.kind = "error" /\ n.via # "command"
    <2> SUFFICES ASSUME NEW n \in outbox, n # m, n.key = k
                 PROVE  n.kind = "error" /\ n.via # "command"
      OBVIOUS
    <2>1. n.via # "command"
      BY <1>1 DEF Once, OneAnswer
    <2>2. n.kind # "refused"
      BY <2>1 DEF Once, RefusedIsClean
    <2>3. n.kind \in {"receipt", "refused", "error"}
      BY DEF TypeOK, Reply
    <2> QED
      BY <1>1, <2>1, <2>2, <2>3
  <1> QED
    BY <1>1, <1>2 DEF Untouched, effects, former

\* What a step does to the effects: it starts one that is on its way, or some end.
LEMMA EffectStep ==
  ASSUME TypeOK, [Step]_vars
  PROVE  /\ \/ starts' = starts /\ live' \subseteq live
            \/ \E k \in Key : /\ held[k].phase = "starting"
                              /\ starts' = [starts EXCEPT ![k] = @ + 1]
                              /\ live' = live \cup {k}
         /\ \/ expired' = expired
            \/ /\ expired \subseteq expired' /\ UNCHANGED <<effects, outbox>>
  <1>1. ASSUME NEW k \in Key, StartEffect(k)
        PROVE  /\ \/ starts' = starts /\ live' \subseteq live
                  \/ /\ held[k].phase = "starting"
                     /\ starts' = [starts EXCEPT ![k] = @ + 1]
                     /\ live' = live \cup {k}
               /\ expired' = expired
    BY <1>1 DEF StartEffect, InPhase, effects, former
  <1>2. ASSUME NEW k \in Key, Progress(k) \/ Effect(k), ~StartEffect(k)
        PROVE  starts' = starts /\ live' \subseteq live /\ expired' = expired
    BY <1>2 DEF Progress, Effect, Dequeue, ReadStored, CheckAdmission, PruneSettled, WriteAdmission,
           IndexAdmission, Fence, CloseCommand, RecordCancel, AcknowledgeCancel, RetireCancel,
           RetireAbort, RecoverInterrupted, LeftoverLands, EffectEnds, OrphanEnds, effects, former
  <1>3. ASSUME NEW e \in Envelope, Request(e) \/ GrantExpires(e) \/ Expire(e)
        PROVE  /\ starts' = starts /\ live' = live
               /\ expired' = expired \/ (expired \subseteq expired' /\ UNCHANGED <<effects, outbox>>)
    BY <1>3 DEF Request, GrantExpires, Expire, Bind, Release, Submit, Backpressure, Query, Cancel,
                effects, former
  <1>4. CASE \/ Close \/ Retired \/ Connect \/ Ready \/ Crash \/ TakeReplies \/ UNCHANGED vars
    BY <1>4 DEF Close, Retired, Connect, Ready, Crash, TakeReplies, vars, effects, former
  <1> QED
    BY <1>1, <1>2, <1>3, <1>4 DEF Step

\* Nothing is delivered, executed or told before the first step.
LEMMA OnceInit ==
  ASSUME Init, NEW k \in Key
  PROVE  Once(k) /\ Untouched(k)
  BY DEF Init, Once, OneAnswer, RefusedIsClean, ConfirmedReply, BeforeStart, Untouched, Idle, NoReceipt

-----------------------------------------------------------------------------
(* Which commands may execute *)

\* What an admitted command has written, and has still to write, is about itself.
SameCommand(k) ==
  held[k].phase \in {"indexing", "fencing", "starting", "executing"} =>
    /\ held[k].rcpt.cmd = held[k].cmd /\ disk[k].cmd = held[k].cmd
    /\ \A i \in 1..Len(held[k].writes) : held[k].writes[i].rcpt.cmd = held[k].cmd

\* The agent has seen the command's grant, and the command may still execute.
Approved(k) ==
  \/ held[k].phase = "starting"
  \/ /\ held[k].phase \in {"reading", "checking", "pruning", "admitting", "indexing", "fencing"}
     /\ ~held[k].cancelRequested

\* The agent has found the command's resource free as well.
Entering(k) == Approved(k) /\ held[k].phase \notin {"reading", "checking"}

\* What a step does to a command that may execute, or does, after it.
Advances(k) ==
  /\ Approved(k)' \/ held'[k].phase = "executing" => held'[k].cmd = held[k].cmd
  /\ Approved(k)' => Approved(k) \/ (Authorized(held[k].cmd) /\ owner' = owner)
  /\ Entering(k)' =>
       \/ Entering(k)
       \/ Approved(k) /\ ResourceSettled(k) /\ UNCHANGED <<link, owner>>
  /\ held'[k].phase = "executing" =>
       \/ held[k].phase = "executing"
       \/ Entering(k) /\ Authorized(held[k].cmd) /\ owner' = owner

\* A command that is left alone, or as it was but for a cancellation, its outcome or its phase
\* outside the way to its execution.
LEMMA StaysAdvances ==
  ASSUME NEW k \in Key,
         \/ held'[k] = held[k]
         \/ held'[k].phase \in {"idle", "queued", "settling", "closing", "draining"}
         \/ /\ held'[k].phase = held[k].phase /\ held'[k].cmd = held[k].cmd
            /\ held'[k].cancelRequested = held[k].cancelRequested
         \/ /\ held'[k].cmd = held[k].cmd /\ held'[k].cancelRequested = TRUE
            /\ held'[k].phase = IF held[k].phase = "queued" THEN "reading" ELSE held[k].phase
  PROVE  Advances(k)
  BY DEF Advances, Approved, Entering

\* A command goes on by one step at a time, each with its own condition.
LEMMA ProgressAdvances ==
  ASSUME OutcomeInv, NEW k \in Key, Progress(k) \/ Effect(k)
  PROVE  Advances(k)
  <1>t. held \in [Key -> Held] /\ held[k] \in Held
    BY DEF OutcomeInv, Inv, TypeOK
  <1>1. CASE Dequeue(k)
    <2>1. CASE held' = [held EXCEPT ![k] = Idle]
      BY <1>t, <2>1, StaysAdvances DEF Idle
    <2>2. CASE /\ held' = [held EXCEPT ![k].phase = "reading"] /\ Authorized(held[k].cmd)
               /\ owner' = owner
      <3>1. held'[k].phase = "reading" /\ held'[k].cmd = held[k].cmd
        BY <1>t, <2>2 DEF Held
      <3> QED
        BY <2>2, <3>1 DEF Advances, Entering
    <2> QED
      BY <1>1, <2>1, <2>2 DEF Dequeue, Refuse, Fail
  <1>2. CASE ReadStored(k)
    <2>1. CASE held' = [held EXCEPT ![k] = Idle]
      BY <1>t, <2>1, StaysAdvances DEF Idle
    <2>2. CASE held' = [held EXCEPT ![k].phase = "checking"]
      <3>1. /\ held'[k].phase = "checking" /\ held'[k].cmd = held[k].cmd
            /\ held'[k].cancelRequested = held[k].cancelRequested /\ held[k].phase = "reading"
        BY <1>2, <1>t, <2>2 DEF Held, ReadStored, InPhase
      <3> QED
        BY <3>1 DEF Advances, Entering, Approved
    <2> QED
      BY <1>2, <2>1, <2>2 DEF ReadStored, Fail
  <1>3. CASE CheckAdmission(k)
    <2>1. CASE held' = [held EXCEPT ![k] = Idle]
      BY <1>t, <2>1, StaysAdvances DEF Idle
    <2>2. CASE /\ held' = [held EXCEPT ![k].phase = "pruning"]
               /\ held[k].cancelRequested \/ ResourceSettled(k)
               /\ UNCHANGED <<link, owner>>
      <3>1. /\ held'[k].phase = "pruning" /\ held'[k].cmd = held[k].cmd
            /\ held'[k].cancelRequested = held[k].cancelRequested /\ held[k].phase = "checking"
        BY <1>3, <1>t, <2>2 DEF Held, CheckAdmission, InPhase
      <3> QED
        BY <2>2, <3>1 DEF Advances, Entering, Approved
    <2> QED
      BY <1>3, <2>1, <2>2 DEF CheckAdmission, Refuse
  <1>p. CASE PruneSettled(k)
    <2>1. CASE held' = [held EXCEPT ![k] = Idle]
      BY <1>t, <2>1, StaysAdvances DEF Idle
    <2>2. CASE held' = [held EXCEPT ![k].phase = "admitting"]
      <3>1. /\ held'[k].phase = "admitting" /\ held'[k].cmd = held[k].cmd
            /\ held'[k].cancelRequested = held[k].cancelRequested /\ held[k].phase = "pruning"
        BY <1>p, <1>t, <2>2 DEF Held, PruneSettled, InPhase
      <3> QED
        BY <3>1 DEF Advances, Entering, Approved
    <2> QED
      BY <1>p, <2>1, <2>2 DEF PruneSettled, Refuse
  <1>4. CASE WriteAdmission(k)
    <2>1. /\ held'[k].phase = "indexing" /\ held'[k].cmd = held[k].cmd
          /\ held'[k].cancelRequested = held[k].cancelRequested /\ held[k].phase = "admitting"
      BY <1>4, <1>t DEF Held, WriteAdmission, InPhase
    <2> QED
      BY <2>1 DEF Advances, Entering, Approved
  <1>5. CASE IndexAdmission(k)
    <2>1. /\ held'[k].phase = "fencing" /\ held'[k].cmd = held[k].cmd
          /\ held'[k].cancelRequested = held[k].cancelRequested /\ held[k].phase = "indexing"
      BY <1>5, <1>t DEF Held, IndexAdmission, InPhase
    <2> QED
      BY <2>1 DEF Advances, Entering, Approved
  <1>6. CASE Fence(k)
    <2>1. CASE \E r : Persist(k, r, "run", "closing")
      BY <1>t, <2>1, PhaseFields, StaysAdvances
    <2>2. CASE ~held[k].cancelRequested /\ \E r : Persist(k, r, "run", "starting")
      <3>1. held'[k].phase = "starting" /\ held'[k].cmd = held[k].cmd /\ held[k].phase = "fencing"
        BY <1>6, <1>t, <2>2 DEF Held, Persist, Fence, InPhase
      <3> QED
        BY <2>2, <3>1 DEF Advances, Entering, Approved
    <2> QED
      BY <1>6, <2>1, <2>2 DEF Fence
  <1>7. CASE StartEffect(k)
    <2>1. CASE Authorized(held[k].cmd)
      <3>1. /\ held'[k].phase = "executing" /\ held'[k].cmd = held[k].cmd
            /\ held[k].phase = "starting" /\ owner' = owner
        BY <1>7, <1>t, <2>1 DEF Held, StartEffect, InPhase, socket
      <3> QED
        BY <2>1, <3>1 DEF Advances, Entering, Approved
    <2>2. CASE ~Authorized(held[k].cmd)
      <3>1. held'[k].phase = "settling"
        BY <1>7, <1>t, <2>2 DEF Held, StartEffect
      <3> QED
        BY <3>1, StaysAdvances
    <2> QED
      BY <2>1, <2>2
  <1>8. CASE CloseCommand(k)
    <2>1. held'[k].phase \in {"idle", "draining"}
      BY <1>8, <1>t DEF CloseCommand, Idle, Held
    <2> QED
      BY <2>1, StaysAdvances
  <1>9. CASE AcknowledgeCancel(k) \/ RetireAbort(k)
    <2>1. held'[k] = Signalled(k)
      <3>1. PICK g : g = Signalled(k) /\ held' = [held EXCEPT ![k] = g]
        BY <1>9 DEF AcknowledgeCancel, RetireAbort
      <3> QED
        BY <1>t, <3>1
    <2>2. CASE held'[k] = Idle
      <3>1. held'[k].phase = "idle"
        BY <2>2 DEF Idle
      <3> QED
        BY <3>1, StaysAdvances
    <2>3. CASE held'[k] = [held[k] EXCEPT !.aborted = TRUE, !.writes = Tail(held[k].writes)]
      <3>1. /\ held'[k].phase = held[k].phase /\ held'[k].cmd = held[k].cmd
            /\ held'[k].cancelRequested = held[k].cancelRequested
        BY <1>t, <2>3 DEF Held
      <3> QED
        BY <3>1, StaysAdvances
    <2> QED
      BY <2>1, <2>2, <2>3 DEF Signalled
  <1>10. CASE RecordCancel(k) \/ RetireCancel(k)
    <2>1. PICK r, w : \/ held' = [held EXCEPT ![k].rcpt = r, ![k].waiting = FALSE, ![k].writes = w]
                      \/ held' = [held EXCEPT ![k].rcpt = r, ![k].writes = w]
      BY <1>10 DEF RecordCancel, RetireCancel
    <2>2. /\ held'[k].phase = held[k].phase /\ held'[k].cmd = held[k].cmd
          /\ held'[k].cancelRequested = held[k].cancelRequested
      BY <1>t, <2>1 DEF Held
    <2> QED
      BY <2>2, StaysAdvances
  <1>11. CASE RecoverInterrupted(k) \/ LeftoverLands(k) \/ OrphanEnds(k)
    BY <1>11, StaysAdvances DEF RecoverInterrupted, LeftoverLands, OrphanEnds
  <1>12. ASSUME NEW o, EffectEnds(k, o) PROVE Advances(k)
    <2>1. \E r : Persist(k, r, "run", "settling")
      BY <1>12 DEF EffectEnds
    <2> QED
      BY <1>t, <2>1, PhaseFields, StaysAdvances
  <1> QED
    BY <1>1, <1>2, <1>3, <1>p, <1>4, <1>5, <1>6, <1>7, <1>8, <1>9, <1>10, <1>11, <1>12
       DEF Progress, Effect

\* Every step advances a command, leaves it or ends it.
LEMMA StepAdvances ==
  ASSUME OutcomeInv, [Step]_vars, NEW k \in Key
  PROVE  Advances(k)
  <1>t. held \in [Key -> Held] /\ held[k] \in Held /\ TypeOK
    BY DEF OutcomeInv, Inv, TypeOK
  <1>1. ASSUME NEW j \in Key, Progress(j) \/ Effect(j) PROVE Advances(k)
    <2>1. CASE j = k
      BY <1>1, <2>1, ProgressAdvances
    <2>2. CASE j # k
      <3>1. Apart(k)
        BY <1>1, <2>2, ProgressApart
      <3> QED
        BY <3>1, StaysAdvances DEF Apart
    <2> QED
      BY <2>1, <2>2
  <1>2. ASSUME NEW e \in Envelope, Submit(e) PROVE Advances(k)
    <2>1. held'[k] = held[k] \/ held'[k].phase = "queued"
      BY <1>2, <1>t DEF Submit, Held
    <2> QED
      BY <2>1, StaysAdvances
  <1>3. ASSUME NEW e \in Envelope, Cancel(e) PROVE Advances(k)
    <2>1. CASE held' = held
      BY <2>1, StaysAdvances
    <2>2. CASE held' # held /\ k # KeyOf[e]
      <3>1. held'[k] = held[k]
        BY <1>3, <1>t, <2>2 DEF Cancel
      <3> QED
        BY <3>1, StaysAdvances
    <2>3. CASE held' # held /\ k = KeyOf[e]
      <3>1. /\ held'[k].cmd = held[k].cmd /\ held'[k].cancelRequested = TRUE
            /\ held'[k].phase = IF held[k].phase = "queued" THEN "reading" ELSE held[k].phase
        BY <1>3, <1>t, <2>3 DEF Cancel, Held
      <3> QED
        BY <3>1, StaysAdvances
    <2> QED
      BY <2>1, <2>2, <2>3
  <1>4. ASSUME NEW e \in Envelope,
               \/ Bind(e) \/ Release(e) \/ Backpressure(e) \/ Query(e)
               \/ GrantExpires(e) \/ Expire(e)
        PROVE  Advances(k)
    <2>1. held' = held
      BY <1>4 DEF Bind, Release, Backpressure, Query, GrantExpires, Expire
    <2> QED
      BY <2>1, StaysAdvances
  <1>5. CASE Close \/ Crash \/ Connect
    <2>1. held'[k] = held[k] \/ held'[k].phase = "idle"
      BY <1>5, <1>t DEF Close, Crash, Connect, Idle
    <2> QED
      BY <2>1, StaysAdvances
  <1>6. CASE Retired \/ Ready \/ TakeReplies \/ UNCHANGED vars
    BY <1>6, StaysAdvances DEF Retired, Ready, TakeReplies, vars
  <1> QED
    BY <1>1, <1>2, <1>3, <1>4, <1>5, <1>6 DEF Step, Request

\* What a resource that is free for a command says of one that executes.
LEMMA SettledShares ==
  ASSUME OutcomeInv, link = "up", NEW j \in Key, NEW k \in Key, SameCommand(j),
         held[j].phase = "executing", Approved(k), ResourceSettled(k), held[k].cmd \notin ReadOnly,
         ResourceOf[held[j].cmd] = ResourceOf[held[k].cmd]
  PROVE  LeaseOf[held[j].cmd] = LeaseOf[held[k].cmd]
  <1>1. Unfinished(disk[j]) /\ j # k /\ Active(j)
    BY DEF OutcomeInv, ReceiptInv, FileOfPhase, Approved, Active
  <1>2. j \in index
    BY <1>1 DEF OutcomeInv, IndexInv, FormerInv, InPhase
  <1>3. j \in Contenders(k)
    BY <1>1, <1>2 DEF Contenders, SameCommand
  <1>4. SharesLease(j, k)
    BY <1>1, <1>3 DEF ResourceSettled, Closed
  <1> QED
    BY <1>4 DEF SharesLease, SameCommand

\* What a step does to the grants: one is bound, some end, or all end with the socket.
Revokes ==
  /\ \A r \in Resource : owner'[r] \in {owner[r], None}
  /\ \A e \in granted' : e \in granted /\ owner'[ResourceOf[e]] = owner[ResourceOf[e]]

LEMMA RevokeRevokes ==
  ASSUME NEW gone, Revoke(gone), TypeOK
  PROVE  Revokes
  BY LinkAssumption DEF Revoke, Revokes, TypeOK

\* Any step but the binding of a grant.
GrantsNothing ==
  \/ \E e \in Envelope : \/ Release(e) \/ Submit(e) \/ Backpressure(e) \/ Query(e) \/ Cancel(e)
                         \/ GrantExpires(e) \/ Expire(e)
  \/ \E k \in Key : Progress(k) \/ Effect(k)
  \/ Close \/ Retired \/ Connect \/ Ready \/ Crash
  \/ TakeReplies

\* Such a step of the node grants nothing, and the node serves only what it served before.
LEMMA StepRevokes ==
  ASSUME OutcomeInv, [GrantsNothing]_vars
  PROVE  /\ Revokes
         /\ [Step]_vars
         /\ \A k \in Key : link' = "up" /\ held[k].phase # "idle" => link = "up"
  <1>t. TypeOK
    BY DEF OutcomeInv, Inv
  <1>1. ASSUME NEW j \in Key, Progress(j) \/ Effect(j) PROVE Revokes
    <2>1. CASE (\E g : Revoke(g))
      BY <1>t, <2>1, RevokeRevokes
    <2>2. CASE UNCHANGED <<granted, owner>>
      BY <1>t, <2>2 DEF Revokes
    <2> QED
      BY <1>1, <2>1, <2>2
         DEF Progress, Effect, Dequeue, ReadStored, CheckAdmission, PruneSettled, WriteAdmission,
             IndexAdmission, Fence, StartEffect, CloseCommand, RecordCancel, AcknowledgeCancel,
             RetireCancel, RetireAbort, RecoverInterrupted, LeftoverLands, EffectEnds, OrphanEnds, Refuse, socket
  <1>2. ASSUME NEW e \in Envelope, Release(e) \/ Backpressure(e) \/ GrantExpires(e) PROVE Revokes
    BY <1>2, <1>t, RevokeRevokes DEF Release, Backpressure, GrantExpires
  <1>3. ASSUME Close \/ Crash PROVE Revokes
    BY <1>3, <1>t DEF Close, Crash, Revokes
  <1>4. ASSUME \/ \E e \in Envelope : Submit(e) \/ Query(e) \/ Cancel(e) \/ Expire(e)
               \/ Retired \/ Connect \/ Ready \/ TakeReplies \/ UNCHANGED vars
        PROVE  Revokes
    <2>1. UNCHANGED <<granted, owner>>
      BY <1>4 DEF Submit, Query, Cancel, Expire, Retired, Connect, Ready, TakeReplies, vars, socket
    <2> QED
      BY <1>t, <2>1 DEF Revokes
  <1>5. ASSUME ~Ready PROVE link' = "up" => link = "up"
    BY <1>5 DEF GrantsNothing, Submit, Query, Cancel, Expire, Retired, Connect, TakeReplies, vars,
                socket, Release, Backpressure, GrantExpires, Close, Crash, Progress, Effect, Dequeue,
                ReadStored, CheckAdmission, PruneSettled, WriteAdmission, IndexAdmission, Fence, StartEffect,
                CloseCommand, RecordCancel, AcknowledgeCancel, RetireCancel, RetireAbort,
                RecoverInterrupted, LeftoverLands, EffectEnds, OrphanEnds
  <1>6. ASSUME Ready, NEW k \in Key PROVE held[k].phase = "idle"
    BY <1>6 DEF Ready, OutcomeInv, Inv, NothingHeld
  <1>7. [Step]_vars
    BY DEF GrantsNothing, Step, Request
  <1> QED
    BY <1>1, <1>2, <1>3, <1>4, <1>5, <1>6, <1>7 DEF GrantsNothing

\* A command stays the same in memory, in its file and in the writes between them.
LEMMA SameStays ==
  ASSUME NEW k \in Key, SameCommand(k), held'[k] = held[k], disk'[k] = disk[k] \/ ~Active(k)
  PROVE  SameCommand(k)'
  BY DEF SameCommand, Active

\* Nothing is admitted of it, or what was written of it has no writes left.
LEMMA SameFresh ==
  ASSUME NEW k \in Key,
         held'[k].phase \notin {"indexing", "fencing", "starting", "executing"}
  PROVE  SameCommand(k)'
  BY DEF SameCommand

\* One more write of the command is queued, the others stay.
LEMMA SameAppended ==
  ASSUME held \in [Key -> Held], NEW k \in Key, SameCommand(k), disk' = disk,
         held[k].phase \in {"indexing", "fencing", "starting", "executing"},
         NEW r \in Receipt, r.cmd = held[k].cmd, NEW who \in {"run", "cancel", "retire"},
         held'[k].cmd = held[k].cmd, held'[k].rcpt = r,
         held'[k].writes = Append(held[k].writes, [rcpt |-> r, by |-> who])
  PROVE  SameCommand(k)'
  <1>1. held[k].writes \in Seq(Write) /\ [rcpt |-> r, by |-> who] \in Write
    BY DEF Held, Write
  <1>2. /\ Len(held'[k].writes) = Len(held[k].writes) + 1 /\ Len(held[k].writes) \in Nat
        /\ held'[k].writes[Len(held[k].writes) + 1].rcpt = r
        /\ \A i \in 1..Len(held[k].writes) : held'[k].writes[i] = held[k].writes[i]
    BY <1>1, AppendProperties, LenProperties
  <1>3. \A i \in 1..Len(held'[k].writes) : held'[k].writes[i].rcpt.cmd = held[k].cmd
    <2>1. TAKE i \in 1..Len(held'[k].writes)
    <2>2. CASE i \in 1..Len(held[k].writes)
      BY <1>2, <2>2 DEF SameCommand
    <2>3. CASE i = Len(held[k].writes) + 1
      BY <1>2, <2>3
    <2> QED
      BY <1>2, <2>2, <2>3
  <1> QED
    BY <1>3 DEF SameCommand

\* The oldest write lands.
LEMMA SameLanded ==
  ASSUME held \in [Key -> Held], disk \in [Key -> Receipt], NEW k \in Key, SameCommand(k),
         held[k].phase \in {"starting", "executing"}, held[k].writes # <<>>,
         WriteLands(k), held'[k].cmd = held[k].cmd, held'[k].rcpt = held[k].rcpt,
         held'[k].writes = Tail(held[k].writes)
  PROVE  SameCommand(k)'
  <1>1. held[k].writes \in Seq(Write)
    BY DEF Held
  <1>2. /\ Len(held[k].writes) \in Nat \ {0}
        /\ Head(held[k].writes) = held[k].writes[1]
        /\ Len(held'[k].writes) = Len(held[k].writes) - 1
        /\ \A i \in 1..Len(held'[k].writes) : held'[k].writes[i] = held[k].writes[i + 1]
    BY <1>1, EmptySeq, HeadTailProperties
  <1>3. disk'[k] = held[k].writes[1].rcpt
    BY <1>2 DEF WriteLands
  <1>4. disk'[k].cmd = held[k].cmd
    BY <1>2, <1>3 DEF SameCommand
  <1>5. \A i \in 1..Len(held'[k].writes) : held'[k].writes[i].rcpt.cmd = held[k].cmd
    BY <1>2 DEF SameCommand
  <1> QED
    BY <1>4, <1>5 DEF SameCommand

\* The command's own steps keep it.
LEMMA ProgressSame ==
  ASSUME OutcomeInv, NEW k \in Key, SameCommand(k), Progress(k) \/ Effect(k)
  PROVE  SameCommand(k)'
  <1>t. /\ held \in [Key -> Held] /\ held[k] \in Held /\ disk \in [Key -> Receipt]
        /\ held[k].cmd \in Envelope \cup {None} /\ BeforeFence(k)
    BY DEF OutcomeInv, Inv, KeyInv, TypeOK, Held
  <1>1. CASE Dequeue(k) \/ ReadStored(k) \/ CheckAdmission(k) \/ PruneSettled(k)
    <2>1. held'[k].phase \in {"idle", "reading", "checking", "pruning", "admitting"}
      BY <1>1, <1>t, PhaseFields DEF Dequeue, ReadStored, CheckAdmission, PruneSettled, Refuse, Fail
    <2> QED
      BY <2>1, SameFresh
  <1>2. CASE WriteAdmission(k)
    <2>1. PICK r : /\ r = Rcpt(held[k].cmd, "admitted", FALSE)
                   /\ disk' = [disk EXCEPT ![k] = r]
                   /\ held' = [held EXCEPT ![k].phase = "indexing", ![k].rcpt = r]
      BY <1>2 DEF WriteAdmission
    <2>2. /\ held'[k].cmd = held[k].cmd /\ held'[k].rcpt = r /\ held'[k].writes = held[k].writes
          /\ r.cmd = held[k].cmd /\ disk'[k] = r
      BY <1>t, <2>1 DEF Held, Rcpt
    <2>3. Len(held'[k].writes) = 0
      BY <1>2, <1>t, <2>2 DEF BeforeFence, WriteAdmission, InPhase
    <2> QED
      BY <2>2, <2>3 DEF SameCommand
  <1>3. CASE IndexAdmission(k)
    <2>1. /\ held'[k].cmd = held[k].cmd /\ held'[k].rcpt = held[k].rcpt
          /\ held'[k].writes = held[k].writes /\ held[k].phase = "indexing" /\ disk' = disk
      BY <1>3, <1>t DEF Held, IndexAdmission, InPhase
    <2> QED
      BY <2>1 DEF SameCommand
  <1>4. CASE Fence(k)
    <2>1. PICK s \in ReceiptState, c \in BOOLEAN, p \in {"starting", "closing"} :
            Persist(k, Rcpt(held[k].cmd, s, c), "run", p)
      BY <1>4 DEF Fence, ReceiptState, Terminal
    <2>2. PICK r : r = Rcpt(held[k].cmd, s, c) /\ Persist(k, r, "run", p)
      BY <2>1
    <2>3. r \in Receipt /\ r.cmd = held[k].cmd
      BY <1>t, <2>2 DEF Rcpt, Receipt
    <2>4. /\ held'[k].cmd = held[k].cmd /\ held'[k].rcpt = r
          /\ held'[k].writes = Append(held[k].writes, [rcpt |-> r, by |-> "run"])
      BY <1>t, <2>2 DEF Held, Persist
    <2>5. held[k].phase = "fencing" /\ disk' = disk
      BY <1>4 DEF Fence, InPhase
    <2> QED
      BY <1>t, <2>3, <2>4, <2>5, SameAppended
  <1>5. CASE StartEffect(k)
    <2>1. /\ held[k].phase = "starting" /\ held[k].writes # <<>> /\ WriteLands(k)
      BY <1>5 DEF StartEffect, InPhase, WriteBy
    <2>2. CASE Authorized(held[k].cmd)
      <3>1. /\ held'[k].cmd = held[k].cmd /\ held'[k].rcpt = held[k].rcpt
            /\ held'[k].writes = Tail(held[k].writes)
        BY <1>5, <1>t, <2>2 DEF Held, StartEffect
      <3> QED
        BY <1>t, <2>1, <3>1, SameLanded
    <2>3. CASE ~Authorized(held[k].cmd)
      <3>1. held'[k].phase = "settling"
        BY <1>5, <1>t, <2>3 DEF Held, StartEffect
      <3> QED
        BY <3>1, SameFresh
    <2> QED
      BY <2>2, <2>3
  <1>6. CASE CloseCommand(k)
    <2>1. held'[k].phase \in {"idle", "draining"}
      BY <1>6, <1>t DEF CloseCommand, Idle, Held
    <2> QED
      BY <2>1, SameFresh
  <1>7. CASE AcknowledgeCancel(k) \/ RetireAbort(k)
    <2>1. held[k].writes # <<>> /\ WriteLands(k) /\ held' = [held EXCEPT ![k] = Signalled(k)]
      BY <1>7 DEF AcknowledgeCancel, RetireAbort, WriteBy
    <2>2. held'[k] = Signalled(k)
      <3>1. PICK g : g = Signalled(k) /\ held' = [held EXCEPT ![k] = g]
        BY <2>1
      <3> QED
        BY <1>t, <3>1
    <2>3. CASE held'[k] = Idle
      <3>1. held'[k].phase = "idle"
        BY <2>3 DEF Idle
      <3> QED
        BY <3>1, SameFresh
    <2>4. CASE held'[k] = [held[k] EXCEPT !.aborted = TRUE, !.writes = Tail(held[k].writes)]
      <3>1. /\ held'[k].phase = held[k].phase /\ held'[k].cmd = held[k].cmd
            /\ held'[k].rcpt = held[k].rcpt /\ held'[k].writes = Tail(held[k].writes)
        BY <1>t, <2>4 DEF Held
      <3>2. CASE held[k].phase \in {"starting", "executing"}
        BY <1>t, <2>1, <3>1, <3>2, SameLanded
      <3>3. CASE held[k].phase \in {"indexing", "fencing"}
        BY <1>t, <2>1, <3>3 DEF BeforeFence
      <3>4. CASE held[k].phase \notin {"indexing", "fencing", "starting", "executing"}
        BY <3>1, <3>4, SameFresh
      <3> QED
        BY <3>2, <3>3, <3>4
    <2> QED
      BY <2>2, <2>3, <2>4 DEF Signalled
  <1>8. ASSUME RecordCancel(k) \/ RetireCancel(k), held[k].phase = "executing"
        PROVE  SameCommand(k)'
    <2>1. PICK r : r = Rcpt(held[k].cmd, "cancel-requested", FALSE)
      OBVIOUS
    <2>2. r \in Receipt /\ r.cmd = held[k].cmd
      BY <1>t, <2>1 DEF Rcpt, Receipt, ReceiptState
    <2>3. PICK who \in {"cancel", "retire"} :
            /\ held'[k].cmd = held[k].cmd /\ held'[k].rcpt = r
            /\ held'[k].writes = Append(held[k].writes, [rcpt |-> r, by |-> who])
      <3>1. CASE RecordCancel(k)
        <4>1. held' = [held EXCEPT ![k].rcpt = r, ![k].waiting = FALSE,
                         ![k].writes = Append(@, [rcpt |-> r, by |-> "cancel"])]
          BY <2>1, <3>1 DEF RecordCancel
        <4> QED
          BY <1>t, <4>1 DEF Held
      <3>2. CASE RetireCancel(k)
        <4>1. held' = [held EXCEPT ![k].rcpt = r,
                         ![k].writes = Append(@, [rcpt |-> r, by |-> "retire"])]
          BY <2>1, <3>2 DEF RetireCancel
        <4> QED
          BY <1>t, <4>1 DEF Held
      <3> QED
        BY <1>8, <3>1, <3>2
    <2>4. disk' = disk
      BY <1>8 DEF RecordCancel, RetireCancel
    <2> QED
      BY <1>8, <1>t, <2>2, <2>3, <2>4, SameAppended
  <1>9. ASSUME RecordCancel(k) \/ RetireCancel(k), held[k].phase # "executing"
        PROVE  SameCommand(k)'
    <2>1. PICK r, w : \/ held' = [held EXCEPT ![k].rcpt = r, ![k].waiting = FALSE, ![k].writes = w]
                      \/ held' = [held EXCEPT ![k].rcpt = r, ![k].writes = w]
      BY <1>9 DEF RecordCancel, RetireCancel
    <2>2. held'[k].phase = held[k].phase
      BY <1>t, <2>1 DEF Held
    <2>3. held[k].phase = "settling"
      BY <1>9 DEF RecordCancel, RetireCancel, Admitted
    <2> QED
      BY <2>2, <2>3, SameFresh
  <1>10. CASE RecoverInterrupted(k) \/ LeftoverLands(k)
    <2>1. held' = held /\ held[k].phase \in {"idle", "queued", "reading"}
      BY <1>10, <1>t DEF RecoverInterrupted, LeftoverLands, OutcomeInv, Inv, NothingHeld, FormerInv
    <2> QED
      BY <2>1, SameFresh
  <1>11. ASSUME NEW o, EffectEnds(k, o) PROVE SameCommand(k)'
    <2>1. \E r : Persist(k, r, "run", "settling")
      BY <1>11 DEF EffectEnds
    <2>2. held'[k].phase = "settling"
      BY <1>t, <2>1, PhaseFields
    <2> QED
      BY <2>2, SameFresh
  <1>12. CASE OrphanEnds(k)
    BY <1>12, SameStays DEF OrphanEnds
  <1> QED
    BY <1>1, <1>2, <1>3, <1>4, <1>5, <1>6, <1>7, <1>8, <1>9, <1>10, <1>11, <1>12
       DEF Progress, Effect

\* Every step keeps it.
LEMMA StepSame ==
  ASSUME OutcomeInv, [Step]_vars, NEW k \in Key, SameCommand(k)
  PROVE  SameCommand(k)'
  <1>t. held \in [Key -> Held] /\ held[k] \in Held /\ TypeOK
    BY DEF OutcomeInv, Inv, TypeOK
  <1>1. ASSUME NEW j \in Key, Progress(j) \/ Effect(j) PROVE SameCommand(k)'
    <2>1. CASE j = k
      BY <1>1, <2>1, ProgressSame
    <2>2. CASE j # k /\ (RecoverInterrupted(j) \/ LeftoverLands(j))
      <3>1. held' = held /\ disk'[k] = disk[k]
        BY <1>t, <2>2 DEF RecoverInterrupted, LeftoverLands, TypeOK
      <3> QED
        BY <3>1, SameStays
    <2>3. CASE j # k /\ ~RecoverInterrupted(j) /\ ~LeftoverLands(j)
      <3>1. held'[k] = held[k] /\ (disk'[k] = disk[k] \/ k \in Prunable)
        BY <1>1, <1>t, <2>3, OneKey
      <3> QED
        BY <3>1, SameStays DEF Prunable
    <2> QED
      BY <2>1, <2>2, <2>3
  <1>2. ASSUME NEW e \in Envelope, Submit(e) PROVE SameCommand(k)'
    <2>1. (held'[k] = held[k] \/ held'[k].phase = "queued") /\ disk' = disk
      BY <1>2, <1>t DEF Submit, Held
    <2> QED
      BY <2>1, SameStays, SameFresh
  <1>3. ASSUME NEW e \in Envelope, Cancel(e) PROVE SameCommand(k)'
    <2>1. disk' = disk
      BY <1>3 DEF Cancel
    <2>2. CASE held'[k] = held[k]
      BY <2>1, <2>2, SameStays
    <2>3. CASE held'[k] # held[k]
      <3>1. /\ held'[k].cmd = held[k].cmd /\ held'[k].rcpt = held[k].rcpt
            /\ held'[k].writes = held[k].writes
            /\ held'[k].phase = IF held[k].phase = "queued" THEN "reading" ELSE held[k].phase
        BY <1>3, <1>t, <2>3 DEF Cancel, Held
      <3> QED
        BY <2>1, <3>1 DEF SameCommand
    <2> QED
      BY <2>2, <2>3
  <1>4. ASSUME NEW e \in Envelope,
               \/ Bind(e) \/ Release(e) \/ Backpressure(e) \/ Query(e)
               \/ GrantExpires(e) \/ Expire(e)
        PROVE  SameCommand(k)'
    <2>1. held' = held /\ disk' = disk
      BY <1>4 DEF Bind, Release, Backpressure, Query, GrantExpires, Expire
    <2> QED
      BY <2>1, SameStays
  <1>5. CASE Close \/ Crash \/ Connect
    <2>1. (held'[k] = held[k] \/ held'[k].phase = "idle") /\ disk' = disk
      BY <1>5, <1>t DEF Close, Crash, Connect, Idle
    <2> QED
      BY <2>1, SameStays, SameFresh
  <1>6. CASE Retired \/ Ready \/ TakeReplies \/ UNCHANGED vars
    <2>1. held' = held /\ disk' = disk
      BY <1>6 DEF Retired, Ready, TakeReplies, vars
    <2> QED
      BY <2>1, SameStays
  <1> QED
    BY <1>1, <1>2, <1>3, <1>4, <1>5, <1>6 DEF Step, Request

=============================================================================
