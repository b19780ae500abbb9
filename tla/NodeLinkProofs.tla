----------------------------- MODULE NodeLinkProofs -----------------------------
(***************************************************************************)
(* What holds of the durable command link end to end, for all keys,        *)
(* envelopes, resources and leases and any number of frames and replies:   *)
(* gateway and node keep the promise of DurableCommand, and the leases of  *)
(* a resource without attempts never execute side by side.  Each process's *)
(* part rests on one invariant; the node's is that of module               *)
(* NodeLinkDeliveryProofs.                                                 *)
(***************************************************************************)
EXTENDS NodeLink, TLAPS, SequenceTheorems, FiniteSetTheorems

Agent == INSTANCE NodeLinkDeliveryProofs

-----------------------------------------------------------------------------
(* The invariant *)

\* The frames on the socket that carry the key's command.
Commands(k) == {i \in 1..Len(wire) : wire[i].kind = "command" /\ KeyOf[wire[i].cmd] = k}

\* An intent belongs to its key; what is under way at the node was marked as sent.
IntentInv(k) ==
  /\ intent[k].cmd # None => KeyOf[intent[k].cmd] = k
  /\ intent[k].cmd = None => intent[k] = NoIntent
  /\ intent[k].rcpt.confirmed => intent[k].sent
  /\ inv[k] # "none" => intent[k].cmd # None
  /\ inv[k] \in {"sent", "waiting", "cancelling", "refusing", "querying"} => Uncertain(k)

\* A command crosses the socket once, to a node that knows nothing of it; what may still
\* run is uncertain, and what was not sent, or is about to be unsent, left no trace.
DeliveryInv(k) ==
  /\ Agent!Once(k)
  /\ ~Agent!Over(k) \/ Commands(k) # {} => Uncertain(k)
  /\ Commands(k) # {} => Agent!Untouched(k) /\ inv[k] \notin {"sent", "refusing"}
  /\ \A i, j \in Commands(k) : i = j
  /\ ~intent[k].sent \/ inv[k] \in {"sent", "refusing"} => Forgotten(k) \/ Agent!Untouched(k)

\* One attempt at a time: it alone is invoked, and only the reference may be uncertain.
AttemptInv ==
  /\ \A k \in Attempt : inv[k] # "none" => att = "invoking" /\ ref = k
  /\ att \in {"settled", "releasing", "returned"} => ref # None /\ ~Uncertain(ref)
  /\ att \in {"authorizing", "authorized", "querying"} => ref # None /\ Uncertain(ref)
  /\ att \in {"named", "invoking"} => ref # None
  /\ \A k \in Attempt : Uncertain(k) => ref = k

LinkInv ==
  /\ TypeOK
  /\ Agent!OutcomeInv
  /\ AttemptInv
  /\ \A k \in Key : IntentInv(k) /\ DeliveryInv(k)

-----------------------------------------------------------------------------
(* The node's steps *)

\* The node of NodeLink and the one the proofs are about are the same.
LEMMA SameNode ==
  /\ Node!Init <=> Agent!Init
  /\ Node!TypeOK <=> Agent!TypeOK
  /\ Node!TypeOK' <=> Agent!TypeOK'
  /\ \A e : /\ Node!Bind(e) <=> Agent!Bind(e)
            /\ Node!Release(e) <=> Agent!Release(e)
            /\ Node!Submit(e) <=> Agent!Submit(e)
            /\ Node!Backpressure(e) <=> Agent!Backpressure(e)
            /\ Node!Query(e) <=> Agent!Query(e)
            /\ Node!Cancel(e) <=> Agent!Cancel(e)
            /\ Node!GrantExpires(e) <=> Agent!GrantExpires(e)
            /\ Node!Expire(e) <=> Agent!Expire(e)
  /\ \A k : /\ Node!Progress(k) <=> Agent!Progress(k)
            /\ Node!Effect(k) <=> Agent!Effect(k)
  /\ Node!Close <=> Agent!Close
  /\ Node!Retired <=> Agent!Retired
  /\ Node!Connect <=> Agent!Connect
  /\ Node!Ready <=> Agent!Ready
  /\ Node!Crash <=> Agent!Crash
  <1>1. Node!Init <=> Agent!Init
    BY DEF Node!Init, Agent!Init, Node!Idle, Agent!Idle, Node!NoReceipt, Agent!NoReceipt
  <1>2. Node!TypeOK <=> Agent!TypeOK
    BY DEF Node!TypeOK, Agent!TypeOK, Node!Held, Agent!Held, Node!Receipt, Agent!Receipt,
       Node!Reply, Agent!Reply, Node!Phase, Agent!Phase, Node!Write, Agent!Write, Node!ReceiptState,
       Agent!ReceiptState, Node!Terminal, Agent!Terminal
  <1>t. Node!TypeOK' <=> Agent!TypeOK'
    BY DEF Node!TypeOK, Agent!TypeOK, Node!Held, Agent!Held, Node!Receipt, Agent!Receipt,
       Node!Reply, Agent!Reply, Node!Phase, Agent!Phase, Node!Write, Agent!Write, Node!ReceiptState,
       Agent!ReceiptState, Node!Terminal, Agent!Terminal
  <1>3. ASSUME NEW e PROVE Node!Bind(e) <=> Agent!Bind(e)
    BY DEF Node!Bind, Agent!Bind, Node!effects, Agent!effects, Node!former, Agent!former
  <1>4. ASSUME NEW e PROVE Node!Release(e) <=> Agent!Release(e)
    BY DEF Node!Release, Agent!Release, Node!CloseoutAuthorized, Agent!CloseoutAuthorized,
       Node!Releasable, Agent!Releasable, Node!Revoke, Agent!Revoke, Node!effects, Agent!effects,
       Node!former, Agent!former, Node!LeavesIndex, Agent!LeavesIndex, Node!IsTerminal,
       Agent!IsTerminal, Node!Terminal, Agent!Terminal
  <1>5. ASSUME NEW e PROVE Node!Submit(e) <=> Agent!Submit(e)
    BY DEF Node!Submit, Agent!Submit, Node!Authorized, Agent!Authorized, Node!InPhase,
       Agent!InPhase, Node!Send, Agent!Send, Node!Failure, Agent!Failure, Node!socket, Agent!socket,
       Node!effects, Agent!effects, Node!former, Agent!former, Node!NoReceipt, Agent!NoReceipt
  <1>6. ASSUME NEW e PROVE Node!Backpressure(e) <=> Agent!Backpressure(e)
    BY DEF Node!Backpressure, Agent!Backpressure, Node!Authorized, Agent!Authorized, Node!InPhase,
       Agent!InPhase, Node!Send, Agent!Send, Node!Refusal, Agent!Refusal, Node!Revoke, Agent!Revoke,
       Node!effects, Agent!effects, Node!former, Agent!former, Node!NoReceipt, Agent!NoReceipt
  <1>7. ASSUME NEW e PROVE Node!Query(e) <=> Agent!Query(e)
    BY DEF Node!Query, Agent!Query, Node!CloseoutAuthorized, Agent!CloseoutAuthorized,
       Node!AnswerReceipt, Agent!AnswerReceipt, Node!socket, Agent!socket, Node!effects,
       Agent!effects, Node!former, Agent!former, Node!Active, Agent!Active, Node!Known, Agent!Known,
       Node!Send, Agent!Send, Node!Failure, Agent!Failure, Node!Outcome, Agent!Outcome,
       Node!IsTerminal, Agent!IsTerminal, Node!NoReceipt, Agent!NoReceipt, Node!Terminal,
       Agent!Terminal
  <1>8. ASSUME NEW e PROVE Node!Cancel(e) <=> Agent!Cancel(e)
    BY DEF Node!Cancel, Agent!Cancel, Node!CloseoutAuthorized, Agent!CloseoutAuthorized,
       Node!AnswerReceipt, Agent!AnswerReceipt, Node!Send, Agent!Send, Node!Failure, Agent!Failure,
       Node!socket, Agent!socket, Node!effects, Agent!effects, Node!former, Agent!former,
       Node!Active, Agent!Active, Node!Known, Agent!Known, Node!Outcome, Agent!Outcome,
       Node!NoReceipt, Agent!NoReceipt, Node!IsTerminal, Agent!IsTerminal, Node!Terminal,
       Agent!Terminal
  <1>9. ASSUME NEW e PROVE Node!GrantExpires(e) <=> Agent!GrantExpires(e)
    BY DEF Node!GrantExpires, Agent!GrantExpires, Node!Revoke, Agent!Revoke, Node!effects,
       Agent!effects, Node!former, Agent!former
  <1>10. ASSUME NEW e PROVE Node!Expire(e) <=> Agent!Expire(e)
    BY DEF Node!Expire, Agent!Expire, Node!socket, Agent!socket, Node!effects, Agent!effects,
       Node!former, Agent!former
  <1>11. ASSUME NEW k PROVE Node!Progress(k) <=> Agent!Progress(k)
    <2>1. Node!Dequeue(k) <=> Agent!Dequeue(k)
      BY DEF Node!Dequeue, Agent!Dequeue, Node!InPhase, Agent!InPhase, Node!Refuse, Agent!Refuse,
         Node!Authorized, Agent!Authorized, Node!Fail, Agent!Fail, Node!effects, Agent!effects,
         Node!former, Agent!former, Node!Idle, Agent!Idle, Node!Send, Agent!Send, Node!Refusal,
         Agent!Refusal, Node!Failure, Agent!Failure, Node!Revoke, Agent!Revoke, Node!NoReceipt,
         Agent!NoReceipt
    <2>2. Node!ReadStored(k) <=> Agent!ReadStored(k)
      BY DEF Node!ReadStored, Agent!ReadStored, Node!InPhase, Agent!InPhase, Node!Idle, Agent!Idle,
         Node!Answer, Agent!Answer, Node!Known, Agent!Known, Node!NoteCloseout, Agent!NoteCloseout,
         Node!Fail, Agent!Fail, Node!effects, Agent!effects, Node!former, Agent!former,
         Node!NoReceipt, Agent!NoReceipt, Node!Send, Agent!Send, Node!Outcome, Agent!Outcome,
         Node!IsTerminal, Agent!IsTerminal, Node!Failure, Agent!Failure, Node!Terminal,
         Agent!Terminal
    <2>r. Node!Refuse(k) <=> Agent!Refuse(k)
      BY DEF Node!Refuse, Agent!Refuse, Node!Idle, Agent!Idle, Node!Send, Agent!Send, Node!Refusal,
         Agent!Refusal, Node!Failure, Agent!Failure, Node!Revoke, Agent!Revoke, Node!NoReceipt,
         Agent!NoReceipt
    <2>3. Node!CheckAdmission(k) <=> Agent!CheckAdmission(k)
      <3>1. Node!ResourceSettled(k) <=> Agent!ResourceSettled(k)
        BY DEF Node!ResourceSettled, Agent!ResourceSettled, Node!Contenders, Agent!Contenders,
           Node!Closed, Agent!Closed, Node!SharesLease, Agent!SharesLease, Node!Active,
           Agent!Active, Node!IsTerminal, Agent!IsTerminal, Node!Terminal, Agent!Terminal
      <3>2. Node!Contenders(k) = Agent!Contenders(k)
        BY DEF Node!Contenders, Agent!Contenders
      <3> QED
        BY <2>r, <3>1, <3>2 DEF Node!CheckAdmission, Agent!CheckAdmission, Node!InPhase,
           Agent!InPhase, Node!NoReceipt, Agent!NoReceipt, Node!effects, Agent!effects, Node!former,
           Agent!former, Node!Closed, Agent!Closed, Node!Active, Agent!Active, Node!IsTerminal,
           Agent!IsTerminal, Node!Terminal, Agent!Terminal
    <2>p. Node!PruneSettled(k) <=> Agent!PruneSettled(k)
      <3>1. Node!Prunable = Agent!Prunable
        BY DEF Node!Prunable, Agent!Prunable, Node!Active, Agent!Active, Node!IsTerminal,
           Agent!IsTerminal, Node!Terminal, Agent!Terminal
      <3>2. Node!Retained = Agent!Retained
        BY DEF Node!Retained, Agent!Retained
      <3>3. \A S : Node!Cardinality(S) = Agent!Cardinality(S)
        BY DEF Node!Cardinality, Agent!Cardinality
      <3> QED
        BY <2>r, <3>1, <3>2, <3>3 DEF Node!PruneSettled, Agent!PruneSettled, Node!InPhase,
           Agent!InPhase, Node!NoReceipt, Agent!NoReceipt, Node!effects, Agent!effects, Node!former,
           Agent!former
    <2>4. Node!WriteAdmission(k) <=> Agent!WriteAdmission(k)
      BY DEF Node!WriteAdmission, Agent!WriteAdmission, Node!Rcpt, Agent!Rcpt, Node!InPhase,
         Agent!InPhase, Node!socket, Agent!socket, Node!effects, Agent!effects, Node!former,
         Agent!former
    <2>5. Node!IndexAdmission(k) <=> Agent!IndexAdmission(k)
      BY DEF Node!IndexAdmission, Agent!IndexAdmission, Node!InPhase, Agent!InPhase, Node!socket,
         Agent!socket, Node!effects, Agent!effects, Node!former, Agent!former
    <2>6. Node!Fence(k) <=> Agent!Fence(k)
      BY DEF Node!Fence, Agent!Fence, Node!CloseoutAuthorized, Agent!CloseoutAuthorized,
         Node!Authorized, Agent!Authorized, Node!InPhase, Agent!InPhase, Node!Persist,
         Agent!Persist, Node!Rcpt, Agent!Rcpt, Node!socket, Agent!socket, Node!effects,
         Agent!effects, Node!former, Agent!former
    <2>7. Node!StartEffect(k) <=> Agent!StartEffect(k)
      BY DEF Node!StartEffect, Agent!StartEffect, Node!Rcpt, Agent!Rcpt, Node!InPhase,
         Agent!InPhase, Node!WriteBy, Agent!WriteBy, Node!WriteLands, Agent!WriteLands,
         Node!Authorized, Agent!Authorized, Node!effects, Agent!effects, Node!former, Agent!former,
         Node!socket, Agent!socket, Node!LeavesIndex, Agent!LeavesIndex, Node!IsTerminal,
         Agent!IsTerminal, Node!Terminal, Agent!Terminal
    <2>8. Node!CloseCommand(k) <=> Agent!CloseCommand(k)
      BY DEF Node!CloseCommand, Agent!CloseCommand, Node!WriteBy, Agent!WriteBy, Node!WriteLands,
         Agent!WriteLands, Node!Answer, Agent!Answer, Node!NoteCloseout, Agent!NoteCloseout,
         Node!Idle, Agent!Idle, Node!effects, Agent!effects, Node!former, Agent!former,
         Node!LeavesIndex, Agent!LeavesIndex, Node!Send, Agent!Send, Node!Outcome, Agent!Outcome,
         Node!NoReceipt, Agent!NoReceipt, Node!IsTerminal, Agent!IsTerminal, Node!Terminal,
         Agent!Terminal
    <2>9. Node!RecordCancel(k) <=> Agent!RecordCancel(k)
      BY DEF Node!RecordCancel, Agent!RecordCancel, Node!Rcpt, Agent!Rcpt, Node!Admitted,
         Agent!Admitted, Node!IsTerminal, Agent!IsTerminal, Node!socket, Agent!socket, Node!effects,
         Agent!effects, Node!former, Agent!former, Node!Terminal, Agent!Terminal
    <2>10. Node!AcknowledgeCancel(k) <=> Agent!AcknowledgeCancel(k)
      BY DEF Node!AcknowledgeCancel, Agent!AcknowledgeCancel, Node!WriteBy, Agent!WriteBy,
         Node!WriteLands, Agent!WriteLands, Node!Signalled, Agent!Signalled, Node!Send, Agent!Send,
         Node!Outcome, Agent!Outcome, Node!socket, Agent!socket, Node!effects, Agent!effects,
         Node!former, Agent!former, Node!LeavesIndex, Agent!LeavesIndex, Node!InPhase,
         Agent!InPhase, Node!Idle, Agent!Idle, Node!IsTerminal, Agent!IsTerminal, Node!NoReceipt,
         Agent!NoReceipt, Node!Terminal, Agent!Terminal
    <2>11. Node!RetireCancel(k) <=> Agent!RetireCancel(k)
      BY DEF Node!RetireCancel, Agent!RetireCancel, Node!Rcpt, Agent!Rcpt, Node!Admitted,
         Agent!Admitted, Node!IsTerminal, Agent!IsTerminal, Node!socket, Agent!socket, Node!effects,
         Agent!effects, Node!former, Agent!former, Node!Terminal, Agent!Terminal
    <2>12. Node!RetireAbort(k) <=> Agent!RetireAbort(k)
      BY DEF Node!RetireAbort, Agent!RetireAbort, Node!WriteBy, Agent!WriteBy, Node!WriteLands,
         Agent!WriteLands, Node!Signalled, Agent!Signalled, Node!socket, Agent!socket, Node!effects,
         Agent!effects, Node!former, Agent!former, Node!LeavesIndex, Agent!LeavesIndex,
         Node!InPhase, Agent!InPhase, Node!Idle, Agent!Idle, Node!IsTerminal, Agent!IsTerminal,
         Node!NoReceipt, Agent!NoReceipt, Node!Terminal, Agent!Terminal
    <2>13. Node!RecoverInterrupted(k) <=> Agent!RecoverInterrupted(k)
      BY DEF Node!RecoverInterrupted, Agent!RecoverInterrupted, Node!socket, Agent!socket,
         Node!effects, Agent!effects, Node!former, Agent!former
    <2>14. Node!LeftoverLands(k) <=> Agent!LeftoverLands(k)
      BY DEF Node!LeftoverLands, Agent!LeftoverLands, Node!socket, Agent!socket
    <2> QED
      BY <2>1, <2>2, <2>3, <2>p, <2>4, <2>5, <2>6, <2>7, <2>8, <2>9, <2>10, <2>11, <2>12,
         <2>13, <2>14 DEF Node!Progress, Agent!Progress
  <1>12. ASSUME NEW k PROVE Node!Effect(k) <=> Agent!Effect(k)
    BY DEF Node!Effect, Agent!Effect, Node!EffectEnds, Agent!EffectEnds, Node!OrphanEnds,
       Agent!OrphanEnds, Node!InPhase, Agent!InPhase, Node!Persist, Agent!Persist, Node!Rcpt,
       Agent!Rcpt, Node!socket, Agent!socket, Node!former, Agent!former
  <1>13. Node!Close <=> Agent!Close
    BY DEF Node!Close, Agent!Close, Node!InPhase, Agent!InPhase, Node!Idle, Agent!Idle,
       Node!effects, Agent!effects, Node!former, Agent!former, Node!NoReceipt, Agent!NoReceipt
  <1>14. Node!Retired <=> Agent!Retired
    BY DEF Node!Retired, Agent!Retired, Node!Quiet, Agent!Quiet, Node!effects, Agent!effects,
       Node!former, Agent!former, Node!InPhase, Agent!InPhase
  <1>15. Node!Connect <=> Agent!Connect
    BY DEF Node!Connect, Agent!Connect, Node!Retained, Agent!Retained, Node!IsTerminal,
       Agent!IsTerminal, Node!Idle, Agent!Idle, Node!NoReceipt, Agent!NoReceipt, Node!Unwritten,
       Agent!Unwritten, Node!InPhase, Agent!InPhase, Node!effects, Agent!effects, Node!former,
       Agent!former, Node!Terminal, Agent!Terminal
  <1>16. Node!Ready <=> Agent!Ready
    BY DEF Node!Ready, Agent!Ready, Node!effects, Agent!effects, Node!former, Agent!former
  <1>17. Node!Crash <=> Agent!Crash
    BY DEF Node!Crash, Agent!Crash, Node!Idle, Agent!Idle, Node!NoReceipt, Agent!NoReceipt
  <1> QED
    BY <1>t, <1>1, <1>2, <1>3, <1>4, <1>5, <1>6, <1>7, <1>8, <1>9, <1>10, <1>11, <1>12, <1>13,
       <1>14, <1>15,
       <1>16, <1>17

-----------------------------------------------------------------------------
(* Types *)

\* Receipts are the same on both sides; a reply carries one.
LEMMA LinkTypes ==
  /\ NoIntent \in Intent
  /\ NoIntent.cmd = None /\ NoIntent.sent = FALSE /\ NoIntent.rcpt.confirmed = FALSE
  /\ \A e \in Envelope : [NoIntent EXCEPT !.cmd = e] \in Intent
  /\ \A e \in Envelope : /\ [NoIntent EXCEPT !.cmd = e].cmd = e
                         /\ [NoIntent EXCEPT !.cmd = e].sent = FALSE
                         /\ [NoIntent EXCEPT !.cmd = e].rcpt.confirmed = FALSE
  /\ \A kind \in Kind, e \in Envelope : [kind |-> kind, cmd |-> e] \in Frame
  /\ None \notin Key /\ None \notin Attempt /\ Attempt \subseteq Key
  <1>1. Node!NoReceipt \in Node!Receipt /\ Node!NoReceipt.confirmed = FALSE
    BY DEF Node!NoReceipt, Node!Receipt, Node!ReceiptState
  <1>2. NoIntent \in Intent /\ NoIntent.cmd = None /\ NoIntent.sent = FALSE
        /\ NoIntent.rcpt.confirmed = FALSE
    BY <1>1 DEF NoIntent, Intent
  <1>3. ASSUME NEW e \in Envelope
        PROVE  /\ [NoIntent EXCEPT !.cmd = e] \in Intent
               /\ [NoIntent EXCEPT !.cmd = e].cmd = e
               /\ [NoIntent EXCEPT !.cmd = e].sent = FALSE
               /\ [NoIntent EXCEPT !.cmd = e].rcpt.confirmed = FALSE
    BY <1>1 DEF NoIntent, Intent
  <1>4. \A kind \in Kind, e \in Envelope : [kind |-> kind, cmd |-> e] \in Frame
    BY DEF Frame
  <1>5. None \notin Key /\ None \notin Attempt /\ Attempt \subseteq Key
    BY NodeLinkAssumption
  <1> QED
    BY <1>2, <1>3, <1>4, <1>5

\* What a receipt, a mark or its removal does to an intent.
LEMMA IntentTypes ==
  ASSUME NEW i \in Intent
  PROVE  /\ \A r \in Node!Receipt :
              /\ [i EXCEPT !.rcpt = r] \in Intent /\ [i EXCEPT !.rcpt = r].cmd = i.cmd
              /\ [i EXCEPT !.rcpt = r].sent = i.sent /\ [i EXCEPT !.rcpt = r].rcpt = r
         /\ \A b \in BOOLEAN :
              /\ [i EXCEPT !.sent = b] \in Intent /\ [i EXCEPT !.sent = b].cmd = i.cmd
              /\ [i EXCEPT !.sent = b].sent = b /\ [i EXCEPT !.sent = b].rcpt = i.rcpt
  BY DEF Intent

\* Replies of a well typed node.
LEMMA ReplyTypes ==
  ASSUME TypeOK, NEW m \in outbox
  PROVE  m.key \in Key /\ m.rcpt \in Node!Receipt
  BY DEF TypeOK, Node!TypeOK, Node!Reply

\* Sending a frame, taking one and taking one back keep the socket's frames.
LEMMA WireTypes ==
  ASSUME TypeOK
  PROVE  /\ \A kind \in Kind, e \in Envelope : Transmit(kind, e) => wire' \in Seq(Frame)
         /\ wire # <<>> => /\ Head(wire) \in Frame /\ Head(wire) = wire[1]
                           /\ Tail(wire) \in Seq(Frame)
         /\ \A k : Retract(k) => wire' \in Seq(Frame)
  <1>w. wire \in Seq(Frame)
    BY DEF TypeOK
  <1>1. ASSUME NEW kind \in Kind, NEW e \in Envelope, Transmit(kind, e) PROVE wire' \in Seq(Frame)
    <2>1. PICK f \in Frame : f = [kind |-> kind, cmd |-> e]
      BY LinkTypes
    <2>2. wire' = wire \/ wire' = Append(wire, f)
      BY <1>1, <2>1 DEF Transmit
    <2> QED
      BY <1>w, <2>2, AppendProperties
  <1>2. ASSUME wire # <<>> PROVE Head(wire) \in Frame /\ Head(wire) = wire[1] /\ Tail(wire) \in Seq(Frame)
    BY <1>2, <1>w, HeadTailProperties
  <1>3. ASSUME NEW k, Retract(k) PROVE wire' \in Seq(Frame)
    <2>1. CASE Queries(k) = {}
      BY <1>3, <1>w, <2>1 DEF Retract
    <2>2. CASE Queries(k) # {}
      <3>1. PICK i \in Queries(k) : wire' = Without(i)
        BY <1>3, <2>2 DEF Retract
      <3>2. i \in 1..Len(wire) /\ Len(wire) \in Nat \ {0}
        BY <1>w, <3>1, LenProperties DEF Queries
      <3>3. \A j \in 1..(Len(wire) - 1) : wire[j] \in Frame /\ wire[j + 1] \in Frame
        BY <1>w, <3>2, ElementOfSeq
      <3>4. Without(i) \in [1..(Len(wire) - 1) -> Frame]
        BY <3>2, <3>3 DEF Without
      <3> QED
        BY <3>1, <3>2, <3>4, SeqDef
    <2> QED
      BY <2>1, <2>2
  <1> QED
    BY <1>1, <1>2, <1>3
-----------------------------------------------------------------------------
(* What the node and the socket keep *)

\* The node keeps what it promises of a key, as in a step that does not deliver its command.
KeepsEffect(k) ==
  /\ Agent!Once(k)'
  /\ Agent!Untouched(k) => Agent!Untouched(k)'
  /\ Agent!Over(k) => Agent!Over(k)'

\* No command of the key is put on the socket.
KeepsFrames(k) ==
  /\ Commands(k) = {} => Commands(k)' = {}
  /\ \A i, j \in Commands(k)' : i = j

KeepsNode == Agent!OutcomeInv' /\ Node!TypeOK' /\ expired \subseteq expired'

Keeps == KeepsNode /\ wire' \in Seq(Frame) /\ \A k \in Key : KeepsEffect(k) /\ KeepsFrames(k)

\* A step of the node in which no command is delivered.
LEMMA WorkKeeps ==
  ASSUME LinkInv, [Agent!Undelivered]_(Agent!vars)
  PROVE  KeepsNode /\ \A k \in Key : KeepsEffect(k)
  <1>1. Agent!OutcomeInv'
    BY NodeLinkAssumption, Agent!StepKinds, Agent!OutcomeStep DEF LinkInv
  <1>2. Node!TypeOK'
    BY <1>1, SameNode DEF Agent!OutcomeInv, Agent!Inv
  <1>3. expired \subseteq expired'
    BY NodeLinkAssumption, Agent!StepKinds, Agent!EffectStep
       DEF LinkInv, Agent!OutcomeInv, Agent!Inv
  <1>4. ASSUME NEW k \in Key
        PROVE  /\ Agent!Once(k)'
               /\ Agent!Untouched(k) => Agent!Untouched(k)'
               /\ Agent!Over(k) => Agent!Over(k)'
    BY <1>4, NodeLinkAssumption, Agent!UndeliveredOnce DEF LinkInv, DeliveryInv
  <1> QED
    BY <1>1, <1>2, <1>3, <1>4 DEF KeepsNode, KeepsEffect

\* The gateway at most takes replies off the socket.
LEMMA QuietKeeps ==
  ASSUME LinkInv, outbox' \subseteq outbox, UNCHANGED nodeButOutbox
  PROVE  KeepsNode /\ \A k \in Key : KeepsEffect(k)
  <1>1. Agent!TakeReplies
    BY DEF Agent!TakeReplies, nodeButOutbox, Agent!socket, Agent!effects, Agent!former
  <1> QED
    BY <1>1, WorkKeeps DEF Agent!Undelivered

\* The socket stays as it is, takes another frame, loses its first one or a query.
LEMMA WireKeeps ==
  ASSUME LinkInv,
         \/ wire' = wire \/ wire' = <<>>
         \/ \E kind \in Kind \ {"command"}, e \in Envelope : Transmit(kind, e)
         \/ wire # <<>> /\ wire' = Tail(wire)
         \/ \E k : Retract(k)
  PROVE  wire' \in Seq(Frame) /\ \A k \in Key : KeepsFrames(k)
  <1> DEFINE Framed == wire' \in Seq(Frame) /\ \A k \in Key : KeepsFrames(k)
  <1>w. wire \in Seq(Frame) /\ Len(wire) \in Nat
    BY LenProperties DEF LinkInv, TypeOK
  <1>u. \A k \in Key : \A i, j \in Commands(k) : i = j
    BY DEF LinkInv, DeliveryInv
  <1>1. CASE wire' = wire
    BY <1>1, <1>u, <1>w DEF KeepsFrames, Commands
  <1>2. CASE wire' = <<>>
    BY <1>2 DEF KeepsFrames, Commands
  <1>3. ASSUME NEW kind \in Kind \ {"command"}, NEW e \in Envelope, Transmit(kind, e)
        PROVE  Framed
    <2>1. PICK f \in Frame : f = [kind |-> kind, cmd |-> e] /\ f.kind # "command"
      BY LinkTypes
    <2>2. CASE wire' = Append(wire, f)
      <3>1. /\ wire' \in Seq(Frame) /\ Len(wire') = Len(wire) + 1
            /\ \A i \in 1..Len(wire) : wire'[i] = wire[i]
            /\ wire'[Len(wire) + 1] = f
        BY <1>w, <2>2, AppendProperties
      <3>2. \A k : Commands(k)' = Commands(k)
        BY <1>w, <2>1, <3>1 DEF Commands
      <3> QED
        BY <1>u, <3>1, <3>2 DEF KeepsFrames
    <2> QED
      BY <1>1, <1>3, <2>1, <2>2 DEF Transmit
  <1>4. CASE wire # <<>> /\ wire' = Tail(wire)
    <2>1. /\ wire' \in Seq(Frame) /\ Len(wire') = Len(wire) - 1 /\ Len(wire) \in Nat \ {0}
          /\ \A i \in 1..Len(wire') : wire'[i] = wire[i + 1]
      BY <1>w, <1>4, HeadTailProperties, EmptySeq
    <2>2. ASSUME NEW k \in Key, NEW i \in Commands(k)' PROVE i + 1 \in Commands(k)
      BY <2>1, <2>2 DEF Commands
    <2>3. ASSUME NEW k \in Key, NEW i \in Commands(k)', NEW j \in Commands(k)' PROVE i = j
      <3>1. i + 1 = j + 1
        BY <1>u, <2>2, <2>3
      <3> QED
        BY <3>1, <2>1, <2>3 DEF Commands
    <2> QED
      BY <2>1, <2>2, <2>3 DEF KeepsFrames
  <1>5. ASSUME NEW q, Retract(q) PROVE Framed
    <2>0. wire' \in Seq(Frame)
      BY <1>5, WireTypes DEF LinkInv
    <2>1. CASE Queries(q) # {}
      <3>1. PICK n \in 1..Len(wire) : wire' = Without(n)
        BY <1>5, <2>1 DEF Retract, Queries
      <3>2. /\ Len(wire') = Len(wire) - 1
            /\ \A i \in 1..Len(wire') : wire'[i] = IF i < n THEN wire[i] ELSE wire[i + 1]
        BY <1>w, <3>1 DEF Without
      <3> DEFINE at(i) == IF i < n THEN i ELSE i + 1
      <3>3. ASSUME NEW k \in Key, NEW i \in Commands(k)' PROVE at(i) \in Commands(k)
        BY <1>w, <3>2, <3>3 DEF Commands
      <3>4. ASSUME NEW k \in Key, NEW i \in Commands(k)', NEW j \in Commands(k)' PROVE i = j
        <4>1. at(i) = at(j)
          BY <1>u, <3>3, <3>4
        <4> QED
          BY <4>1, <1>w, <3>2, <3>4 DEF Commands
      <3> QED
        BY <2>0, <3>3, <3>4 DEF KeepsFrames
    <2> QED
      BY <1>1, <1>5, <2>1 DEF Retract
  <1> QED
    BY <1>1, <1>2, <1>3, <1>4, <1>5

-----------------------------------------------------------------------------
(* One key *)

\* What a step has to keep of a key for its command to be delivered once.
LEMMA DeliveryKept ==
  ASSUME expired \subseteq expired', NEW k \in Key, KeepsEffect(k), KeepsFrames(k), DeliveryInv(k),
         Uncertain(k) => Uncertain(k)' \/ (Agent!Over(k)' /\ Commands(k)' = {}),
         inv'[k] \in {"sent", "refusing"} => Commands(k)' = {},
         ~intent'[k].sent \/ inv'[k] \in {"sent", "refusing"}
           => Forgotten(k)' \/ Agent!Untouched(k)'
  PROVE  DeliveryInv(k)'
  BY DEF DeliveryInv, KeepsEffect, KeepsFrames

\* The key's invocation stays, ends or goes on; one that begins to be refused is untouched.
GoesOn(k) ==
  \/ inv'[k] \in {inv[k], "none"}
  \/ /\ inv[k] # "none" /\ inv'[k] \notin {"sent", "refusing"}
     /\ inv'[k] \in {"waiting", "cancelling", "querying"} => Uncertain(k)
  \/ /\ inv[k] # "none" /\ inv'[k] = "refusing" /\ Uncertain(k)
     /\ Commands(k) = {} /\ Agent!Untouched(k)'

\* A key whose intent stays.
LEMMA IntentKept ==
  ASSUME expired \subseteq expired', NEW k \in Key, KeepsEffect(k), KeepsFrames(k),
         DeliveryInv(k), IntentInv(k), intent'[k] = intent[k], GoesOn(k)
  PROVE  DeliveryInv(k)' /\ IntentInv(k)'
  <1>1. Uncertain(k)' = Uncertain(k) /\ (Forgotten(k) => Forgotten(k)')
    BY DEF Uncertain, Forgotten
  <1>2. IntentInv(k)'
    BY <1>1 DEF IntentInv, GoesOn
  <1>3. inv'[k] \in {"sent", "refusing"} =>
          inv[k] = inv'[k] \/ (Commands(k) = {} /\ Agent!Untouched(k)')
    BY DEF GoesOn
  <1> QED
    BY <1>1, <1>2, <1>3, DeliveryKept DEF DeliveryInv, KeepsEffect, KeepsFrames

\* Steps in which every key keeps its intent.
LEMMA StepKept ==
  ASSUME LinkInv, Keeps, intent' = intent, inv' \in [Key -> Phase],
         ref' \in Attempt \cup {None}, att' \in AttemptPhase, made' \subseteq Attempt,
         online' \in BOOLEAN, lease' \in [Resource -> Lease], spent' \subseteq Lease,
         AttemptInv', \A k \in Key : GoesOn(k)
  PROVE  LinkInv'
  <1>1. TypeOK'
    BY DEF LinkInv, TypeOK, Keeps, KeepsNode
  <1>2. ASSUME NEW k \in Key PROVE DeliveryInv(k)' /\ IntentInv(k)'
    BY <1>2, IntentKept DEF LinkInv, Keeps, KeepsNode
  <1> QED
    BY <1>1, <1>2 DEF LinkInv, Keeps, KeepsNode

\* Steps in which one key's intent may change.
LEMMA KeyKept ==
  ASSUME LinkInv, Keeps, NEW k \in Key, intent' \in [Key -> Intent], inv' \in [Key -> Phase],
         att' \in AttemptPhase, UNCHANGED <<ref, made, domain, online>>, AttemptInv',
         \A j \in Key \ {k} : intent'[j] = intent[j] /\ inv'[j] = inv[j],
         DeliveryInv(k)', IntentInv(k)'
  PROVE  LinkInv'
  <1>1. TypeOK'
    BY DEF LinkInv, TypeOK, Keeps, KeepsNode, domain
  <1>2. ASSUME NEW j \in Key \ {k} PROVE DeliveryInv(j)' /\ IntentInv(j)'
    BY <1>2, IntentKept DEF LinkInv, Keeps, KeepsNode, GoesOn
  <1> QED
    BY <1>1, <1>2 DEF LinkInv, Keeps, KeepsNode

\* An invocation, and an uncertain key, has a command of that key.
LEMMA CommandKnown ==
  ASSUME LinkInv, NEW k \in Key, inv[k] # "none" \/ intent[k].sent
  PROVE  intent[k].cmd \in Envelope /\ KeyOf[intent[k].cmd] = k /\ intent[k] \in Intent
  <1>1. intent[k] \in Intent
    BY DEF LinkInv, TypeOK
  <1>2. intent[k].cmd # None
    BY LinkTypes DEF LinkInv, IntentInv
  <1> QED
    BY <1>1, <1>2 DEF LinkInv, IntentInv, Intent

\* Nothing runs, nor can run, of a key that is untouched.
LEMMA UntouchedIsOver ==
  ASSUME LinkInv, NEW k \in Key, Agent!Untouched(k)
  PROVE  Agent!Over(k)
  BY DEF LinkInv, DeliveryInv, Agent!Untouched, Agent!Over, Agent!Once, Agent!BeforeStart

-----------------------------------------------------------------------------
(* Steps of an invocation *)

\* The gateway's own steps take nothing from the node but replies.
LEMMA GatewayKeeps ==
  ASSUME LinkInv, outbox' \subseteq outbox, UNCHANGED nodeButOutbox,
         \/ wire' = wire
         \/ \E kind \in Kind \ {"command"}, e \in Envelope : Transmit(kind, e)
         \/ \E k : Retract(k)
  PROVE  Keeps
  BY QuietKeeps, WireKeeps DEF Keeps

\* An invocation that throws leaves its attempt idle.
LEMMA ThrowKept ==
  ASSUME LinkInv, NEW k \in Key, NEW b \in {"idle", "returned"},
         inv' = [inv EXCEPT ![k] = "none"], EndsAttempt(k, b),
         ref' = ref, \A j \in Key : Uncertain(j)' => Uncertain(j),
         \A j \in Key \ {k} : Uncertain(j)' = Uncertain(j),
         inv[k] # "none" \/ Uncertain(k)' = Uncertain(k), b = "returned" => ~Uncertain(k)'
  PROVE  AttemptInv' /\ att' \in AttemptPhase /\ inv' \in [Key -> Phase]
  <1>1. att' \in AttemptPhase /\ inv' \in [Key -> Phase]
    BY DEF LinkInv, TypeOK, EndsAttempt, AttemptPhase, Phase
  <1>2. inv'[k] = "none" /\ \A j \in Key \ {k} : inv'[j] = inv[j]
    BY DEF LinkInv, TypeOK
  <1>3. ref = None \/ (ref \in Attempt /\ ref \in Key)
    BY LinkTypes DEF LinkInv, TypeOK
  <1> QED
    BY <1>1, <1>2, <1>3, LinkTypes DEF LinkInv, AttemptInv, EndsAttempt

\* A request goes out, or the invocation gives up.
LEMMA InvocationKept ==
  ASSUME LinkInv, NEW k \in Key,
         \/ Authorize(k) \/ Abort(k) \/ NotDispatched(k)
         \/ GiveUp(k) \/ GiveUpQuery(k) \/ OutcomeUnreleased(k)
  PROVE  LinkInv'
  <1>1. Keeps
    <2>1. CASE Authorize(k) \/ Abort(k) \/ NotDispatched(k)
      <3>1. intent[k].cmd \in Envelope
        BY <2>1, CommandKnown DEF Authorize, Abort, NotDispatched
      <3>2. \E kind \in Kind \ {"command"}, e \in Envelope : Transmit(kind, e)
        BY <2>1, <3>1 DEF Authorize, Abort, NotDispatched, Refused, Request, Kind
      <3> QED
        BY <2>1, <3>2, GatewayKeeps DEF Authorize, Abort, NotDispatched, node, nodeButOutbox
    <2>2. CASE GiveUp(k) \/ OutcomeUnreleased(k)
      BY <2>2, GatewayKeeps DEF GiveUp, OutcomeUnreleased, node, nodeButOutbox
    <2>3. CASE GiveUpQuery(k)
      BY <2>3, GatewayKeeps DEF GiveUpQuery, Retract
    <2> QED
      BY <2>1, <2>2, <2>3
  <1>2. intent' = intent /\ UNCHANGED <<ref, made, domain, online>>
    BY DEF Authorize, Abort, NotDispatched, GiveUp, GiveUpQuery, OutcomeUnreleased
  <1>u. \A j : Uncertain(j)' = Uncertain(j)
    BY <1>2 DEF Uncertain
  <1>3. AttemptInv' /\ att' \in AttemptPhase /\ inv' \in [Key -> Phase]
    <2>1. CASE Authorize(k) \/ Abort(k) \/ NotDispatched(k)
      <3>1. /\ att' = att /\ inv[k] # "none"
            /\ \E p \in Phase : inv' = [inv EXCEPT ![k] = p]
        BY <2>1 DEF Authorize, Abort, NotDispatched, Refused, Phase
      <3> QED
        BY <1>2, <1>u, <3>1, LinkTypes DEF LinkInv, TypeOK, AttemptInv
    <2>2. CASE GiveUp(k) \/ GiveUpQuery(k)
      BY <1>2, <1>u, <2>2, ThrowKept DEF GiveUp, GiveUpQuery, Throw
    <2>3. CASE OutcomeUnreleased(k)
      BY <1>2, <1>u, <2>3, ThrowKept DEF OutcomeUnreleased, EndRelease, Uncertain
    <2> QED
      BY <2>1, <2>2, <2>3
  <1>4. \A j \in Key \ {k} : inv'[j] = inv[j]
    BY DEF LinkInv, TypeOK, Authorize, Abort, NotDispatched, Refused, GiveUp, GiveUpQuery,
           OutcomeUnreleased, Throw, EndRelease
  <1>5. GoesOn(k)
    <2>1. CASE Authorize(k) \/ Abort(k)
      BY <2>1 DEF LinkInv, TypeOK, IntentInv, Authorize, Abort, GoesOn
    <2>2. CASE NotDispatched(k)
      <3>1. inv[k] = "sent" /\ inv'[k] = "refusing"
        BY <2>2 DEF LinkInv, TypeOK, NotDispatched, Refused
      <3>2. Uncertain(k) /\ Commands(k) = {} /\ Agent!Untouched(k)
        BY <3>1, LinkTypes DEF LinkInv, IntentInv, DeliveryInv, Forgotten
      <3> QED
        BY <1>1, <3>1, <3>2 DEF GoesOn, Keeps, KeepsEffect
    <2>3. CASE GiveUp(k) \/ GiveUpQuery(k) \/ OutcomeUnreleased(k)
      BY <2>3 DEF LinkInv, TypeOK, GiveUp, GiveUpQuery, OutcomeUnreleased, Throw, EndRelease, GoesOn
    <2> QED
      BY <2>1, <2>2, <2>3
  <1>6. /\ ref' \in Attempt \cup {None} /\ made' \subseteq Attempt /\ online' \in BOOLEAN
        /\ lease' \in [Resource -> Lease] /\ spent' \subseteq Lease
    BY <1>2 DEF LinkInv, TypeOK, domain
  <1> QED
    BY <1>1, <1>2, <1>3, <1>4, <1>5, <1>6, StepKept DEF GoesOn

\* A refusal that was given back: the key is unsent again.
LEMMA RefusalKept ==
  ASSUME LinkInv, Keeps, NEW k \in Key, inv[k] = "refusing", EndRefusal(k),
         UNCHANGED <<ref, made, domain, online>>
  PROVE  LinkInv'
  <1>1. /\ intent[k] \in Intent /\ intent[k].cmd \in Envelope /\ KeyOf[intent[k].cmd] = k
        /\ Uncertain(k) /\ Commands(k) = {} /\ Agent!Untouched(k) /\ Agent!Over(k)
    <2>1. intent[k] \in Intent /\ intent[k].cmd \in Envelope /\ KeyOf[intent[k].cmd] = k
      BY CommandKnown
    <2>2. Uncertain(k) /\ Commands(k) = {} /\ Agent!Untouched(k)
      BY <2>1, LinkTypes, NodeLinkAssumption DEF LinkInv, IntentInv, DeliveryInv, Forgotten
    <2> QED
      BY <2>1, <2>2, UntouchedIsOver
  <1>2. /\ intent' \in [Key -> Intent] /\ intent'[k] \in Intent
        /\ intent'[k].cmd = intent[k].cmd /\ intent'[k].rcpt = intent[k].rcpt
        /\ intent'[k].sent = FALSE
        /\ \A j \in Key \ {k} : intent'[j] = intent[j]
    <2>1. PICK new : new = [intent[k] EXCEPT !.sent = FALSE]
      OBVIOUS
    <2>2. /\ new \in Intent /\ new.cmd = intent[k].cmd /\ new.rcpt = intent[k].rcpt
          /\ new.sent = FALSE
      BY <1>1, <2>1, IntentTypes
    <2>3. intent' = [intent EXCEPT ![k] = new]
      BY <2>1 DEF EndRefusal
    <2> QED
      BY <2>2, <2>3 DEF LinkInv, TypeOK
  <1>3. inv'[k] = "none" /\ \A j \in Key \ {k} : inv'[j] = inv[j]
    BY DEF LinkInv, TypeOK, EndRefusal, Throw
  <1>4. ~Uncertain(k)' /\ \A j \in Key \ {k} : Uncertain(j)' = Uncertain(j)
    BY <1>2 DEF Uncertain
  <1>5. AttemptInv' /\ att' \in AttemptPhase /\ inv' \in [Key -> Phase]
    BY <1>4, ThrowKept DEF EndRefusal, Throw
  <1>6. /\ Agent!Once(k)' /\ Agent!Untouched(k)' /\ Agent!Over(k)' /\ Commands(k)' = {}
        /\ \A i, j \in Commands(k)' : i = j
    BY <1>1 DEF Keeps, KeepsEffect, KeepsFrames
  <1>7. DeliveryInv(k)'
    BY <1>3, <1>6 DEF DeliveryInv
  <1>8. IntentInv(k)'
    BY <1>1, <1>2, <1>3, <1>4, NodeLinkAssumption DEF IntentInv, Uncertain
  <1> QED
    BY <1>2, <1>3, <1>5, <1>7, <1>8, KeyKept

\* A refusal that could not release its lease leaves the invariant as it is.
LEMMA RefusalUnreleasedKept ==
  ASSUME LinkInv, NEW k \in Key, RefusalUnreleased(k)
  PROVE  LinkInv'
  <1>1. Keeps
    BY GatewayKeeps DEF RefusalUnreleased, node, nodeButOutbox
  <1> QED
    BY <1>1, RefusalKept DEF RefusalUnreleased

\* With authority bound, an intent is settled, asked for, or marked as sent.
LEMMA ResolveKept ==
  ASSUME LinkInv, NEW k \in Key, Resolve(k)
  PROVE  LinkInv'
  <1>1. /\ intent[k] \in Intent /\ intent[k].cmd \in Envelope /\ KeyOf[intent[k].cmd] = k
        /\ inv[k] = "authorized"
    BY CommandKnown DEF Resolve
  <1>2. Keeps
    <2>1. outbox' = outbox /\ UNCHANGED nodeButOutbox
      BY DEF Resolve, node, nodeButOutbox
    <2>2. wire' = wire \/ \E kind \in Kind \ {"command"}, e \in Envelope : Transmit(kind, e)
      BY <1>1 DEF Resolve, Request, Kind
    <2> QED
      BY <2>1, <2>2, GatewayKeeps
  <1>3. \A j \in Key \ {k} : inv'[j] = inv[j]
    BY DEF LinkInv, TypeOK, Resolve, Conclude, Throw
  <1>4. UNCHANGED <<ref, made, domain, online>>
    BY DEF Resolve
  <1>5. CASE intent[k].rcpt.confirmed \/ Uncertain(k)
    <2>1. intent' = intent /\ att' = att /\ \E p \in {"recorded", "querying"} : inv' = [inv EXCEPT ![k] = p]
      <3>1. CASE intent[k].rcpt.confirmed /\ Conclude(k, intent[k].rcpt)
        <4>1. [intent[k] EXCEPT !.rcpt = intent[k].rcpt] = intent[k]
          BY <1>1 DEF Intent
        <4>2. intent' = intent
          BY <3>1, <4>1 DEF Conclude, LinkInv, TypeOK
        <4> QED
          BY <3>1, <4>2 DEF Conclude
      <3> QED
        BY <1>5, <3>1 DEF Resolve, Uncertain, LinkInv, IntentInv
    <2>2. /\ inv' \in [Key -> Phase] /\ inv'[k] \in {"recorded", "querying"}
          /\ inv'[k] = "querying" => Uncertain(k)
      BY <1>5, <2>1 DEF LinkInv, TypeOK, Phase, Resolve, Conclude, Throw
    <2>3. AttemptInv'
      BY <1>1, <1>3, <1>4, <2>1, <2>2 DEF LinkInv, AttemptInv, Uncertain
    <2>4. \A j \in Key : GoesOn(j)
      BY <1>1, <1>3, <2>2 DEF GoesOn
    <2>5. /\ ref' \in Attempt \cup {None} /\ made' \subseteq Attempt /\ online' \in BOOLEAN
          /\ lease' \in [Resource -> Lease] /\ spent' \subseteq Lease /\ att' \in AttemptPhase
      BY <1>4, <2>1 DEF LinkInv, TypeOK, domain
    <2> QED
      BY <1>2, <2>1, <2>2, <2>3, <2>4, <2>5, StepKept
  <1>6. CASE ~intent[k].sent /\ ~intent[k].rcpt.confirmed
    <2>1. intent' = [intent EXCEPT ![k].sent = TRUE] /\ inv' = [inv EXCEPT ![k] = "sent"] /\ att' = att
      BY <1>6 DEF Resolve, Uncertain
    <2>2. /\ intent' \in [Key -> Intent] /\ intent'[k].cmd = intent[k].cmd
          /\ intent'[k].rcpt = intent[k].rcpt /\ intent'[k].sent = TRUE
          /\ \A j \in Key \ {k} : intent'[j] = intent[j]
      <3>1. PICK new : new = [intent[k] EXCEPT !.sent = TRUE]
        OBVIOUS
      <3>2. /\ new \in Intent /\ new.cmd = intent[k].cmd /\ new.rcpt = intent[k].rcpt
            /\ new.sent = TRUE
        BY <1>1, <3>1, IntentTypes
      <3>3. intent' = [intent EXCEPT ![k] = new]
        BY <2>1, <3>1
      <3> QED
        BY <3>2, <3>3 DEF LinkInv, TypeOK
    <2>3. inv' \in [Key -> Phase] /\ inv'[k] = "sent" /\ att' \in AttemptPhase
      BY <2>1 DEF LinkInv, TypeOK, Phase
    <2>4. Uncertain(k)' /\ ~Uncertain(k) /\ \A j \in Key \ {k} : Uncertain(j)' = Uncertain(j)
      BY <1>6, <2>2 DEF Uncertain
    <2>5. Commands(k) = {} /\ Agent!Untouched(k)
      BY <1>1, <1>6, <2>4, NodeLinkAssumption DEF LinkInv, DeliveryInv, Forgotten
    <2>6. AttemptInv'
      BY <1>1, <1>3, <1>4, <2>1, <2>3, <2>4, LinkTypes DEF LinkInv, TypeOK, AttemptInv
    <2>7. DeliveryInv(k)'
      BY <1>2, <2>4, <2>5, UntouchedIsOver DEF Keeps, KeepsEffect, KeepsFrames, DeliveryInv
    <2>8. IntentInv(k)'
      BY <1>1, <2>2, <2>4, NodeLinkAssumption DEF IntentInv
    <2> QED
      BY <1>2, <1>3, <1>4, <2>2, <2>3, <2>6, <2>7, <2>8, KeyKept
  <1> QED
    BY <1>5, <1>6 DEF Uncertain

\* The command leaves once, for a node that knows nothing of it.
LEMMA DispatchKept ==
  ASSUME LinkInv, NEW k \in Key, Dispatch(k)
  PROVE  LinkInv'
  <1>1. /\ intent[k] \in Intent /\ intent[k].cmd \in Envelope /\ KeyOf[intent[k].cmd] = k
        /\ Uncertain(k) /\ Commands(k) = {} /\ Agent!Untouched(k) /\ inv[k] = "sent"
    <2>1. intent[k] \in Intent /\ intent[k].cmd \in Envelope /\ KeyOf[intent[k].cmd] = k
      BY CommandKnown DEF Dispatch
    <2>2. Uncertain(k) /\ Commands(k) = {} /\ Agent!Untouched(k)
      BY <2>1, NodeLinkAssumption DEF LinkInv, IntentInv, DeliveryInv, Forgotten, Dispatch
    <2> QED
      BY <2>1, <2>2 DEF Dispatch
  <1>2. KeepsNode /\ \A j \in Key : KeepsEffect(j)
    BY QuietKeeps DEF Dispatch, node, nodeButOutbox
  <1>3. /\ wire' \in Seq(Frame) /\ Commands(k)' = {Len(wire) + 1}
        /\ \A j \in Key \ {k} : Commands(j)' = Commands(j)
    <2>1. PICK f \in Frame : /\ f = [kind |-> "command", cmd |-> intent[k].cmd]
                             /\ f.kind = "command" /\ f.cmd = intent[k].cmd
      BY <1>1, LinkTypes DEF Kind
    <2>2. wire \in Seq(Frame) /\ Len(wire) \in Nat /\ wire' = Append(wire, f)
      BY <2>1, LenProperties DEF LinkInv, TypeOK, Dispatch, Request, Transmit
    <2>3. /\ wire' \in Seq(Frame) /\ Len(wire') = Len(wire) + 1
          /\ \A i \in 1..Len(wire) : wire'[i] = wire[i]
          /\ wire'[Len(wire) + 1] = f
      BY <2>2, AppendProperties
    <2>4. \A j \in Key \ {k} : Commands(j)' = Commands(j)
      BY <1>1, <2>1, <2>2, <2>3 DEF Commands
    <2>5. Commands(k)' = {Len(wire) + 1}
      BY <1>1, <2>1, <2>2, <2>3 DEF Commands
    <2> QED
      BY <2>3, <2>4, <2>5
  <1>4. UNCHANGED <<intent, ref, att, made, domain, online>>
    BY DEF Dispatch
  <1>5. inv' \in [Key -> Phase] /\ inv'[k] = "waiting" /\ \A j \in Key \ {k} : inv'[j] = inv[j]
    BY DEF LinkInv, TypeOK, Dispatch, Phase
  <1>6. TypeOK'
    BY <1>2, <1>3, <1>4, <1>5 DEF LinkInv, TypeOK, KeepsNode, domain
  <1>7. AttemptInv'
    <2>1. \A j : Uncertain(j)' = Uncertain(j)
      BY <1>4 DEF Uncertain
    <2> QED
      BY <1>1, <1>4, <1>5, <2>1, LinkTypes DEF LinkInv, AttemptInv
  <1>8. DeliveryInv(k)'
    BY <1>1, <1>2, <1>3, <1>4, <1>5 DEF DeliveryInv, Uncertain, KeepsEffect
  <1>9. IntentInv(k)'
    BY <1>1, <1>4, <1>5 DEF LinkInv, IntentInv, Uncertain
  <1>10. ASSUME NEW j \in Key \ {k} PROVE DeliveryInv(j)' /\ IntentInv(j)'
    <2>1. KeepsFrames(j)
      BY <1>3, <1>10 DEF LinkInv, DeliveryInv, KeepsFrames
    <2>2. GoesOn(j)
      BY <1>5 DEF GoesOn
    <2>3. expired \subseteq expired' /\ KeepsEffect(j) /\ intent'[j] = intent[j]
      BY <1>2, <1>4 DEF KeepsNode
    <2> QED
      BY <2>1, <2>2, <2>3, IntentKept DEF LinkInv
  <1> QED
    BY <1>2, <1>6, <1>7, <1>8, <1>9, <1>10 DEF LinkInv, KeepsNode

\* An outcome the node sent is recorded: a confirmed one ends what the key may do.
LEMMA OutcomeKnown ==
  ASSUME LinkInv, Keeps, NEW k \in Key, Uncertain(k), NEW m \in outbox, m.key = k,
         m.kind = "receipt", intent' = [intent EXCEPT ![k].rcpt = m.rcpt],
         inv'[k] \notin {"sent", "refusing"},
         inv'[k] \in {"waiting", "cancelling", "querying"} => ~m.rcpt.confirmed
  PROVE  /\ intent' \in [Key -> Intent] /\ \A j \in Key \ {k} : intent'[j] = intent[j]
         /\ Uncertain(k)' <=> ~m.rcpt.confirmed
         /\ DeliveryInv(k)' /\ IntentInv(k)'
  <1>1. intent[k] \in Intent /\ intent[k].cmd \in Envelope /\ KeyOf[intent[k].cmd] = k /\ intent[k].sent
    BY CommandKnown DEF Uncertain
  <1>2. /\ intent' \in [Key -> Intent] /\ intent'[k].cmd = intent[k].cmd
        /\ intent'[k].rcpt = m.rcpt /\ intent'[k].sent
        /\ \A j \in Key \ {k} : intent'[j] = intent[j]
    <2>1. PICK new : new = [intent[k] EXCEPT !.rcpt = m.rcpt]
      OBVIOUS
    <2>2. new \in Intent /\ new.cmd = intent[k].cmd /\ new.rcpt = m.rcpt /\ new.sent
      BY <1>1, <2>1, IntentTypes, ReplyTypes DEF LinkInv
    <2>3. intent' = [intent EXCEPT ![k] = new]
      BY <2>1
    <2>4. intent \in [Key -> Intent]
      BY DEF LinkInv, TypeOK
    <2> QED
      BY <2>2, <2>3, <2>4
  <1>3. Uncertain(k)' <=> ~m.rcpt.confirmed
    BY <1>2 DEF Uncertain
  <1>4. Commands(k) = {}
    BY DEF LinkInv, DeliveryInv, Agent!Untouched
  <1>5. m.rcpt.confirmed => Agent!Over(k)
    BY DEF LinkInv, DeliveryInv, Agent!Once, Agent!ConfirmedReply
  <1>6. KeepsEffect(k) /\ KeepsFrames(k) /\ expired \subseteq expired'
    BY DEF Keeps, KeepsNode
  <1>7. DeliveryInv(k)'
    <2>1. DeliveryInv(k)
      BY DEF LinkInv
    <2>2. Uncertain(k)' \/ (Agent!Over(k)' /\ Commands(k)' = {})
      BY <1>3, <1>4, <1>5, <1>6 DEF KeepsEffect, KeepsFrames
    <2> QED
      BY <1>2, <1>6, <2>1, <2>2, DeliveryKept
  <1>8. IntentInv(k)'
    BY <1>1, <1>2, <1>3, NodeLinkAssumption DEF IntentInv
  <1> QED
    BY <1>2, <1>3, <1>7, <1>8

\* Taking a reply leaves the rest of the node alone.
LEMMA TakingKeeps ==
  ASSUME LinkInv, NEW m \in outbox, Took(m), UNCHANGED nodeButOutbox,
         \/ wire' = wire
         \/ \E e \in Envelope : Transmit("release", e)
  PROVE  Keeps
  <1>1. outbox' \subseteq outbox
    BY DEF Took
  <1>2. wire' = wire \/ \E kind \in Kind \ {"command"}, e \in Envelope : Transmit(kind, e)
    BY DEF Kind
  <1> QED
    BY <1>1, <1>2, GatewayKeeps

\* An awaited receipt is stored.
LEMMA ConcludeKept ==
  ASSUME LinkInv, NEW k \in Key, inv[k] \in {"waiting", "cancelling", "querying"},
         NEW m \in outbox, m.key = k, m.kind = "receipt", Took(m), Conclude(k, m.rcpt),
         UNCHANGED <<nodeButOutbox, wire, ref, made, domain, online>>
  PROVE  LinkInv'
  <1>1. Keeps /\ Uncertain(k)
    BY TakingKeeps DEF LinkInv, IntentInv
  <1>2. /\ inv' \in [Key -> Phase] /\ inv'[k] \in {"recorded", "none"}
        /\ \A j \in Key \ {k} : inv'[j] = inv[j]
    BY DEF LinkInv, TypeOK, Conclude, Throw, Phase
  <1>3. intent' = [intent EXCEPT ![k].rcpt = m.rcpt]
    BY DEF Conclude
  <1>4. /\ intent' \in [Key -> Intent] /\ \A j \in Key \ {k} : intent'[j] = intent[j]
        /\ Uncertain(k)' <=> ~m.rcpt.confirmed
        /\ DeliveryInv(k)' /\ IntentInv(k)'
    BY <1>1, <1>2, <1>3, OutcomeKnown
  <1>5. \A j \in Key \ {k} : Uncertain(j)' = Uncertain(j)
    BY <1>4 DEF Uncertain
  <1>6. AttemptInv' /\ att' \in AttemptPhase
    <2>1. CASE Throw(k)
      BY <1>1, <1>5, <2>1, ThrowKept DEF Throw
    <2>2. CASE inv' = [inv EXCEPT ![k] = "recorded"] /\ att' = att
      <3>1. k \in Attempt => att = "invoking" /\ ref = k
        BY DEF LinkInv, AttemptInv
      <3>2. ref = None \/ ref \in Key
        BY LinkTypes DEF LinkInv, TypeOK
      <3> QED
        BY <1>1, <1>2, <1>5, <2>2, <3>1, <3>2, LinkTypes DEF LinkInv, TypeOK, AttemptInv
    <2> QED
      BY <2>1, <2>2 DEF Conclude
  <1> QED
    BY <1>1, <1>2, <1>4, <1>6, KeyKept

\* An awaited answer settles nothing: the call goes on, throws, or is refused.
LEMMA UnsettledKept ==
  ASSUME LinkInv, NEW k \in Key, inv[k] # "none", NEW m \in outbox, m.key = k, Took(m),
         \/ Throw(k) /\ wire' = wire
         \/ UNCHANGED <<inv, att, wire>>
         \/ /\ inv[k] \in {"waiting", "cancelling"} /\ m.kind = "refused"
            /\ Refused(k) /\ UNCHANGED att,
         UNCHANGED <<nodeButOutbox, intent, ref, made, domain, online>>
  PROVE  LinkInv'
  <1>1. Keeps
    BY CommandKnown, TakingKeeps DEF Refused
  <1>u. \A j : Uncertain(j)' = Uncertain(j)
    BY DEF Uncertain
  <1>2. \A j \in Key \ {k} : inv'[j] = inv[j]
    BY DEF LinkInv, TypeOK, Throw, Refused
  <1>3. AttemptInv' /\ att' \in AttemptPhase /\ inv' \in [Key -> Phase]
    <2>1. CASE Throw(k)
      BY <1>u, <2>1, ThrowKept DEF Throw
    <2>2. CASE UNCHANGED <<inv, att>>
      BY <1>u, <2>2 DEF LinkInv, TypeOK, AttemptInv
    <2>3. CASE Refused(k) /\ att' = att
      BY <1>u, <2>3 DEF LinkInv, TypeOK, AttemptInv, Refused, Phase
    <2> QED
      BY <2>1, <2>2, <2>3
  <1>4. GoesOn(k)
    <2>1. CASE Throw(k) \/ inv' = inv
      BY <2>1 DEF LinkInv, TypeOK, Throw, GoesOn
    <2>2. CASE inv[k] \in {"waiting", "cancelling"} /\ m.kind = "refused" /\ Refused(k)
      <3>1. Uncertain(k) /\ inv'[k] = "refusing"
        BY <2>2 DEF LinkInv, TypeOK, IntentInv, Refused
      <3>2. Commands(k) = {}
        BY <2>2 DEF LinkInv, DeliveryInv, Agent!Untouched
      <3>3. Agent!TypeOK /\ Agent!Once(k)
        BY DEF LinkInv, DeliveryInv, Agent!OutcomeInv, Agent!Inv
      <3>4. UNCHANGED <<Agent!socket, held, disk, index, expired, Agent!effects>>
        BY DEF nodeButOutbox, Agent!socket, Agent!effects, Agent!former
      <3>5. Agent!Untouched(k)'
        BY <2>2, <3>3, <3>4, NodeLinkAssumption, Agent!RefusalTaken DEF Took
      <3> QED
        BY <3>1, <3>2, <3>5 DEF GoesOn
    <2> QED
      BY <2>1, <2>2
  <1>5. /\ ref' \in Attempt \cup {None} /\ made' \subseteq Attempt /\ online' \in BOOLEAN
        /\ lease' \in [Resource -> Lease] /\ spent' \subseteq Lease
    BY DEF LinkInv, TypeOK, domain
  <1> QED
    BY <1>1, <1>2, <1>3, <1>4, <1>5, StepKept DEF GoesOn

\* An answer taken off the replies concludes the invocation that waited for it.
LEMMA AnswerKept ==
  ASSUME LinkInv, NEW k \in Key, NEW m \in outbox,
         TakeAnswer(k, m) \/ TakeCancelled(k, m) \/ TakeReceipt(k, m)
  PROVE  LinkInv'
  <1>1. /\ inv[k] \in {"waiting", "cancelling", "querying"} /\ m.key = k /\ Took(m)
        /\ UNCHANGED <<nodeButOutbox, ref, made, domain, online>>
    BY DEF TakeAnswer, TakeCancelled, TakeReceipt
  <1>2. CASE m.kind = "receipt" /\ Conclude(k, m.rcpt) /\ UNCHANGED wire
    BY <1>1, <1>2, ConcludeKept
  <1>3. CASE /\ UNCHANGED intent
             /\ \/ Throw(k) /\ UNCHANGED wire
                \/ UNCHANGED <<inv, att, wire>>
                \/ /\ inv[k] \in {"waiting", "cancelling"} /\ m.kind = "refused"
                   /\ Refused(k) /\ UNCHANGED att
    BY <1>1, <1>3, UnsettledKept
  <1> QED
    BY <1>2, <1>3 DEF TakeAnswer, TakeCancelled, TakeReceipt

\* The predecessor's outcome is stored, and its release asked for once it is over.
LEMMA PredecessorKept ==
  ASSUME LinkInv, NEW m \in outbox, TakePredecessor(m)
  PROVE  LinkInv'
  <1>1. /\ att = "querying" /\ ref \in Attempt /\ ref \in Key /\ Uncertain(ref) /\ m.key = ref
        /\ inv[ref] = "none" /\ \A j \in Attempt : inv[j] = "none"
    BY LinkTypes DEF LinkInv, TypeOK, AttemptInv, TakePredecessor
  <1>2. Took(m) /\ UNCHANGED <<nodeButOutbox, ref, inv, made, domain, online>>
    BY DEF TakePredecessor
  <1>3. intent[ref].cmd \in Envelope
    BY <1>1, CommandKnown DEF Uncertain
  <1>4. Keeps
    BY <1>2, <1>3, TakingKeeps DEF TakePredecessor
  <1>5. att' \in AttemptPhase /\ att' \in {"releasing", "idle"}
    BY DEF TakePredecessor, AttemptPhase
  <1>6. CASE intent' = intent /\ att' = "idle"
    <2>1. AttemptInv'
      BY <1>1, <1>2, <1>6 DEF LinkInv, AttemptInv, Uncertain
    <2>2. \A k \in Key : GoesOn(k)
      BY <1>2 DEF GoesOn
    <2>3. /\ inv' \in [Key -> Phase] /\ ref' \in Attempt \cup {None} /\ made' \subseteq Attempt
          /\ online' \in BOOLEAN /\ lease' \in [Resource -> Lease] /\ spent' \subseteq Lease
      BY <1>2 DEF LinkInv, TypeOK, domain
    <2> QED
      BY <1>4, <1>5, <1>6, <2>1, <2>2, <2>3, StepKept
  <1>7. CASE /\ m.kind = "receipt" /\ intent' = [intent EXCEPT ![ref].rcpt = m.rcpt]
             /\ att' = "releasing" => m.rcpt.confirmed
    <2>1. /\ intent' \in [Key -> Intent] /\ \A j \in Key \ {ref} : intent'[j] = intent[j]
          /\ Uncertain(ref)' <=> ~m.rcpt.confirmed
          /\ DeliveryInv(ref)' /\ IntentInv(ref)'
      BY <1>1, <1>2, <1>4, <1>7, OutcomeKnown
    <2>2. \A j \in Key \ {ref} : Uncertain(j)' = Uncertain(j)
      BY <2>1 DEF Uncertain
    <2>3. AttemptInv'
      BY <1>1, <1>2, <1>5, <1>7, <2>1, <2>2, LinkTypes DEF LinkInv, AttemptInv
    <2>4. inv' \in [Key -> Phase] /\ \A j \in Key \ {ref} : inv'[j] = inv[j]
      BY <1>2 DEF LinkInv, TypeOK
    <2> QED
      BY <1>1, <1>2, <1>4, <1>5, <2>1, <2>3, <2>4, KeyKept
  <1> QED
    BY <1>6, <1>7 DEF TakePredecessor

-----------------------------------------------------------------------------
(* Pruned intents *)

\* What is pruned is past every deadline of its key, so no command of that key runs again.
LEMMA PruneKept ==
  ASSUME LinkInv, Keeps, NEW k \in Key, NEW new \in Intent, Prune(k, new),
         \A j \in Key \ {k} : inv'[j] = inv[j]
  PROVE  /\ intent' \in [Key -> Intent] /\ intent'[k] = new
         /\ \A j \in Key \ {k} : /\ Uncertain(j)' <=> Uncertain(j)
                                 /\ DeliveryInv(j)' /\ IntentInv(j)'
  <1>1. PICK gone \in SUBSET Prunable(k) :
          intent' = [j \in Key |-> IF j = k THEN new ELSE IF j \in gone THEN NoIntent ELSE intent[j]]
    BY DEF Prune
  <1>2. intent' \in [Key -> Intent] /\ intent'[k] = new
    BY <1>1, LinkTypes DEF LinkInv, TypeOK
  <1>3. ASSUME NEW j \in Key \ {k}
        PROVE  (Uncertain(j)' <=> Uncertain(j)) /\ DeliveryInv(j)' /\ IntentInv(j)'
    <2>1. expired \subseteq expired' /\ KeepsEffect(j) /\ KeepsFrames(j) /\ DeliveryInv(j) /\ IntentInv(j)
      BY <1>3 DEF LinkInv, Keeps, KeepsNode
    <2>2. CASE j \notin gone
      <3>1. intent'[j] = intent[j]
        BY <1>1, <1>3, <2>2
      <3> QED
        BY <1>3, <2>1, <3>1, IntentKept DEF GoesOn, Uncertain
    <2>3. CASE j \in gone
      <3>1. /\ intent'[j] = NoIntent /\ inv[j] = "none" /\ inv'[j] = "none"
            /\ intent[j].cmd \in expired /\ intent[j].cmd # None /\ ~Uncertain(j)
        BY <1>1, <1>3, <2>3 DEF Prunable
      <3>2. \A e \in Envelope : KeyOf[e] = j => e \in expired
        <4>1. KeyOf[intent[j].cmd] = j /\ j \in BoundKey
          BY <1>3, <2>1, <3>1, NodeLinkAssumption DEF IntentInv
        <4>2. expired \subseteq Envelope /\ Agent!DeadlinesTogether
          BY DEF LinkInv, Agent!OutcomeInv, Agent!Inv, Agent!TypeOK
        <4> QED
          BY <3>1, <4>1, <4>2 DEF Agent!DeadlinesTogether
      <3>3. Forgotten(j)' /\ ~Uncertain(j)'
        BY <2>1, <3>1, <3>2, LinkTypes DEF Forgotten, Uncertain
      <3>4. DeliveryInv(j)'
        BY <1>3, <2>1, <3>1, <3>3, DeliveryKept
      <3>5. IntentInv(j)'
        BY <3>1, LinkTypes DEF IntentInv
      <3> QED
        BY <3>1, <3>3, <3>4, <3>5
    <2> QED
      BY <2>2, <2>3
  <1> QED
    BY <1>2, <1>3

\* An outcome is tidied up: old intents go, the release is asked for.
LEMMA TidyKept ==
  ASSUME LinkInv, NEW k \in Key, Tidy(k)
  PROVE  LinkInv'
  <1>1. intent[k].cmd \in Envelope /\ intent[k] \in Intent /\ inv[k] = "recorded"
    BY CommandKnown DEF Tidy
  <1>2. Keeps
    <2>1. \E kind \in Kind \ {"command"}, e \in Envelope : Transmit(kind, e)
      BY <1>1 DEF Tidy, Kind
    <2> QED
      BY <2>1, GatewayKeeps DEF Tidy, node, nodeButOutbox
  <1>3. inv' \in [Key -> Phase] /\ inv'[k] = "releasing" /\ \A j \in Key \ {k} : inv'[j] = inv[j]
    BY DEF LinkInv, TypeOK, Tidy, Phase
  <1>4. /\ intent' \in [Key -> Intent] /\ intent'[k] = intent[k]
        /\ \A j \in Key \ {k} : (Uncertain(j)' <=> Uncertain(j)) /\ DeliveryInv(j)' /\ IntentInv(j)'
    BY <1>1, <1>2, <1>3, PruneKept DEF Tidy
  <1>5. DeliveryInv(k)' /\ IntentInv(k)'
    BY <1>1, <1>2, <1>3, <1>4, IntentKept DEF LinkInv, Keeps, KeepsNode, GoesOn
  <1>6. UNCHANGED <<ref, att, made, domain, online>>
    BY DEF Tidy
  <1>7. TypeOK'
    BY <1>2, <1>3, <1>4, <1>6 DEF LinkInv, TypeOK, Keeps, KeepsNode, domain
  <1>8. AttemptInv'
    <2>1. \A j \in Key : Uncertain(j)' <=> Uncertain(j)
      BY <1>4 DEF Uncertain
    <2>2. ref = None \/ ref \in Key
      BY LinkTypes DEF LinkInv, TypeOK
    <2> QED
      BY <1>1, <1>3, <1>6, <2>1, <2>2, LinkTypes DEF LinkInv, AttemptInv
  <1> QED
    BY <1>2, <1>4, <1>5, <1>7, <1>8 DEF LinkInv, Keeps, KeepsNode

\* An intent is read, or made for a key whose deadline has not passed.
LEMMA InvokeKept ==
  ASSUME LinkInv, NEW e \in Envelope, Invoke(e)
  PROVE  LinkInv'
  <1>1. PICK k \in Key : k = KeyOf[e]
    BY NodeLinkAssumption
  <1>2. Keeps
    BY GatewayKeeps DEF Invoke, node, nodeButOutbox
  <1>3. /\ inv[k] = "none" /\ inv' \in [Key -> Phase] /\ inv'[k] = "intended"
        /\ \A j \in Key \ {k} : inv'[j] = inv[j]
    BY <1>1 DEF LinkInv, TypeOK, Invoke, Phase
  <1>4. /\ k \in Attempt => att = "named" /\ ref = k
        /\ att' = IF k \in Attempt THEN "invoking" ELSE att
        /\ UNCHANGED <<ref, made, domain, online>>
    BY <1>1 DEF Invoke
  <1>5. att' \in AttemptPhase
    BY <1>4 DEF LinkInv, TypeOK, AttemptPhase
  <1>6. ASSUME intent' \in [Key -> Intent],
               \A j \in Key : (Uncertain(j)' <=> Uncertain(j)) /\ DeliveryInv(j)' /\ IntentInv(j)'
        PROVE  LinkInv'
    <2>1. TypeOK'
      BY <1>2, <1>3, <1>4, <1>5, <1>6 DEF LinkInv, TypeOK, Keeps, KeepsNode, domain
    <2>2. ref = None \/ ref \in Key
      BY LinkTypes DEF LinkInv, TypeOK
    <2>3. AttemptInv'
      BY <1>3, <1>4, <1>6, <2>2, LinkTypes DEF LinkInv, AttemptInv
    <2> QED
      BY <1>2, <1>6, <2>1, <2>3 DEF LinkInv, Keeps, KeepsNode
  <1>7. CASE intent[k].cmd = e /\ UNCHANGED intent
    <2>1. ASSUME NEW j \in Key \ {k} PROVE DeliveryInv(j)' /\ IntentInv(j)'
      BY <1>2, <1>3, <1>7, <2>1, IntentKept DEF LinkInv, Keeps, KeepsNode, GoesOn
    <2>2. \A j : Uncertain(j)' <=> Uncertain(j)
      BY <1>7 DEF Uncertain
    <2>3. IntentInv(k)'
      BY <1>3, <1>7, <2>2, NodeLinkAssumption DEF LinkInv, IntentInv
    <2>4. Forgotten(k) => Forgotten(k)'
      BY <1>2, <1>7 DEF Forgotten, Keeps, KeepsNode
    <2>5. DeliveryInv(k)'
      BY <1>2, <1>3, <1>7, <2>2, <2>4, DeliveryKept
         DEF LinkInv, Keeps, KeepsNode, DeliveryInv, KeepsEffect
    <2> QED
      BY <1>6, <1>7, <2>1, <2>2, <2>3, <2>5 DEF LinkInv, TypeOK
  <1>8. CASE intent[k].cmd = None /\ e \notin expired /\ Prune(k, [NoIntent EXCEPT !.cmd = e])
    <2>1. PICK new \in Intent : /\ new = [NoIntent EXCEPT !.cmd = e]
                                /\ new.cmd = e /\ new.sent = FALSE /\ new.rcpt.confirmed = FALSE
      BY LinkTypes
    <2>2. /\ intent' \in [Key -> Intent] /\ intent'[k] = new
          /\ \A j \in Key \ {k} : (Uncertain(j)' <=> Uncertain(j)) /\ DeliveryInv(j)' /\ IntentInv(j)'
      BY <1>2, <1>3, <1>8, <2>1, PruneKept
    <2>3. intent[k].sent = FALSE /\ ~Uncertain(k) /\ ~Uncertain(k)'
      BY <1>8, <2>1, <2>2, LinkTypes DEF LinkInv, IntentInv, Uncertain
    <2>4. Agent!Untouched(k) /\ Agent!Over(k) /\ Commands(k) = {}
      BY <1>1, <1>8, <2>3, UntouchedIsOver DEF LinkInv, DeliveryInv, Forgotten
    <2>5. DeliveryInv(k)'
      BY <1>2, <2>3, <2>4 DEF DeliveryInv, Keeps, KeepsEffect, KeepsFrames
    <2>6. IntentInv(k)'
      BY <1>1, <1>3, <2>1, <2>2, NodeLinkAssumption DEF IntentInv
    <2> QED
      BY <1>6, <2>2, <2>3, <2>5, <2>6
  <1> QED
    BY <1>1, <1>7, <1>8 DEF Invoke

-----------------------------------------------------------------------------
(* Steps of the attempts and of the gateway *)

\* What changes no intent and no invocation.
LEMMA AttemptKept ==
  ASSUME LinkInv,
         \/ BeginAttempt \/ Reconcile \/ ReconcileQuery \/ AttemptGivesUp \/ Unlink \/ GatewayLeaves
         \/ \E k \in Key : Name(k)
         \/ \E r \in Resource, l \in Lease : NextLease(r, l)
  PROVE  LinkInv'
  <1>1. intent' = intent /\ inv' = inv
    BY DEF BeginAttempt, Reconcile, ReconcileQuery, AttemptGivesUp, Unlink, GatewayLeaves, Name,
           NextLease, gateway
  <1>2. Keeps
    <2>1. outbox' \subseteq outbox /\ UNCHANGED nodeButOutbox
      BY DEF BeginAttempt, Reconcile, ReconcileQuery, AttemptGivesUp, Unlink, GatewayLeaves, Name,
             NextLease, Retract, node, nodeButOutbox
    <2>2. CASE Reconcile \/ ReconcileQuery
      <3>1. ref \in Key /\ Uncertain(ref)
        BY <2>2, LinkTypes DEF LinkInv, TypeOK, AttemptInv, Reconcile, ReconcileQuery
      <3>2. intent[ref].cmd \in Envelope
        BY <3>1, CommandKnown DEF Uncertain
      <3>3. \E kind \in Kind \ {"command"}, e \in Envelope : Transmit(kind, e)
        BY <2>2, <3>2 DEF Reconcile, ReconcileQuery, Request, Kind
      <3> QED
        BY <2>1, <3>3, GatewayKeeps
    <2>3. CASE wire' = wire \/ \E k : Retract(k)
      BY <2>1, <2>3, GatewayKeeps
    <2> QED
      BY <2>2, <2>3 DEF BeginAttempt, AttemptGivesUp, Unlink, GatewayLeaves, Name, NextLease, gateway
  <1>3. /\ ref' \in Attempt \cup {None} /\ att' \in AttemptPhase /\ made' \subseteq Attempt
        /\ online' \in BOOLEAN /\ lease' \in [Resource -> Lease] /\ spent' \subseteq Lease
    BY DEF LinkInv, TypeOK, AttemptPhase, BeginAttempt, Reconcile, ReconcileQuery, AttemptGivesUp,
           Unlink, GatewayLeaves, Name, Fresh, NextLease, gateway, domain
  <1>4. AttemptInv'
    <2>1. \A j : Uncertain(j)' <=> Uncertain(j)
      BY <1>1 DEF Uncertain
    <2>2. CASE \E k \in Key : Name(k)
      <3>1. PICK k \in Key : Name(k)
        BY <2>2
      <3>2. /\ k \in Attempt /\ ref' = k /\ att' = "named"
            /\ \A j \in Attempt : inv[j] = "none" /\ ~Uncertain(j)
        BY <3>1, LinkTypes DEF LinkInv, AttemptInv, Name, Fresh
      <3> QED
        BY <1>1, <2>1, <3>2, LinkTypes DEF AttemptInv
    <2>3. CASE BeginAttempt \/ Reconcile \/ ReconcileQuery \/ AttemptGivesUp \/ Unlink
      BY <1>1, <2>1, <2>3
         DEF LinkInv, AttemptInv, BeginAttempt, Reconcile, ReconcileQuery, AttemptGivesUp, Unlink
    <2>4. CASE UNCHANGED <<ref, att>>
      BY <1>1, <2>1, <2>4 DEF LinkInv, AttemptInv
    <2> QED
      BY <2>2, <2>3, <2>4 DEF GatewayLeaves, NextLease, gateway
  <1>5. \A k \in Key : GoesOn(k)
    BY <1>1 DEF GoesOn
  <1> QED
    BY <1>1, <1>2, <1>3, <1>4, <1>5, StepKept DEF LinkInv, TypeOK

\* The gateway's memory is gone: every invocation and the attempt end where they are.
LEMMA GatewayCrashKept ==
  ASSUME LinkInv, GatewayCrash
  PROVE  LinkInv'
  <1>1. Keeps
    BY GatewayKeeps DEF GatewayCrash, node, nodeButOutbox
  <1>2. /\ intent' = intent /\ UNCHANGED <<ref, made, domain>> /\ online' = FALSE /\ att' = "idle"
        /\ inv' \in [Key -> Phase] /\ \A k \in Key : inv'[k] = "none"
    BY DEF GatewayCrash, Phase
  <1>3. AttemptInv'
    BY <1>2, LinkTypes DEF LinkInv, AttemptInv, Uncertain
  <1>4. \A k \in Key : GoesOn(k)
    BY <1>2 DEF GoesOn
  <1>5. /\ ref' \in Attempt \cup {None} /\ att' \in AttemptPhase /\ made' \subseteq Attempt
        /\ online' \in BOOLEAN /\ lease' \in [Resource -> Lease] /\ spent' \subseteq Lease
    BY <1>2 DEF LinkInv, TypeOK, domain, AttemptPhase
  <1> QED
    BY <1>1, <1>2, <1>3, <1>4, <1>5, StepKept

-----------------------------------------------------------------------------
(* Steps of the node *)

\* The node reads a frame that is no command.
LEMMA ReadingKeeps ==
  ASSUME LinkInv, NEW e \in Envelope, wire # <<>>, wire' = Tail(wire),
         Node!Bind(e) \/ Node!Query(e) \/ Node!Cancel(e) \/ Node!Release(e) \/ UNCHANGED node
  PROVE  Keeps
  <1>1. [Agent!Undelivered]_(Agent!vars)
    BY SameNode DEF Agent!Undelivered, node, Agent!vars, Agent!socket, Agent!effects, Agent!former
  <1> QED
    BY <1>1, WorkKeeps, WireKeeps DEF Keeps

\* A release is answered, well or badly: who waits for it goes on.
LEMMA ReleasedKept ==
  ASSUME LinkInv, Keeps, NEW k \in Key, NEW ok \in BOOLEAN, Released(k, ok),
         UNCHANGED <<ref, made, domain, online>>
  PROVE  LinkInv'
  <1>1. CASE inv[k] = "refusing" /\ ok
    <2>1. ~(inv[k] = "releasing") /\ ~(att = "releasing" /\ ref = k)
      BY <1>1, LinkTypes DEF LinkInv, TypeOK, AttemptInv
    <2>2. EndRefusal(k)
      BY <1>1, <2>1 DEF Released
    <2> QED
      BY <1>1, <2>2, RefusalKept
  <1>2. CASE ~(inv[k] = "refusing" /\ ok)
    <2>1. intent' = intent
      BY <1>2 DEF Released
    <2>2. \A j : Uncertain(j)' <=> Uncertain(j)
      BY <2>1 DEF Uncertain
    <2>3. /\ AttemptInv' /\ att' \in AttemptPhase /\ inv' \in [Key -> Phase]
          /\ \A j \in Key : inv'[j] \in {inv[j], "none"}
      <3>1. CASE Throw(k) /\ inv[k] # "none"
        BY <2>2, <3>1, ThrowKept DEF Throw, LinkInv, TypeOK
      <3>2. CASE EndRelease(k) /\ inv[k] # "none"
        BY <2>1, <2>2, <3>2, ThrowKept DEF EndRelease, Uncertain, LinkInv, TypeOK
      <3>3. CASE inv' = inv
        <4>1. att' = att \/ (att = "releasing" /\ att' \in {"settled", "idle"})
          BY <1>2, <3>3 DEF Released, Throw, EndRelease, LinkInv, TypeOK
        <4> QED
          BY <2>2, <3>3, <4>1 DEF LinkInv, TypeOK, AttemptInv, AttemptPhase
      <3> QED
        BY <1>2, <3>1, <3>2, <3>3 DEF Released
    <2>4. /\ ref' \in Attempt \cup {None} /\ made' \subseteq Attempt /\ online' \in BOOLEAN
          /\ lease' \in [Resource -> Lease] /\ spent' \subseteq Lease
      BY DEF LinkInv, TypeOK, domain
    <2> QED
      BY <2>1, <2>3, <2>4, StepKept DEF GoesOn
  <1> QED
    BY <1>1, <1>2

\* A grant is bound, and whoever waits for it goes on.
LEMMA BoundKept ==
  ASSUME LinkInv, Keeps, NEW k \in Key,
         inv' = IF inv[k] = "authorizing" THEN [inv EXCEPT ![k] = "authorized"] ELSE inv,
         att' = IF att = "authorizing" /\ ref = k THEN "authorized" ELSE att,
         UNCHANGED <<intent, ref, made, domain, online>>
  PROVE  LinkInv'
  <1>1. \A j : Uncertain(j)' <=> Uncertain(j)
    BY DEF Uncertain
  <1>2. /\ inv' \in [Key -> Phase] /\ att' \in AttemptPhase
        /\ \A j \in Key : inv'[j] = inv[j] \/ (inv[j] = "authorizing" /\ inv'[j] = "authorized")
    BY DEF LinkInv, TypeOK, Phase, AttemptPhase
  <1>3. AttemptInv'
    BY <1>1, <1>2, LinkTypes DEF LinkInv, AttemptInv
  <1>4. \A j \in Key : GoesOn(j)
    BY <1>2 DEF GoesOn
  <1>5. /\ ref' \in Attempt \cup {None} /\ made' \subseteq Attempt /\ online' \in BOOLEAN
        /\ lease' \in [Resource -> Lease] /\ spent' \subseteq Lease
    BY DEF LinkInv, TypeOK, domain
  <1> QED
    BY <1>1, <1>2, <1>3, <1>4, <1>5, StepKept

\* Steps that change nothing the gateway holds in memory or on disk.
LEMMA NodeStepKept ==
  ASSUME LinkInv, Keeps, UNCHANGED gateway, online' \in BOOLEAN
  PROVE  LinkInv'
  <1>1. AttemptInv'
    BY DEF LinkInv, AttemptInv, Uncertain, gateway
  <1>2. \A k \in Key : GoesOn(k)
    BY DEF GoesOn, gateway
  <1> QED
    BY <1>1, <1>2, StepKept DEF LinkInv, TypeOK, gateway, domain

\* The one command of a key reaches a node that knows nothing of it.
LEMMA CommandRead ==
  ASSUME LinkInv, NEW f \in Frame, f.kind = "command", wire # <<>>, f = wire[1],
         wire' = Tail(wire), Node!Submit(f.cmd) \/ Node!Backpressure(f.cmd),
         UNCHANGED <<gateway, online>>
  PROVE  LinkInv'
  <1>1. PICK k \in Key : k = KeyOf[f.cmd] /\ f.cmd \in Envelope
    BY NodeLinkAssumption DEF Frame
  <1>2. wire \in Seq(Frame) /\ Len(wire) \in Nat \ {0}
    BY LenProperties, EmptySeq DEF LinkInv, TypeOK
  <1>3. /\ wire' \in Seq(Frame) /\ Len(wire') = Len(wire) - 1
        /\ \A i \in 1..Len(wire') : wire'[i] = wire[i + 1]
    BY <1>2, HeadTailProperties
  <1>4. 1 \in Commands(k) /\ Uncertain(k) /\ Agent!Untouched(k) /\ inv[k] \notin {"sent", "refusing"}
    <2>1. 1 \in Commands(k)
      BY <1>1, <1>2 DEF Commands
    <2> QED
      BY <2>1 DEF LinkInv, DeliveryInv
  <1>5. \A j \in Key : KeepsFrames(j)
    BY <1>2, WireKeeps
  <1>6. Commands(k)' = {}
    <2>1. ASSUME NEW i \in Commands(k)' PROVE i + 1 \in Commands(k) /\ i \in Nat \ {0}
      BY <1>2, <1>3, <2>1 DEF Commands
    <2>2. ASSUME NEW i \in Commands(k)' PROVE FALSE
      <3>1. i + 1 = 1
        BY <1>4, <2>1, <2>2 DEF LinkInv, DeliveryInv
      <3> QED
        BY <2>1, <2>2, <3>1
    <2> QED
      BY <2>2
  <1>7. Agent!Submit(f.cmd) \/ Agent!Backpressure(f.cmd)
    BY SameNode
  <1>8. KeepsNode
    <2>1. [Agent!Step]_(Agent!vars)
      BY <1>1, <1>7, NodeLinkAssumption, Agent!StepKinds
    <2>2. Agent!OutcomeInv'
      BY <2>1, NodeLinkAssumption, Agent!OutcomeStep DEF LinkInv
    <2>3. expired \subseteq expired'
      BY <2>1, NodeLinkAssumption, Agent!EffectStep DEF LinkInv, Agent!OutcomeInv, Agent!Inv
    <2> QED
      BY <2>2, <2>3, SameNode DEF KeepsNode, Agent!OutcomeInv, Agent!Inv
  <1>9. ASSUME NEW j \in Key
        PROVE  /\ Agent!Once(j)'
               /\ j # k => (Agent!Untouched(j) => Agent!Untouched(j)') /\ (Agent!Over(j) => Agent!Over(j)')
    BY <1>1, <1>4, <1>7, <1>9, NodeLinkAssumption, Agent!DeliveryOnce DEF LinkInv, DeliveryInv
  <1>10. ASSUME NEW j \in Key \ {k} PROVE DeliveryInv(j)' /\ IntentInv(j)'
    <2>1. KeepsEffect(j)
      BY <1>9, <1>10 DEF KeepsEffect
    <2>2. GoesOn(j) /\ intent'[j] = intent[j]
      BY DEF gateway, GoesOn
    <2> QED
      BY <1>5, <1>8, <1>10, <2>1, <2>2, IntentKept DEF LinkInv, KeepsNode
  <1>11. intent' = intent /\ inv' = inv /\ UNCHANGED <<ref, att, made, domain, online>>
    BY DEF gateway
  <1>u. \A j : Uncertain(j)' <=> Uncertain(j)
    BY <1>11 DEF Uncertain
  <1>12. DeliveryInv(k)' /\ IntentInv(k)'
    <2>1. intent[k].sent
      BY <1>4 DEF Uncertain
    <2>2. DeliveryInv(k)'
      BY <1>4, <1>6, <1>9, <1>11, <1>u, <2>1 DEF DeliveryInv
    <2>3. IntentInv(k)'
      BY <1>4, <1>11, <1>u DEF LinkInv, IntentInv
    <2> QED
      BY <2>2, <2>3
  <1>13. TypeOK' /\ AttemptInv'
    BY <1>3, <1>8, <1>11, <1>u DEF LinkInv, TypeOK, KeepsNode, AttemptInv, domain
  <1> QED
    BY <1>8, <1>10, <1>12, <1>13 DEF LinkInv, KeepsNode

\* The node takes the next frame off the socket.
LEMMA DeliverKept ==
  ASSUME LinkInv, Deliver
  PROVE  LinkInv'
  <1>1. PICK f \in Frame : f = Head(wire) /\ f = wire[1] /\ wire # <<>> /\ wire' = Tail(wire)
    BY WireTypes DEF LinkInv, Deliver
  <1>2. PICK k \in Key : k = KeyOf[f.cmd] /\ f.cmd \in Envelope
    BY NodeLinkAssumption DEF Frame
  <1>3. UNCHANGED <<ref, made, domain, online>>
    BY DEF Deliver
  <1>4. CASE f.kind = "authorize"
    <2>1. Keeps
      BY <1>1, <1>2, <1>4, ReadingKeeps DEF Deliver
    <2> QED
      BY <1>1, <1>2, <1>3, <1>4, <2>1, BoundKept DEF Deliver
  <1>5. CASE f.kind = "command"
    BY <1>1, <1>3, <1>5, CommandRead DEF Deliver, gateway
  <1>6. CASE f.kind \in {"receipt", "cancel"}
    <2>1. Keeps
      BY <1>1, <1>2, <1>6, ReadingKeeps DEF Deliver
    <2> QED
      BY <1>1, <1>3, <1>6, <2>1, NodeStepKept DEF Deliver, gateway, LinkInv, TypeOK
  <1>7. CASE f.kind = "release"
    <2>1. Keeps
      BY <1>1, <1>2, <1>7, ReadingKeeps DEF Deliver
    <2>2. Released(k, TRUE) \/ Released(k, FALSE)
      BY <1>1, <1>2, <1>7 DEF Deliver
    <2> QED
      BY <1>3, <2>1, <2>2, ReleasedKept
  <1> QED
    BY <1>4, <1>5, <1>6, <1>7 DEF Frame, Kind

\* The node works, leaves or connects, or a late answer is dropped.
LEMMA NodeKept ==
  ASSUME LinkInv, NodeWorks \/ NodeLeaves \/ NodeConnects \/ \E m \in outbox : Discard(m)
  PROVE  LinkInv'
  <1>1. UNCHANGED gateway /\ online' \in BOOLEAN
    BY DEF LinkInv, TypeOK, NodeWorks, NodeLeaves, NodeConnects, Discard
  <1>2. wire' = wire \/ wire' = <<>>
    BY DEF NodeWorks, NodeLeaves, NodeConnects, Discard
  <1>3. CASE NodeWorks \/ NodeLeaves \/ NodeConnects
    <2>1. Agent!Undelivered
      BY <1>3, SameNode DEF NodeWorks, NodeLeaves, NodeConnects, Agent!Undelivered
    <2> QED
      BY <1>1, <1>2, <2>1, WorkKeeps, WireKeeps, NodeStepKept DEF Keeps
  <1>4. CASE \E m \in outbox : Discard(m)
    <2>1. outbox' \subseteq outbox /\ UNCHANGED nodeButOutbox /\ wire' = wire
      BY <1>4 DEF Discard, Node!TakeReply, Node!socket, Node!effects, Node!former, nodeButOutbox
    <2> QED
      BY <1>1, <2>1, GatewayKeeps, NodeStepKept
  <1> QED
    BY <1>3, <1>4

-----------------------------------------------------------------------------
(* The invariant *)

\* Nothing is under way at first.
LEMMA InitLink == Init => LinkInv
  <1> SUFFICES ASSUME Init PROVE LinkInv
    OBVIOUS
  <1>1. Agent!Init
    BY SameNode DEF Init
  <1>2. Agent!OutcomeInv
    BY <1>1, NodeLinkAssumption, Agent!OutcomeInit
  <1>3. Node!TypeOK
    BY <1>2, SameNode DEF Agent!OutcomeInv, Agent!Inv
  <1>4. ASSUME NEW k \in Key PROVE Agent!Once(k) /\ Agent!Untouched(k)
    BY <1>1, <1>4, NodeLinkAssumption, Agent!OnceInit
  <1>5. \A k \in Key : intent[k] = NoIntent /\ ~Uncertain(k) /\ inv[k] = "none" /\ Commands(k) = {}
    <2>1. wire = <<>> /\ Len(wire) = 0
      BY DEF Init
    <2>2. \A k : Commands(k) = {}
      BY <2>1 DEF Commands
    <2> QED
      BY <2>2, LinkTypes DEF Init, Uncertain
  <1>6. TypeOK
    <2>1. intent \in [Key -> Intent] /\ inv \in [Key -> Phase]
      BY LinkTypes DEF Init, Phase
    <2>2. wire \in Seq(Frame)
      BY EmptySeq DEF Init
    <2> QED
      BY <1>3, <2>1, <2>2 DEF Init, TypeOK, AttemptPhase
  <1>7. AttemptInv
    BY <1>5, LinkTypes DEF Init, AttemptInv
  <1>8. ASSUME NEW k \in Key PROVE IntentInv(k) /\ DeliveryInv(k)
    <2>1. Agent!Over(k)
      BY <1>1, <1>4, <1>8 DEF Agent!Init, Agent!Over, Agent!Untouched
    <2> QED
      BY <1>4, <1>5, <1>8, <2>1, LinkTypes DEF IntentInv, DeliveryInv
  <1> QED
    BY <1>2, <1>6, <1>7, <1>8 DEF LinkInv

\* Every step of the link keeps the invariant.
LEMMA StepKeeps == LinkInv /\ [Next]_vars => LinkInv'
  <1> SUFFICES ASSUME LinkInv, [Next]_vars PROVE LinkInv'
    OBVIOUS
  <1>1. CASE UNCHANGED vars
    <2>1. Keeps
      BY <1>1, GatewayKeeps DEF vars, node, nodeButOutbox
    <2> QED
      BY <1>1, <2>1, NodeStepKept DEF vars, LinkInv, TypeOK
  <1>2. CASE Steps
    <2>1. CASE \E e \in Envelope : Invoke(e)
      BY <2>1, InvokeKept
    <2>2. CASE \E k \in Key : \/ Authorize(k) \/ Abort(k) \/ NotDispatched(k)
                              \/ GiveUp(k) \/ GiveUpQuery(k) \/ OutcomeUnreleased(k)
      BY <2>2, InvocationKept
    <2>3. CASE \E k \in Key : Resolve(k)
      BY <2>3, ResolveKept
    <2>4. CASE \E k \in Key : Dispatch(k)
      BY <2>4, DispatchKept
    <2>5. CASE \E k \in Key : Tidy(k)
      BY <2>5, TidyKept
    <2>6. CASE \E k \in Key : RefusalUnreleased(k)
      BY <2>6, RefusalUnreleasedKept
    <2>7. CASE \E k \in Key, m \in outbox : TakeAnswer(k, m) \/ TakeCancelled(k, m) \/ TakeReceipt(k, m)
      BY <2>7, AnswerKept
    <2>8. CASE \E m \in outbox : TakePredecessor(m)
      BY <2>8, PredecessorKept
    <2>9. CASE \/ BeginAttempt \/ Reconcile \/ ReconcileQuery \/ AttemptGivesUp \/ Unlink
               \/ GatewayLeaves \/ \E k \in Key : Name(k)
               \/ \E r \in Resource, l \in Lease : NextLease(r, l)
      BY <2>9, AttemptKept
    <2>10. CASE Deliver
      BY <2>10, DeliverKept
    <2>11. CASE NodeWorks \/ NodeLeaves \/ NodeConnects
      BY <2>11, NodeKept
    <2>12. CASE GatewayCrash
      BY <2>12, GatewayCrashKept
    <2> QED
      BY <1>2, <2>1, <2>2, <2>3, <2>4, <2>5, <2>6, <2>7, <2>8, <2>9, <2>10, <2>11, <2>12 DEF Steps
  <1>3. CASE \E m \in outbox : Discard(m)
    BY <1>3, NodeKept
  <1> QED
    BY <1>1, <1>2, <1>3 DEF Next

\* The inductive invariant of both processes holds in every reachable state.
THEOREM LinkInvHolds == Spec => []LinkInv
  BY InitLink, StepKeeps, PTL DEF Spec

\* An intent that is absent or unsent never ran: the same key may be sent.
THEOREM UnsentLeftNoTrace == Spec => []UnsentNeverRan
  <1>1. LinkInv => UnsentNeverRan
    BY DEF LinkInv, DeliveryInv, UnsentNeverRan, Agent!Untouched
  <1> QED
    BY <1>1, LinkInvHolds, PTL

\* The task's reference names its one uncertain attempt.
THEOREM UncertainAttemptIsNamed == Spec => []UncertainIsReferenced
  <1>1. LinkInv => UncertainIsReferenced
    BY DEF LinkInv, AttemptInv, UncertainIsReferenced
  <1> QED
    BY <1>1, LinkInvHolds, PTL

\* What runs, even for a dead daemon, is uncertain.
LEMMA LiveIsUncertain ==
  ASSUME LinkInv, NEW k \in Key, k \in live
  PROVE  Uncertain(k) /\ starts[k] > 0
  BY DEF LinkInv, DeliveryInv, Agent!Over, Agent!Once, Agent!BeforeStart

\* The attempts of a task never run side by side, with any number of them.
THEOREM AttemptsRunAlone == Spec => []AttemptsAreSerial
  <1>1. LinkInv => AttemptsAreSerial
    <2> SUFFICES ASSUME LinkInv PROVE Cardinality(live \cap Attempt) <= 1
      BY DEF AttemptsAreSerial
    <2>1. live \cap Attempt \subseteq {ref}
      BY LiveIsUncertain, LinkTypes DEF LinkInv, AttemptInv
    <2>2. IsFiniteSet({ref}) /\ Cardinality({ref}) = 1
      BY FS_Singleton
    <2>3. Cardinality(live \cap Attempt) <= Cardinality({ref})
      BY <2>1, <2>2, FS_Subset
    <2> QED
      BY <2>2, <2>3
  <1> QED
    BY <1>1, LinkInvHolds, PTL

-----------------------------------------------------------------------------
(* The promise *)

\* What the views say, and how one key moves them.
LEMMA Views ==
  ASSUME LinkInv, NEW k \in Key
  PROVE  /\ CallerView[k] = "offered" <=> Uncertain(k)
         /\ CallerView[k] = "settled" <=> intent[k].sent /\ intent[k].rcpt.confirmed
         /\ CallerView[k] = "idle" <=> ~intent[k].sent /\ ~Forgotten(k)
         /\ EffectView[k] = "running" <=> k \in live
         /\ starts[k] = 0 => EffectView[k] = "none"
  <1>1. k \in live => starts[k] > 0
    BY LiveIsUncertain
  <1> QED
    BY <1>1 DEF CallerView, EffectView, Uncertain

\* A step of one key's intent moves the view of that key's caller, and no other.
LEMMA OneKeyMoves ==
  ASSUME NEW k \in Key, \A j \in Key \ {k} : intent'[j] = intent[j], UNCHANGED <<starts, live, expired>>
  PROVE  /\ CallerView' = [CallerView EXCEPT ![k] = CallerView'[k]]
         /\ EffectView' = EffectView
  BY DEF CallerView, EffectView, Forgotten

\* A key is marked as sent: no other attempt of the task may still run.
LEMMA OfferPromised ==
  ASSUME LinkInv, NEW k \in Key, inv[k] # "none", ~intent[k].sent, ~intent[k].rcpt.confirmed,
         intent' = [intent EXCEPT ![k].sent = TRUE], UNCHANGED <<starts, live, expired>>
  PROVE  Durable!Offer(k)
  <1>1. intent[k] \in Intent /\ intent[k].cmd \in Envelope
    BY CommandKnown
  <1>2. /\ \A j \in Key \ {k} : intent'[j] = intent[j]
        /\ intent'[k].sent /\ ~intent'[k].rcpt.confirmed
    BY <1>1 DEF LinkInv, TypeOK, Intent
  <1>3. CallerView[k] = "idle"
    BY <1>1, Views, NodeLinkAssumption DEF Forgotten
  <1>4. k \in Attempt => \A j \in Attempt : CallerView[j] # "offered" /\ EffectView[j] # "running"
    <2>1. ASSUME k \in Attempt, NEW j \in Attempt PROVE ~Uncertain(j)
      BY <2>1 DEF LinkInv, AttemptInv, Uncertain
    <2> QED
      BY <2>1, Views, LiveIsUncertain, LinkTypes
  <1>5. CallerView'[k] = "offered"
    BY <1>2 DEF CallerView
  <1> QED
    BY <1>2, <1>3, <1>4, <1>5, OneKeyMoves DEF Durable!Offer

\* A refusal that was given back makes the key idle again.
LEMMA WithdrawPromised ==
  ASSUME LinkInv, NEW k \in Key, inv[k] = "refusing",
         intent' = [intent EXCEPT ![k].sent = FALSE], UNCHANGED <<starts, live, expired>>
  PROVE  Durable!Withdraw(k)
  <1>1. intent[k] \in Intent /\ intent[k].cmd \in Envelope
    BY CommandKnown
  <1>2. /\ \A j \in Key \ {k} : intent'[j] = intent[j]
        /\ ~intent'[k].sent /\ intent'[k].cmd = intent[k].cmd
    BY <1>1 DEF LinkInv, TypeOK, Intent
  <1>3. Uncertain(k) /\ Agent!Untouched(k)
    BY <1>1, NodeLinkAssumption DEF LinkInv, IntentInv, DeliveryInv, Forgotten
  <1>4. CallerView[k] = "offered" /\ EffectView[k] = "none"
    BY <1>3, Views DEF Agent!Untouched
  <1>5. CallerView'[k] = "idle"
    BY <1>1, <1>2, NodeLinkAssumption DEF CallerView, Forgotten
  <1> QED
    BY <1>2, <1>4, <1>5, OneKeyMoves DEF Durable!Withdraw

\* An outcome is recorded: a confirmed one settles the key.
LEMMA OutcomePromised ==
  ASSUME LinkInv, NEW k \in Key, Uncertain(k), NEW m \in outbox, m.key = k, m.kind = "receipt",
         intent' = [intent EXCEPT ![k].rcpt = m.rcpt], UNCHANGED <<starts, live, expired>>
  PROVE  Durable!Settle(k) \/ UNCHANGED Durable!vars
  <1>1. intent[k] \in Intent /\ intent[k].sent
    BY CommandKnown DEF Uncertain
  <1>2. /\ \A j \in Key \ {k} : intent'[j] = intent[j]
        /\ intent'[k].sent /\ intent'[k].rcpt = m.rcpt
    BY <1>1 DEF LinkInv, TypeOK, Intent
  <1>3. CallerView[k] = "offered"
    BY Views
  <1>4. m.rcpt.confirmed => EffectView[k] # "running"
    BY Views DEF LinkInv, DeliveryInv, Agent!Once, Agent!ConfirmedReply, Agent!Over
  <1>5. CallerView'[k] = IF m.rcpt.confirmed THEN "settled" ELSE "offered"
    BY <1>2 DEF CallerView
  <1>6. CASE m.rcpt.confirmed
    BY <1>2, <1>3, <1>4, <1>5, <1>6, OneKeyMoves DEF Durable!Settle
  <1>7. CASE ~m.rcpt.confirmed
    <2>1. CallerView' = CallerView
      <3>1. CallerView = [j \in Key |-> CallerView[j]]
        BY DEF CallerView
      <3>2. CallerView' = [CallerView EXCEPT ![k] = CallerView'[k]] /\ CallerView'[k] = CallerView[k]
        BY <1>2, <1>3, <1>5, <1>7, OneKeyMoves
      <3> QED
        BY <3>1, <3>2
    <2> QED
      BY <1>2, <2>1, OneKeyMoves DEF Durable!vars
  <1> QED
    BY <1>6, <1>7

\* Keys whose deadlines have passed or whose intents are pruned are forgotten.
LEMMA ForgetPromised ==
  ASSUME LinkInv, UNCHANGED <<starts, live>>,
         \A k \in Key : \/ CallerView'[k] = CallerView[k]
                        \/ ~Uncertain(k) /\ CallerView'[k] = "forgotten"
  PROVE  Durable!Next \/ UNCHANGED Durable!vars
  <1> DEFINE gone == {k \in Key : CallerView'[k] # CallerView[k]}
  <1>1. CallerView' = [k \in Key |-> IF k \in gone THEN "forgotten" ELSE CallerView[k]]
    BY DEF CallerView
  <1>2. EffectView' = EffectView
    BY DEF EffectView
  <1>3. ASSUME NEW k \in gone
        PROVE  CallerView[k] \in {"idle", "settled"} /\ EffectView[k] # "running"
    <2>1. ~Uncertain(k) /\ k \notin live
      BY <1>3, LiveIsUncertain
    <2>2. CallerView[k] # "forgotten"
      BY <1>3
    <2> QED
      BY <1>3, <2>1, <2>2, Views DEF CallerView, Uncertain
  <1>4. gone = {} => CallerView' = CallerView
    BY <1>1 DEF CallerView
  <1>5. gone # {} => Durable!Forget(gone)
    BY <1>1, <1>2, <1>3 DEF Durable!Forget
  <1>6. gone \in SUBSET Key
    OBVIOUS
  <1> HIDE DEF gone
  <1> QED
    BY <1>2, <1>4, <1>5, <1>6 DEF Durable!Next, Durable!vars

\* While the intents stay, effects start when they are offered, or end.
LEMMA NodePromised ==
  ASSUME LinkInv, [Agent!Step]_(Agent!vars), intent' = intent
  PROVE  Durable!Next \/ UNCHANGED Durable!vars
  <1>1. /\ \/ starts' = starts /\ live' \subseteq live
           \/ \E k \in Key : /\ held[k].phase = "starting"
                             /\ starts' = [starts EXCEPT ![k] = @ + 1]
                             /\ live' = live \cup {k}
        /\ \/ expired' = expired
           \/ /\ expired \subseteq expired' /\ UNCHANGED <<starts, live>>
    BY NodeLinkAssumption, Agent!EffectStep
       DEF LinkInv, Agent!OutcomeInv, Agent!Inv, Agent!effects, Agent!former
  <1>2. CASE expired \subseteq expired' /\ UNCHANGED <<starts, live>>
    <2>1. ASSUME NEW k \in Key
          PROVE  \/ CallerView'[k] = CallerView[k]
                 \/ ~Uncertain(k) /\ CallerView'[k] = "forgotten"
      BY <1>2, <2>1 DEF CallerView, Forgotten, Uncertain
    <2> QED
      BY <1>2, <2>1, ForgetPromised
  <1>3. ASSUME expired' = expired PROVE CallerView' = CallerView
    BY <1>3 DEF CallerView, Forgotten
  <1>4. CASE expired' = expired /\ starts' = starts /\ live' \subseteq live
    <2> DEFINE gone == {k \in Key : k \in live /\ k \notin live'}
    <2>1. \A k \in gone : EffectView[k] = "running"
      BY Views
    <2>2. EffectView' = [k \in Key |-> IF k \in gone THEN "over" ELSE EffectView[k]]
      BY <1>4, LiveIsUncertain DEF EffectView
    <2>3. gone = {} => EffectView' = EffectView
      BY <2>2 DEF EffectView
    <2>4. gone # {} => Durable!Stop(gone)
      BY <1>3, <1>4, <2>1, <2>2 DEF Durable!Stop
    <2>5. gone \in SUBSET Key
      OBVIOUS
    <2> HIDE DEF gone
    <2> QED
      BY <1>3, <1>4, <2>3, <2>4, <2>5 DEF Durable!Next, Durable!vars
  <1>5. ASSUME NEW k \in Key, expired' = expired, held[k].phase = "starting",
               starts' = [starts EXCEPT ![k] = @ + 1], live' = live \cup {k}
        PROVE  Durable!Start(k)
    <2>1. ~Agent!Over(k) /\ starts[k] = 0 /\ starts \in [Key -> Nat]
      BY <1>5 DEF LinkInv, TypeOK, Node!TypeOK, DeliveryInv, Agent!Over, Agent!Once, Agent!BeforeStart
    <2>2. CallerView[k] = "offered" /\ EffectView[k] = "none"
      BY <2>1, Views DEF LinkInv, DeliveryInv
    <2>3. EffectView' = [EffectView EXCEPT ![k] = "running"]
      BY <1>5, <2>1 DEF EffectView
    <2> QED
      BY <1>3, <1>5, <2>2, <2>3 DEF Durable!Start
  <1> QED
    BY <1>1, <1>2, <1>4, <1>5 DEF Durable!Next

\* Every step of the link is a step of the node, or of its callers who take its replies.
LEMMA NodeMoves ==
  ASSUME LinkInv, Next
  PROVE  [Agent!Step]_(Agent!vars)
  <1>1. CASE outbox' \subseteq outbox /\ UNCHANGED nodeButOutbox
    <2>1. Agent!TakeReplies
      BY <1>1 DEF Agent!TakeReplies, nodeButOutbox, Agent!socket, Agent!effects, Agent!former
    <2> QED
      BY <2>1, NodeLinkAssumption, Agent!StepKinds DEF Agent!Undelivered
  <1>2. CASE Deliver
    <2>1. PICK f \in Frame : f = Head(wire)
      BY <1>2, WireTypes DEF LinkInv, Deliver
    <2>2. f.cmd \in Envelope
      BY <2>1 DEF Frame
    <2>3. CASE UNCHANGED node
      BY <2>3, <1>1 DEF node, nodeButOutbox
    <2>4. CASE \/ Node!Bind(f.cmd) \/ Node!Query(f.cmd) \/ Node!Cancel(f.cmd) \/ Node!Release(f.cmd)
      BY <2>2, <2>4, SameNode, NodeLinkAssumption, Agent!StepKinds DEF Agent!Undelivered
    <2>5. CASE Node!Submit(f.cmd) \/ Node!Backpressure(f.cmd)
      BY <2>2, <2>5, SameNode, NodeLinkAssumption, Agent!StepKinds
    <2> QED
      BY <1>2, <2>1, <2>3, <2>4, <2>5 DEF Deliver
  <1>3. CASE NodeWorks \/ NodeLeaves \/ NodeConnects
    <2>1. Agent!Undelivered
      BY <1>3, SameNode DEF NodeWorks, NodeLeaves, NodeConnects, Agent!Undelivered
    <2> QED
      BY <2>1, NodeLinkAssumption, Agent!StepKinds
  <1>4. CASE \E m \in outbox : Discard(m)
    BY <1>1, <1>4 DEF Discard, Node!TakeReply, Node!socket, Node!effects, Node!former, nodeButOutbox
  <1>5. CASE Steps
    <2>1. \/ Deliver \/ NodeWorks \/ NodeLeaves \/ NodeConnects
          \/ outbox' \subseteq outbox /\ UNCHANGED nodeButOutbox
      <3>1. CASE \E e \in Envelope : Invoke(e)
        BY <3>1 DEF Invoke, node, nodeButOutbox
      <3>2. ASSUME NEW k \in Key,
                   \/ Authorize(k) \/ Resolve(k) \/ Dispatch(k) \/ NotDispatched(k) \/ Abort(k)
                   \/ Tidy(k) \/ GiveUp(k) \/ GiveUpQuery(k) \/ RefusalUnreleased(k)
                   \/ OutcomeUnreleased(k) \/ Name(k)
            PROVE  outbox' \subseteq outbox /\ UNCHANGED nodeButOutbox
        BY <3>2 DEF Authorize, Resolve, Dispatch, NotDispatched, Abort, Tidy, GiveUp, GiveUpQuery,
                    RefusalUnreleased, OutcomeUnreleased, Name, Retract, node, nodeButOutbox
      <3>3. ASSUME NEW m \in outbox, NEW k \in Key,
                   TakeAnswer(k, m) \/ TakeCancelled(k, m) \/ TakeReceipt(k, m)
            PROVE  outbox' \subseteq outbox /\ UNCHANGED nodeButOutbox
        BY <3>3 DEF TakeAnswer, TakeCancelled, TakeReceipt, Took
      <3>4. CASE \E m \in outbox : TakePredecessor(m)
        BY <3>4 DEF TakePredecessor, Took
      <3>5. CASE BeginAttempt \/ Reconcile \/ ReconcileQuery \/ AttemptGivesUp \/ Unlink
        BY <3>5 DEF BeginAttempt, Reconcile, ReconcileQuery, AttemptGivesUp, Unlink, Retract, node,
                    nodeButOutbox
      <3>6. CASE GatewayLeaves \/ GatewayCrash \/ \E r \in Resource, l \in Lease : NextLease(r, l)
        BY <3>6 DEF GatewayLeaves, GatewayCrash, NextLease, node, nodeButOutbox
      <3> QED
        BY <1>5, <3>1, <3>2, <3>3, <3>4, <3>5, <3>6 DEF Steps
    <2> QED
      BY <1>1, <1>2, <1>3, <2>1
  <1> QED
    BY <1>4, <1>5 DEF Next

\* A concluded invocation settles its key, or leaves it as it is.
LEMMA ConcludePromised ==
  ASSUME LinkInv, NEW k \in Key, inv[k] # "none", NEW m \in outbox, m.key = k,
         TakeAnswer(k, m) \/ TakeCancelled(k, m) \/ TakeReceipt(k, m), intent' # intent
  PROVE  Durable!Next \/ UNCHANGED Durable!vars
  <1>1. m.kind = "receipt" /\ intent' = [intent EXCEPT ![k].rcpt = m.rcpt]
    BY DEF TakeAnswer, TakeCancelled, TakeReceipt, Conclude
  <1>2. UNCHANGED <<starts, live, expired>>
    BY DEF TakeAnswer, TakeCancelled, TakeReceipt, nodeButOutbox
  <1>3. Uncertain(k)
    BY DEF LinkInv, IntentInv, TakeAnswer, TakeCancelled, TakeReceipt
  <1> QED
    BY <1>1, <1>2, <1>3, OutcomePromised DEF Durable!Next

\* Pruning forgets keys whose intents are settled or were never sent.
LEMMA PrunePromised ==
  ASSUME LinkInv, NEW k \in Key, NEW new \in Intent, Prune(k, new), UNCHANGED <<starts, live, expired>>,
         new = intent[k] \/ (intent[k].cmd = None /\ new.sent = FALSE /\ new.cmd \in Envelope \ expired
                             /\ KeyOf[new.cmd] = k)
  PROVE  Durable!Next \/ UNCHANGED Durable!vars
  <1>1. PICK gone \in SUBSET Prunable(k) :
          intent' = [j \in Key |-> IF j = k THEN new ELSE IF j \in gone THEN NoIntent ELSE intent[j]]
    BY DEF Prune
  <1>2. CallerView'[k] = CallerView[k]
    <2>1. CASE new = intent[k]
      BY <1>1, <2>1 DEF CallerView, Forgotten
    <2>2. CASE /\ intent[k].cmd = None /\ new.sent = FALSE /\ new.cmd \in Envelope \ expired
               /\ KeyOf[new.cmd] = k
      <3>1. intent[k].sent = FALSE /\ ~Forgotten(k)
        BY <2>2, LinkTypes DEF LinkInv, IntentInv, Forgotten
      <3>2. intent'[k] = new /\ ~Forgotten(k)'
        BY <1>1, <2>2, NodeLinkAssumption DEF Forgotten
      <3> QED
        BY <2>2, <3>1, <3>2 DEF CallerView
    <2> QED
      BY <2>1, <2>2
  <1>3. ASSUME NEW j \in Key \ {k}
        PROVE  \/ CallerView'[j] = CallerView[j]
               \/ ~Uncertain(j) /\ CallerView'[j] = "forgotten"
    <2>1. CASE j \notin gone
      BY <1>1, <1>3, <2>1 DEF CallerView, Forgotten
    <2>2. CASE j \in gone
      <3>1. /\ intent'[j] = NoIntent /\ ~Uncertain(j)
            /\ intent[j].cmd \in expired /\ intent[j].cmd # None
        BY <1>1, <1>3, <2>2 DEF Prunable
      <3>2. \A e \in Envelope : KeyOf[e] = j => e \in expired
        <4>1. KeyOf[intent[j].cmd] = j /\ j \in BoundKey
          BY <1>3, <3>1, NodeLinkAssumption DEF LinkInv, IntentInv
        <4>2. expired \subseteq Envelope /\ Agent!DeadlinesTogether
          BY DEF LinkInv, Agent!OutcomeInv, Agent!Inv, Agent!TypeOK
        <4> QED
          BY <3>1, <4>1, <4>2 DEF Agent!DeadlinesTogether
      <3> QED
        BY <1>3, <3>1, <3>2, LinkTypes DEF CallerView, Forgotten
    <2> QED
      BY <2>1, <2>2
  <1> QED
    BY <1>2, <1>3, ForgetPromised

\* Every step of gateway, socket and node is a step of the promise, or none.
LEMMA StepPromised ==
  ASSUME LinkInv, Next
  PROVE  Durable!Next \/ UNCHANGED Durable!vars
  <1>1. CASE intent' = intent
    BY <1>1, NodeMoves, NodePromised
  <1>2. ASSUME NEW e \in Envelope, Invoke(e), intent' # intent
        PROVE  Durable!Next \/ UNCHANGED Durable!vars
    <2>1. PICK k \in Key : k = KeyOf[e]
      BY NodeLinkAssumption
    <2>2. PICK new \in Intent : new = [NoIntent EXCEPT !.cmd = e] /\ new.cmd = e /\ new.sent = FALSE
      BY LinkTypes
    <2>3. intent[k].cmd = None /\ e \notin expired /\ Prune(k, new) /\ UNCHANGED <<starts, live, expired>>
      BY <1>2, <2>1, <2>2 DEF Invoke, node
    <2> QED
      BY <2>1, <2>2, <2>3, PrunePromised
  <1>3. ASSUME NEW k \in Key, Tidy(k) PROVE Durable!Next \/ UNCHANGED Durable!vars
    <2>1. intent[k] \in Intent
      BY DEF LinkInv, TypeOK
    <2>2. Prune(k, intent[k]) /\ UNCHANGED <<starts, live, expired>>
      BY <1>3 DEF Tidy, node
    <2> QED
      BY <2>1, <2>2, PrunePromised
  <1>4. ASSUME NEW k \in Key, Resolve(k), intent' # intent
        PROVE  Durable!Next \/ UNCHANGED Durable!vars
    <2>1. UNCHANGED <<starts, live, expired>> /\ inv[k] = "authorized" /\ intent[k] \in Intent
      BY <1>4 DEF Resolve, node, LinkInv, TypeOK
    <2>2. CASE intent[k].rcpt.confirmed /\ Conclude(k, intent[k].rcpt)
      <3>1. [intent[k] EXCEPT !.rcpt = intent[k].rcpt] = intent[k]
        BY <2>1 DEF Intent
      <3>2. intent' = intent
        BY <2>2, <3>1 DEF Conclude, LinkInv, TypeOK
      <3> QED
        BY <1>4, <3>2
    <2>3. CASE ~intent[k].sent /\ intent' = [intent EXCEPT ![k].sent = TRUE]
      <3>1. ~intent[k].rcpt.confirmed
        BY <2>3 DEF LinkInv, IntentInv
      <3>2. Durable!Offer(k)
        BY <2>1, <2>3, <3>1, OfferPromised
      <3> QED
        BY <3>2 DEF Durable!Next
    <2> QED
      BY <1>4, <2>2, <2>3 DEF Resolve
  <1>5. ASSUME NEW k \in Key, inv[k] = "refusing", EndRefusal(k), UNCHANGED <<starts, live, expired>>
        PROVE  Durable!Next \/ UNCHANGED Durable!vars
    <2>1. Durable!Withdraw(k)
      BY <1>5, WithdrawPromised DEF EndRefusal
    <2> QED
      BY <2>1 DEF Durable!Next
  <1>6. ASSUME Deliver, intent' # intent PROVE Durable!Next \/ UNCHANGED Durable!vars
    <2>1. PICK f \in Frame : f = Head(wire)
      BY <1>6, WireTypes DEF LinkInv, Deliver
    <2>2. PICK k \in Key : k = KeyOf[f.cmd]
      BY NodeLinkAssumption DEF Frame
    <2>3. Node!Release(f.cmd) /\ Released(k, TRUE)
      BY <1>6, <2>1, <2>2 DEF Deliver, Released
    <2>4. inv[k] = "refusing"
      BY <1>6, <2>3 DEF Released
    <2>5. ~(att = "releasing" /\ ref = k)
      BY <2>4, LinkTypes DEF LinkInv, TypeOK, AttemptInv
    <2>6. EndRefusal(k)
      BY <2>3, <2>4, <2>5 DEF Released
    <2>7. UNCHANGED <<starts, live, expired>>
      BY <2>3 DEF Node!Release, Node!effects, Node!former
    <2> QED
      BY <1>5, <2>4, <2>6, <2>7
  <1>7. ASSUME NEW m \in outbox, TakePredecessor(m), intent' # intent
        PROVE  Durable!Next \/ UNCHANGED Durable!vars
    <2>1. ref \in Key /\ Uncertain(ref) /\ m.key = ref
      BY <1>7, LinkTypes DEF LinkInv, TypeOK, AttemptInv, TakePredecessor
    <2>2. /\ m.kind = "receipt" /\ intent' = [intent EXCEPT ![ref].rcpt = m.rcpt]
          /\ UNCHANGED <<starts, live, expired>>
      BY <1>7 DEF TakePredecessor, nodeButOutbox
    <2> QED
      BY <2>1, <2>2, OutcomePromised DEF Durable!Next
  <1>8. ASSUME NEW k \in Key, NEW m \in outbox, intent' # intent,
               TakeAnswer(k, m) \/ TakeCancelled(k, m) \/ TakeReceipt(k, m)
        PROVE  Durable!Next \/ UNCHANGED Durable!vars
    BY <1>8, ConcludePromised DEF TakeAnswer, TakeCancelled, TakeReceipt
  <1>9. ASSUME NEW k \in Key, RefusalUnreleased(k) PROVE Durable!Next \/ UNCHANGED Durable!vars
    BY <1>5, <1>9 DEF RefusalUnreleased, node
  <1>10. CASE intent' # intent
    <2>1. \/ \E e \in Envelope : Invoke(e)
          \/ \E k \in Key : Tidy(k) \/ Resolve(k) \/ RefusalUnreleased(k)
          \/ \E k \in Key, m \in outbox : TakeAnswer(k, m) \/ TakeCancelled(k, m) \/ TakeReceipt(k, m)
          \/ \E m \in outbox : TakePredecessor(m)
          \/ Deliver
      BY <1>10 DEF Next, Steps, Authorize, Dispatch, NotDispatched, Abort, GiveUp, GiveUpQuery,
           OutcomeUnreleased, Name, BeginAttempt, Reconcile, ReconcileQuery, AttemptGivesUp, Unlink,
           NodeWorks, NodeLeaves, NodeConnects, GatewayLeaves, GatewayCrash, NextLease, Discard, gateway
    <2> QED
      BY <1>2, <1>3, <1>4, <1>6, <1>7, <1>8, <1>9, <1>10, <2>1
  <1> QED
    BY <1>1, <1>10

\* The link implements DurableCommand: a command takes effect at most once, only while it is
\* offered, and is settled only when its effect is over; the attempts of a task run one by one.
THEOREM LinkKeepsPromise == Spec => KeepsPromise
  <1>1. Init => Durable!Init
    <2> SUFFICES ASSUME Init PROVE Durable!Init
      OBVIOUS
    <2>1. /\ \A k \in Key : intent[k] = NoIntent /\ k \notin live /\ starts[k] = 0
          /\ expired = {}
      BY DEF Init, Node!Init
    <2>2. \A k \in Key : ~Forgotten(k)
      BY <2>1, NodeLinkAssumption DEF Forgotten
    <2> QED
      BY <2>1, <2>2, LinkTypes DEF Durable!Init, CallerView, EffectView
  <1>2. LinkInv /\ [Next]_vars => [UNCHANGED Durable!vars \/ Durable!Next]_(Durable!vars)
    <2>1. CASE UNCHANGED vars
      <3>1. UNCHANGED <<intent, expired, starts, live>>
        BY <2>1 DEF vars, node, gateway
      <3>2. \A k \in Key : Forgotten(k)' <=> Forgotten(k)
        BY <3>1 DEF Forgotten
      <3>3. CallerView' = CallerView
        BY <3>1, <3>2 DEF CallerView
      <3>4. EffectView' = EffectView
        BY <3>1 DEF EffectView
      <3> QED
        BY <3>3, <3>4 DEF Durable!vars
    <2>2. ASSUME LinkInv, Next PROVE Durable!Next \/ UNCHANGED Durable!vars
      BY <2>2, StepPromised
    <2> QED
      BY <2>1, <2>2
  <1> QED
    BY <1>1, <1>2, LinkInvHolds, PTL DEF Spec, KeepsPromise
-----------------------------------------------------------------------------
(* Which lease may execute *)

\* Frame i takes the resource over.
Grants(i, r) == wire[i].kind = "authorize" /\ ResourceOf[wire[i].cmd] = r

\* The lease is over, and no frame after the first n brings it back.
Ended(l, r, n) ==
  /\ l \in spent /\ l # lease[r]
  /\ \A i \in 1..Len(wire) : i > n /\ Grants(i, r) => LeaseOf[wire[i].cmd] # l

\* The lease is the resource's current one or an earlier one, and it ends for good with the
\* first of the frames after n that grants another.
InTurn(l, r, n) ==
  /\ l = lease[r] \/ l \in spent
  /\ \A i \in 1..Len(wire) : i > n /\ Grants(i, r) /\ LeaseOf[wire[i].cmd] # l => Ended(l, r, i)

\* The leases of a resource without attempts cross the socket in turn.
WireInv ==
  \A i \in 1..Len(wire), r \in Resource :
    Direct(r) /\ Grants(i, r) => InTurn(LeaseOf[wire[i].cmd], r, i)

\* The grants of a resource are its owner's, whose turn it is if no task makes attempts there.
OwnerInv ==
  /\ \A e \in granted : owner[ResourceOf[e]] = LeaseOf[e]
  /\ \A r \in Resource : Direct(r) /\ owner[r] # None => InTurn(owner[r], r, 0)

\* So it was for a command whose grant was seen; once another owns the resource, it is over.
ApprovedInv(k) ==
  Agent!Approved(k) =>
    LET r == ResourceOf[held[k].cmd]
        l == LeaseOf[held[k].cmd]
    IN  Direct(r) => InTurn(l, r, 0) /\ (owner[r] \notin {None, l} => Ended(l, r, 0))

Executes(k) == held[k].phase = "executing" /\ held[k].cmd \notin ReadOnly
Rivals(j, k) ==
  /\ ResourceOf[held[j].cmd] = ResourceOf[held[k].cmd]
  /\ LeaseOf[held[j].cmd] # LeaseOf[held[k].cmd]
  /\ Direct(ResourceOf[held[k].cmd])

\* A command found the resource free before a rival of it began to execute there: it is held
\* up for good, for its lease has ended.
FenceInv(j, k) ==
  Executes(j) /\ (Executes(k) \/ Agent!Entering(k)) /\ held[k].cmd \notin ReadOnly /\ Rivals(j, k) =>
    /\ ~Executes(k)
    /\ link = "up" =>
         LET r == ResourceOf[held[k].cmd]
             l == LeaseOf[held[k].cmd]
         IN  owner[r] # l /\ Ended(l, r, 0)

LeaseInv ==
  /\ WireInv
  /\ OwnerInv
  /\ \A k \in Key : Agent!SameCommand(k) /\ ApprovedInv(k)
  /\ \A j, k \in Key : FenceInv(j, k)

-----------------------------------------------------------------------------
(* The frames on the socket *)

\* Frames leave the socket, the others keep their order.
Thinned(f) ==
  /\ f \in [1..Len(wire') -> 1..Len(wire)]
  /\ \A i \in 1..Len(wire') : wire'[i] = wire[f[i]] /\ f[i] > 0
  /\ \A i, j \in 1..Len(wire') : i < j => f[i] < f[j]

\* What was in turn and what has ended before a step is so after it.
KeepsTurns ==
  /\ WireInv'
  /\ \A l, r : Direct(r) =>
       (InTurn(l, r, 0) => InTurn(l, r, 0)') /\ (Ended(l, r, 0) => Ended(l, r, 0)')

\* The frames that stay say of the leases what they said.
LEMMA ThinTurns ==
  ASSUME UNCHANGED <<lease, spent>>, NEW f, Thinned(f), NEW l, NEW r, NEW n, NEW m,
         \A i \in 1..Len(wire') : i > m => f[i] > n
  PROVE  /\ Ended(l, r, n) => Ended(l, r, m)'
         /\ InTurn(l, r, n) => InTurn(l, r, m)'
  <1>1. ASSUME NEW p, NEW q, Ended(l, r, p), \A i \in 1..Len(wire') : i > q => f[i] > p
        PROVE  Ended(l, r, q)'
    BY <1>1 DEF Ended, Grants, Thinned
  <1>2. ASSUME InTurn(l, r, n) PROVE InTurn(l, r, m)'
    <2>1. ASSUME NEW i \in 1..Len(wire'), i > m, Grants(i, r)', LeaseOf[wire'[i].cmd] # l
          PROVE  Ended(l, r, i)'
      <3>1. f[i] \in 1..Len(wire) /\ f[i] > n /\ wire'[i] = wire[f[i]]
        BY <2>1 DEF Thinned
      <3>2. Ended(l, r, f[i])
        BY <1>2, <2>1, <3>1 DEF InTurn, Grants
      <3>3. \A j \in 1..Len(wire') : j > i => f[j] > f[i]
        BY <2>1 DEF Thinned
      <3> QED
        BY <1>1, <3>2, <3>3
    <2> QED
      BY <1>2, <2>1 DEF InTurn
  <1> QED
    BY <1>1, <1>2

\* So the leases stay in turn when frames leave the socket.
LEMMA ThinWire ==
  ASSUME WireInv, UNCHANGED <<lease, spent>>, NEW f, Thinned(f)
  PROVE  KeepsTurns
  <1>1. ASSUME NEW i \in 1..Len(wire'), NEW r \in Resource, Direct(r), Grants(i, r)'
        PROVE  InTurn(LeaseOf[wire[i].cmd], r, i)'
    <2>1. PICK p \in 1..Len(wire) : p = f[i] /\ wire'[i] = wire[p]
      BY DEF Thinned
    <2>2. PICK l : l = LeaseOf[wire[p].cmd] /\ l = LeaseOf[wire'[i].cmd] /\ InTurn(l, r, p)
      BY <1>1, <2>1 DEF WireInv, Grants
    <2>3. \A j \in 1..Len(wire') : j > i => f[j] > p
      BY <2>1 DEF Thinned
    <2>4. InTurn(l, r, i)'
      BY <2>2, <2>3, ThinTurns
    <2> QED
      BY <2>2, <2>4
  <1>2. WireInv'
    BY <1>1 DEF WireInv
  <1>3. \A i \in 1..Len(wire') : i > 0 => f[i] > 0
    BY DEF Thinned
  <1> QED
    BY <1>2, <1>3, ThinTurns DEF KeepsTurns

\* Nothing moves, or all frames are gone.
LEMMA StillTurns ==
  ASSUME TypeOK, WireInv, UNCHANGED <<lease, spent>>, wire' = wire \/ wire' = <<>>
  PROVE  KeepsTurns
  <1> DEFINE f == [i \in 1..Len(wire') |-> i]
  <1>1. Len(wire') \in Nat /\ Len(wire) \in Nat /\ (wire' = wire \/ Len(wire') = 0)
    BY LenProperties DEF TypeOK
  <1>2. Thinned(f)
    BY <1>1 DEF Thinned
  <1> QED
    BY <1>2, ThinWire

\* A query is taken off the socket.
LEMMA RetractTurns ==
  ASSUME TypeOK, WireInv, UNCHANGED <<lease, spent>>, NEW k, Retract(k)
  PROVE  KeepsTurns
  <1>1. CASE Queries(k) = {}
    BY <1>1, StillTurns DEF Retract
  <1>2. CASE Queries(k) # {}
    <2>1. PICK q \in Queries(k) : wire' = Without(q)
      BY <1>2 DEF Retract
    <2>2. q \in 1..Len(wire) /\ Len(wire) \in Nat \ {0}
      BY <2>1, LenProperties DEF Queries, TypeOK
    <2>3. wire' \in Seq(Frame)
      BY WireTypes
    <2>4. DOMAIN wire' = 1..(Len(wire) - 1)
      BY <2>1 DEF Without
    <2>5. Len(wire') = Len(wire) - 1
      BY <2>2, <2>3, <2>4, LenProperties
    <2> DEFINE f == [i \in 1..Len(wire') |-> IF i < q THEN i ELSE i + 1]
    <2>6. \A i \in 1..Len(wire') : wire'[i] = wire[f[i]]
      BY <2>1, <2>2, <2>5 DEF Without
    <2>7. f \in [1..Len(wire') -> 1..Len(wire)]
      BY <2>2, <2>5
    <2>8. \A i, j \in 1..Len(wire') : i < j => f[i] < f[j]
      BY <2>2, <2>5
    <2>9. Thinned(f)
      <3>1. \A i \in 1..Len(wire') : f[i] > 0
        BY <2>2, <2>7
      <3> HIDE DEF f
      <3> QED
        BY <2>6, <2>7, <2>8, <3>1 DEF Thinned
    <2> QED
      BY <2>9, ThinWire
  <1> QED
    BY <1>1, <1>2

\* The first frame is read: the rest is what came after it.
LEMMA HeadTurns ==
  ASSUME TypeOK, WireInv, UNCHANGED <<lease, spent>>, wire # <<>>, wire' = Tail(wire)
  PROVE  /\ KeepsTurns
         /\ \A l, r : (InTurn(l, r, 1) => InTurn(l, r, 0)') /\ (Ended(l, r, 1) => Ended(l, r, 0)')
         /\ 1 \in 1..Len(wire)
  <1> DEFINE f == [i \in 1..Len(wire') |-> i + 1]
  <1>1. /\ Len(wire) \in Nat \ {0} /\ Len(wire') = Len(wire) - 1
        /\ \A i \in 1..Len(wire') : wire'[i] = wire[i + 1]
    BY EmptySeq, HeadTailProperties DEF TypeOK
  <1>2. Thinned(f)
    BY <1>1 DEF Thinned
  <1>3. \A i \in 1..Len(wire') : i > 0 => f[i] > 1
    BY <1>1
  <1> HIDE DEF f
  <1>4. KeepsTurns
    BY <1>2, ThinWire
  <1>5. ASSUME NEW l, NEW r
        PROVE  (InTurn(l, r, 1) => InTurn(l, r, 0)') /\ (Ended(l, r, 1) => Ended(l, r, 0)')
    BY <1>2, <1>3, ThinTurns
  <1> QED
    BY <1>1, <1>4, <1>5

\* A frame is sent: an authorization only under the lease its resource has, unless for an
\* attempt.
LEMMA SentTurns ==
  ASSUME TypeOK, WireInv, UNCHANGED <<lease, spent>>, NEW kind \in Kind, NEW e \in Envelope,
         kind = "authorize" /\ Direct(ResourceOf[e]) => lease[ResourceOf[e]] = LeaseOf[e],
         Transmit(kind, e)
  PROVE  KeepsTurns
  <1>1. CASE wire' = wire
    BY <1>1, StillTurns
  <1>2. CASE wire' = Append(wire, [kind |-> kind, cmd |-> e])
    <2>1. PICK f \in Frame : f = [kind |-> kind, cmd |-> e]
      BY LinkTypes
    <2> DEFINE n == Len(wire)
    <2>2. /\ n \in Nat /\ Len(wire') = n + 1 /\ wire'[n + 1] = f
          /\ \A i \in 1..n : wire'[i] = wire[i]
      BY <1>2, <2>1, AppendProperties, LenProperties DEF TypeOK
    <2>3. f.kind = "authorize" /\ Direct(ResourceOf[f.cmd]) => lease[ResourceOf[f.cmd]] = LeaseOf[f.cmd]
      BY <2>1
    <2> HIDE DEF n
    <2>4. \A i \in 1..Len(wire') : i \in 1..n \/ i = n + 1
      BY <2>2
    <2>5. ASSUME NEW l, NEW r, NEW m, Direct(r), Ended(l, r, m)
          PROVE  Ended(l, r, m)'
      BY <2>2, <2>3, <2>4, <2>5 DEF Ended, Grants, n
    <2>6. ASSUME NEW l, NEW r, NEW m, Direct(r), InTurn(l, r, m)
          PROVE  InTurn(l, r, m)'
      <3>1. ASSUME NEW i \in 1..Len(wire'), i > m, Grants(i, r)', LeaseOf[wire'[i].cmd] # l
            PROVE  Ended(l, r, i)'
        <4>1. CASE i \in 1..n
          BY <2>2, <2>5, <2>6, <3>1, <4>1 DEF InTurn, Grants, n
        <4>2. CASE i = n + 1
          <5>1. l \in spent /\ l # lease[r]
            BY <2>2, <2>3, <2>6, <3>1, <4>2 DEF InTurn, Grants
          <5>2. \A j \in 1..Len(wire') : ~(j > i)
            BY <2>2, <4>2
          <5> QED
            BY <5>1, <5>2 DEF Ended
        <4> QED
          BY <2>4, <4>1, <4>2
      <3> QED
        BY <2>6, <3>1 DEF InTurn
    <2>7. ASSUME NEW i \in 1..Len(wire'), NEW r \in Resource, Direct(r), Grants(i, r)'
          PROVE  InTurn(LeaseOf[wire[i].cmd], r, i)'
      <3>1. CASE i \in 1..n
        BY <2>2, <2>6, <2>7, <3>1 DEF WireInv, Grants, n
      <3>2. CASE i = n + 1
        <4>1. LeaseOf[wire'[i].cmd] = lease[r]
          BY <2>2, <2>3, <2>7, <3>2 DEF Grants
        <4>2. \A j \in 1..Len(wire') : ~(j > i)
          BY <2>2, <3>2
        <4> QED
          BY <4>1, <4>2 DEF InTurn
      <3> QED
        BY <2>4, <3>1, <3>2
    <2> QED
      BY <2>5, <2>6, <2>7 DEF KeepsTurns, WireInv
  <1> QED
    BY <1>1, <1>2 DEF Transmit

\* The resource is leased anew.
LEMMA LeaseTurns ==
  ASSUME TypeOK, WireInv, NEW s \in Resource, NEW t \in Lease, NextLease(s, t)
  PROVE  KeepsTurns
  <1>1. /\ t \notin spent /\ spent' = spent \cup {lease[s]} /\ wire' = wire
        /\ lease'[s] = t /\ \A r : r # s => lease'[r] = lease[r]
    BY DEF NextLease, TypeOK
  <1>2. ASSUME NEW l, NEW r, NEW m, Ended(l, r, m) PROVE Ended(l, r, m)'
    BY <1>1, <1>2 DEF Ended, Grants
  <1>3. ASSUME NEW l, NEW r, NEW m, InTurn(l, r, m) PROVE InTurn(l, r, m)'
    BY <1>1, <1>2, <1>3 DEF InTurn, Grants
  <1> QED
    BY <1>1, <1>2, <1>3 DEF KeepsTurns, WireInv, Grants

-----------------------------------------------------------------------------
(* The node's steps *)

\* Of a command that may execute, what the invariant says is about its own lease.
LEMMA EnteringTypes ==
  ASSUME LinkInv, NEW k \in Key, held[k].phase # "idle"
  PROVE  /\ held[k].cmd \in Envelope /\ ResourceOf[held[k].cmd] \in Resource
         /\ LeaseOf[held[k].cmd] \in Lease /\ LeaseOf[held[k].cmd] # None
  <1>1. held[k].cmd \in Envelope
    BY DEF LinkInv, Agent!OutcomeInv, Agent!Inv, Agent!KeyInv, Agent!HeldByKey
  <1> QED
    BY <1>1, NodeLinkAssumption

\* What a step of the node that grants nothing does to the commands and the grants.
NodeGoesOn ==
  /\ \A k \in Key : Agent!Advances(k) /\ (Agent!SameCommand(k) => Agent!SameCommand(k)')
  /\ \A k \in Key : link' = "up" /\ held[k].phase # "idle" => link = "up"
  /\ Agent!Revokes

\* Every step of the node but a grant is such a step.
LEMMA NodeGoes ==
  ASSUME LinkInv, [Agent!GrantsNothing]_(Agent!vars)
  PROVE  NodeGoesOn
  <1>1. Agent!OutcomeInv
    BY DEF LinkInv
  <1>2. /\ Agent!Revokes /\ [Agent!Step]_(Agent!vars)
        /\ \A k \in Key : link' = "up" /\ held[k].phase # "idle" => link = "up"
    BY <1>1, NodeLinkAssumption, Agent!StepRevokes
  <1>3. ASSUME NEW k \in Key PROVE Agent!Advances(k)
    BY <1>1, <1>2, NodeLinkAssumption, Agent!StepAdvances
  <1>4. ASSUME NEW k \in Key, Agent!SameCommand(k) PROVE Agent!SameCommand(k)'
    BY <1>1, <1>2, <1>4, NodeLinkAssumption, Agent!StepSame
  <1> QED
    BY <1>2, <1>3, <1>4 DEF NodeGoesOn

\* A grant that is seen is its resource's owner's.
LEMMA AuthorizedOwns ==
  ASSUME LeaseInv, NEW e, Agent!Authorized(e)
  PROVE  link = "up" /\ owner[ResourceOf[e]] = LeaseOf[e]
  BY DEF LeaseInv, OwnerInv, Agent!Authorized

\* The grants that are left are the owner's, whose turn it still is.
LEMMA OwnersGoOn ==
  ASSUME LinkInv, LeaseInv, KeepsTurns, NodeGoesOn
  PROVE  OwnerInv'
  <1>1. ASSUME NEW e \in granted' PROVE owner'[ResourceOf[e]] = LeaseOf[e]
    BY <1>1 DEF LeaseInv, OwnerInv, NodeGoesOn, Agent!Revokes
  <1>2. ASSUME NEW r \in Resource, Direct(r), owner'[r] # None PROVE InTurn(owner[r], r, 0)'
    <2>1. PICK l : l = owner[r] /\ l = owner'[r]
      BY <1>2 DEF NodeGoesOn, Agent!Revokes
    <2>2. InTurn(l, r, 0)
      BY <1>2, <2>1 DEF LeaseInv, OwnerInv
    <2>3. InTurn(l, r, 0)'
      BY <1>2, <2>2 DEF KeepsTurns
    <2> QED
      BY <2>1, <2>3
  <1> QED
    BY <1>1, <1>2 DEF OwnerInv

\* A command whose grant is seen joins those whose turn it is.
LEMMA ApprovedGoesOn ==
  ASSUME LinkInv, LeaseInv, KeepsTurns, NodeGoesOn, NEW k \in Key
  PROVE  ApprovedInv(k)'
  <1> SUFFICES ASSUME Agent!Approved(k)'
               PROVE  ApprovedInv(k)'
    BY DEF ApprovedInv
  <1>1. /\ held'[k].cmd = held[k].cmd
        /\ Agent!Approved(k) \/ (Agent!Authorized(held[k].cmd) /\ owner' = owner)
    BY DEF NodeGoesOn, Agent!Advances
  <1>2. held[k].cmd \in Envelope
    <2>1. CASE Agent!Approved(k)
      BY <2>1, EnteringTypes DEF Agent!Approved
    <2>2. CASE Agent!Authorized(held[k].cmd)
      BY <2>2 DEF Agent!Authorized, LinkInv, TypeOK, Node!TypeOK
    <2> QED
      BY <1>1, <2>1, <2>2
  <1>3. PICK r \in Resource, l \in Lease : r = ResourceOf[held[k].cmd] /\ l = LeaseOf[held[k].cmd]
    BY <1>2, NodeLinkAssumption
  <1>4. owner'[r] \in {owner[r], None} /\ l # None
    BY <1>3, NodeLinkAssumption DEF NodeGoesOn, Agent!Revokes
  <1>5. Direct(r) => InTurn(l, r, 0) /\ (owner'[r] \notin {None, l} => Ended(l, r, 0))
    <2>1. CASE Agent!Approved(k)
      <3>1. ApprovedInv(k)
        BY DEF LeaseInv
      <3> QED
        BY <1>3, <1>4, <2>1, <3>1 DEF ApprovedInv
    <2>2. CASE Agent!Authorized(held[k].cmd) /\ owner' = owner
      <3>1. owner[r] = l
        BY <1>3, <2>2, AuthorizedOwns
      <3>2. Direct(r) => InTurn(l, r, 0)
        BY <1>4, <3>1 DEF LeaseInv, OwnerInv
      <3> QED
        BY <2>2, <3>1, <3>2
    <2> QED
      BY <1>1, <2>1, <2>2
  <1>6. Direct(r) => InTurn(l, r, 0)' /\ (owner'[r] \notin {None, l} => Ended(l, r, 0)')
    BY <1>5 DEF KeepsTurns
  <1> QED
    BY <1>1, <1>3, <1>6 DEF ApprovedInv

\* A command that begins to execute, or already did, and a rival of it.
LEMMA FenceGoesOn ==
  ASSUME LinkInv, LeaseInv, KeepsTurns, NodeGoesOn, NEW j \in Key, NEW k \in Key
  PROVE  FenceInv(j, k)'
  <1> SUFFICES ASSUME Executes(j)', Executes(k)' \/ Agent!Entering(k)', Rivals(j, k)',
                      held'[k].cmd \notin ReadOnly
               PROVE  FenceInv(j, k)'
    BY DEF FenceInv
  <1>1. held'[j].cmd = held[j].cmd /\ held'[k].cmd = held[k].cmd
    BY DEF NodeGoesOn, Agent!Advances, Agent!Entering, Executes
  <1>2. Rivals(j, k) /\ Rivals(k, j) /\ held[k].cmd \notin ReadOnly /\ held[j].cmd \notin ReadOnly
    BY <1>1 DEF Rivals, Executes
  <1>3. \/ Executes(j)
        \/ Agent!Entering(j) /\ Agent!Authorized(held[j].cmd) /\ owner' = owner
    BY <1>2 DEF NodeGoesOn, Agent!Advances, Executes
  <1>4. \/ Executes(k)
        \/ Agent!Entering(k) /\ (Executes(k)' => Agent!Authorized(held[k].cmd))
        \/ /\ Agent!Approved(k) /\ Agent!ResourceSettled(k) /\ UNCHANGED <<link, owner>>
           /\ ~Executes(k)'
    <2>1. Executes(k)' => ~Agent!Entering(k)'
      BY DEF Agent!Entering, Agent!Approved, Executes
    <2> QED
      BY <1>2, <2>1 DEF NodeGoesOn, Agent!Advances, Executes
  <1>5. held[j].phase # "idle" /\ held[k].phase # "idle"
    BY <1>3, <1>4 DEF Executes, Agent!Entering, Agent!Approved
  <1>6. PICK r \in Resource, l \in Lease :
          /\ r = ResourceOf[held[k].cmd] /\ l = LeaseOf[held[k].cmd] /\ l # None
          /\ r = ResourceOf[held[j].cmd] /\ LeaseOf[held[j].cmd] # l /\ Direct(r)
    BY <1>2, <1>5, EnteringTypes DEF Rivals
  <1>7. owner'[r] \in {owner[r], None} /\ (link' = "up" => link = "up")
    BY <1>5 DEF NodeGoesOn, Agent!Revokes
  <1>8. FenceInv(j, k) /\ FenceInv(k, j) /\ ApprovedInv(k)
    BY DEF LeaseInv
  <1>9. ~Executes(k)
    <2>1. CASE Executes(j)
      BY <1>2, <1>8, <2>1 DEF FenceInv
    <2>2. CASE Agent!Entering(j) /\ Agent!Authorized(held[j].cmd)
      <3>1. link = "up" /\ owner[r] = LeaseOf[held[j].cmd]
        BY <1>6, <2>2, AuthorizedOwns
      <3> QED
        BY <1>2, <1>6, <1>8, <2>2, <3>1 DEF FenceInv
    <2> QED
      BY <1>3, <2>1, <2>2
  <1>10. /\ ~Executes(k)'
         /\ link' = "up" => owner'[r] # l /\ Ended(l, r, 0)
    <2>1. CASE Executes(j) /\ Agent!Entering(k)
      <3>1. link = "up" => owner[r] # l /\ Ended(l, r, 0)
        BY <1>2, <1>6, <1>8, <2>1 DEF FenceInv
      <3>2. Agent!Authorized(held[k].cmd) => link = "up" /\ owner[r] = l
        BY <1>6, AuthorizedOwns
      <3>3. Executes(k)' => Agent!Authorized(held[k].cmd)
        BY <1>4, <1>9, <2>1 DEF Agent!Entering
      <3> QED
        BY <1>6, <1>7, <3>1, <3>2, <3>3
    <2>2. CASE Executes(j) /\ ~Agent!Entering(k)
      <3>1. Agent!Approved(k) /\ Agent!ResourceSettled(k) /\ link' = link /\ ~Executes(k)'
        BY <1>4, <1>9, <2>2
      <3>2. link # "up"
        <4> SUFFICES ASSUME link = "up" PROVE FALSE
          OBVIOUS
        <4>1. Agent!OutcomeInv /\ Agent!SameCommand(j) /\ held[j].phase = "executing"
          BY <2>2 DEF LinkInv, LeaseInv, Executes
        <4>2. ResourceOf[held[j].cmd] = ResourceOf[held[k].cmd] /\ held[k].cmd \notin ReadOnly
          BY <1>2, <1>6
        <4>3. LeaseOf[held[j].cmd] = LeaseOf[held[k].cmd]
          BY SMTT(30), <3>1, <4>1, <4>2, NodeLinkAssumption, Agent!SettledShares
        <4> QED
          BY <1>6, <4>3
      <3> QED
        BY <3>1, <3>2
    <2>3. CASE Agent!Entering(j) /\ Agent!Authorized(held[j].cmd) /\ owner' = owner
      <3>1. link = "up" /\ owner[r] = LeaseOf[held[j].cmd]
        BY <1>6, <2>3, AuthorizedOwns
      <3>2. owner[r] # None /\ Agent!Approved(k)
        BY <1>4, <1>5, <1>6, <1>9, <3>1, EnteringTypes DEF Agent!Entering
      <3>3. Ended(l, r, 0)
        BY <1>6, <1>8, <3>1, <3>2 DEF ApprovedInv
      <3>4. ~Executes(k)'
        <4>1. Agent!Authorized(held[k].cmd) => owner[r] = l
          BY <1>6, AuthorizedOwns
        <4> QED
          BY <1>4, <1>6, <1>9, <3>1, <4>1
      <3> QED
        BY <1>6, <2>3, <3>1, <3>3, <3>4
    <2> QED
      BY <1>3, <2>1, <2>2, <2>3
  <1>11. link' = "up" => owner'[r] # l /\ Ended(l, r, 0)'
    BY <1>6, <1>10 DEF KeepsTurns
  <1> QED
    BY <1>1, <1>6, <1>10, <1>11 DEF FenceInv

\* A step of the node that grants nothing keeps the whole invariant.
LEMMA NodeTurns ==
  ASSUME LinkInv, LeaseInv, KeepsTurns, NodeGoesOn
  PROVE  LeaseInv'
  <1>1. \A k \in Key : Agent!SameCommand(k)'
    BY DEF NodeGoesOn, LeaseInv
  <1>2. WireInv'
    BY DEF KeepsTurns
  <1> QED
    BY <1>1, <1>2, OwnersGoOn, ApprovedGoesOn, FenceGoesOn DEF LeaseInv

\* The first frame takes its resource over: the lease whose turn it was has ended with it.
LEMMA BindTurns ==
  ASSUME LinkInv, LeaseInv, Deliver, UNCHANGED <<lease, spent>>,
         NEW f \in Frame, f = wire[1], f.kind = "authorize", Agent!Bind(f.cmd)
  PROVE  LeaseInv'
  <1>t. TypeOK /\ WireInv
    BY DEF LinkInv, LeaseInv
  <1>1. /\ KeepsTurns
        /\ \A l, r : (InTurn(l, r, 1) => InTurn(l, r, 0)') /\ (Ended(l, r, 1) => Ended(l, r, 0)')
        /\ 1 \in 1..Len(wire)
    BY <1>t, HeadTurns DEF Deliver
  <1>2. PICK e \in Envelope : e = f.cmd
    BY DEF Frame
  <1>3. PICK s \in Resource, t \in Lease : s = ResourceOf[e] /\ t = LeaseOf[e] /\ t # None
    BY NodeLinkAssumption
  <1>4. /\ link = "up" /\ UNCHANGED <<link, held, disk>>
        /\ owner' = [owner EXCEPT ![s] = t]
        /\ granted' = (granted \ {g \in granted : ResourceOf[g] = s /\ owner[s] # t}) \cup {e}
    BY <1>2, <1>3 DEF Agent!Bind
  <1>5. owner'[s] = t /\ \A r \in Resource \ {s} : owner'[r] = owner[r]
    BY <1>4 DEF LinkInv, TypeOK, Node!TypeOK
  <1>6. Grants(1, s) /\ LeaseOf[wire[1].cmd] = t
    BY <1>2, <1>3 DEF Grants
  <1>7. \A l : InTurn(l, s, 0) /\ l # t => Ended(l, s, 0)'
    BY <1>1, <1>6 DEF InTurn
  <1>8. OwnerInv'
    <2>1. ASSUME NEW g \in granted' PROVE owner'[ResourceOf[g]] = LeaseOf[g]
      <3>1. ResourceOf[g] \in Resource
        BY <1>4, <2>1, NodeLinkAssumption DEF LinkInv, TypeOK, Node!TypeOK
      <3>2. g # e => owner[ResourceOf[g]] = LeaseOf[g] /\ (ResourceOf[g] = s => owner[s] = t)
        BY <1>4, <2>1 DEF LeaseInv, OwnerInv
      <3> QED
        BY <1>3, <1>5, <3>1, <3>2
    <2>2. Direct(s) => InTurn(t, s, 0)'
      BY <1>1, <1>6, <1>t DEF WireInv
    <2>3. ASSUME NEW r \in Resource, Direct(r), owner'[r] # None PROVE InTurn(owner[r], r, 0)'
      <3>1. CASE r = s
        BY <1>5, <2>2, <2>3, <3>1
      <3>2. CASE r # s
        <4>1. PICK l : l = owner[r] /\ l = owner'[r]
          BY <1>5, <3>2
        <4>2. InTurn(l, r, 0)'
          BY <1>1, <2>3, <4>1 DEF LeaseInv, OwnerInv, KeepsTurns
        <4> QED
          BY <4>1, <4>2
      <3> QED
        BY <3>1, <3>2
    <2> QED
      BY <2>1, <2>3 DEF OwnerInv
  <1>9. ASSUME NEW k \in Key PROVE ApprovedInv(k)'
    <2> SUFFICES ASSUME Agent!Approved(k) PROVE ApprovedInv(k)'
      BY <1>4 DEF ApprovedInv, Agent!Approved
    <2>1. PICK r \in Resource, l \in Lease : r = ResourceOf[held[k].cmd] /\ l = LeaseOf[held[k].cmd]
      BY EnteringTypes DEF Agent!Approved
    <2>2. Direct(r) => InTurn(l, r, 0) /\ (owner[r] \notin {None, l} => Ended(l, r, 0))
      BY <2>1 DEF LeaseInv, ApprovedInv
    <2>3. Direct(r) => InTurn(l, r, 0)' /\ (owner[r] \notin {None, l} => Ended(l, r, 0)')
      BY <1>1, <2>2 DEF KeepsTurns
    <2>4. Direct(r) /\ owner'[r] \notin {None, l} => Ended(l, r, 0)'
      BY <1>5, <1>7, <2>2, <2>3
    <2> QED
      BY <1>4, <2>1, <2>3, <2>4 DEF ApprovedInv
  <1>10. ASSUME NEW j \in Key, NEW k \in Key PROVE FenceInv(j, k)'
    <2> SUFFICES ASSUME Executes(j), Executes(k) \/ Agent!Entering(k), Rivals(j, k),
                        held[k].cmd \notin ReadOnly
                 PROVE  FenceInv(j, k)'
      BY <1>4 DEF FenceInv, Executes, Rivals, Agent!Entering, Agent!Approved
    <2>1. PICK r \in Resource, l \in Lease : /\ r = ResourceOf[held[k].cmd] /\ Direct(r)
                                            /\ l = LeaseOf[held[k].cmd]
      BY EnteringTypes DEF Executes, Rivals, Agent!Entering, Agent!Approved
    <2>2. ~Executes(k) /\ owner[r] # l /\ Ended(l, r, 0)
      BY <1>4, <2>1 DEF LeaseInv, FenceInv
    <2>3. owner'[r] # l
      BY <1>1, <1>5, <1>6, <2>2 DEF Ended
    <2>4. Ended(l, r, 0)'
      BY <1>1, <2>1, <2>2 DEF KeepsTurns
    <2> QED
      BY <1>4, <2>1, <2>2, <2>3, <2>4 DEF FenceInv, Executes
  <1>11. \A k \in Key : Agent!SameCommand(k)'
    BY <1>4 DEF LeaseInv, Agent!SameCommand
  <1> QED
    BY <1>1, <1>8, <1>9, <1>10, <1>11 DEF LeaseInv, KeepsTurns

-----------------------------------------------------------------------------
(* Every step *)

\* An intent that is under way has its command.
LEMMA IntentUnderWay ==
  ASSUME LinkInv, NEW k \in Key, inv[k] # "none" \/ intent[k].sent
  PROVE  intent[k].cmd \in Envelope
  BY LinkTypes DEF LinkInv, TypeOK, Intent, IntentInv

\* What the gateway puts on the socket keeps the leases in turn.
LEMMA InvocationTurns ==
  ASSUME LinkInv, LeaseInv, NEW k \in Key,
         \/ Authorize(k) \/ Resolve(k) \/ Dispatch(k) \/ NotDispatched(k) \/ Abort(k)
         \/ Tidy(k) \/ GiveUp(k) \/ GiveUpQuery(k) \/ RefusalUnreleased(k)
         \/ OutcomeUnreleased(k) \/ Name(k)
         \/ \E m \in outbox : TakeAnswer(k, m) \/ TakeCancelled(k, m) \/ TakeReceipt(k, m)
  PROVE  KeepsTurns
  <1>t. TypeOK /\ WireInv
    BY DEF LinkInv, LeaseInv
  <1>1. UNCHANGED <<lease, spent>>
    BY DEF Authorize, Resolve, Dispatch, NotDispatched, Abort, Tidy, GiveUp, GiveUpQuery,
           RefusalUnreleased, OutcomeUnreleased, Name, TakeAnswer, TakeCancelled, TakeReceipt, domain
  <1>2. \/ wire' = wire
        \/ Retract(k)
        \/ inv[k] # "none" /\ \E kind \in Kind \ {"authorize"} : Transmit(kind, intent[k].cmd)
        \/ inv[k] # "none" /\ Current(intent[k].cmd) /\ Transmit("authorize", intent[k].cmd)
    BY DEF Authorize, Resolve, Dispatch, NotDispatched, Abort, Tidy, GiveUp, GiveUpQuery, Request,
           RefusalUnreleased, OutcomeUnreleased, Name, TakeAnswer, TakeCancelled, TakeReceipt, Refused,
           Kind
  <1>3. CASE wire' = wire
    BY <1>t, <1>1, <1>3, StillTurns
  <1>4. CASE Retract(k)
    BY <1>t, <1>1, <1>4, RetractTurns
  <1>5. ASSUME inv[k] # "none", NEW kind \in Kind, Transmit(kind, intent[k].cmd),
               kind = "authorize" => Current(intent[k].cmd)
        PROVE  KeepsTurns
    BY <1>t, <1>1, <1>5, IntentUnderWay, SentTurns DEF Current
  <1> QED
    BY <1>2, <1>3, <1>4, <1>5 DEF Kind

\* Nor does an attempt, whose predecessor's grant may be renewed late.
LEMMA AttemptTurns ==
  ASSUME LinkInv, LeaseInv,
         \/ \E m \in outbox : TakePredecessor(m)
         \/ BeginAttempt \/ Reconcile \/ ReconcileQuery \/ AttemptGivesUp \/ Unlink
  PROVE  KeepsTurns
  <1>t. TypeOK /\ WireInv
    BY DEF LinkInv, LeaseInv
  <1>1. UNCHANGED <<lease, spent>>
    BY DEF TakePredecessor, BeginAttempt, Reconcile, ReconcileQuery, AttemptGivesUp, Unlink, domain
  <1>2. \/ wire' = wire
        \/ Retract(ref)
        \/ /\ att \in {"querying", "authorized"} \/ Reconcile
           /\ \E kind \in Kind : Transmit(kind, intent[ref].cmd)
    BY DEF TakePredecessor, BeginAttempt, Reconcile, ReconcileQuery, AttemptGivesUp, Unlink, Request,
           Kind
  <1>3. CASE wire' = wire
    BY <1>t, <1>1, <1>3, StillTurns
  <1>4. CASE Retract(ref)
    BY <1>t, <1>1, <1>4, RetractTurns
  <1>5. ASSUME att \in {"querying", "authorized"} \/ Reconcile, NEW kind \in Kind,
               Transmit(kind, intent[ref].cmd)
        PROVE  KeepsTurns
    <2>1. Uncertain(ref) /\ ref \in Attempt /\ ref \in Key
      BY <1>5, LinkTypes DEF LinkInv, AttemptInv, Reconcile, TypeOK
    <2>2. PICK e \in Envelope : e = intent[ref].cmd
      BY <2>1, IntentUnderWay DEF Uncertain
    <2>3. KeyOf[e] = ref
      BY <2>1, <2>2, LinkTypes, NodeLinkAssumption DEF LinkInv, IntentInv
    <2>4. ~Direct(ResourceOf[e])
      BY <2>1, <2>3 DEF Direct
    <2> QED
      BY <1>t, <1>1, <1>5, <2>2, <2>4, SentTurns
  <1> QED
    BY <1>2, <1>3, <1>4, <1>5

\* A step of the gateway may take replies, and is otherwise none of the node's.
LEMMA GatewayGoes ==
  ASSUME LinkInv, outbox' \subseteq outbox, UNCHANGED nodeButOutbox
  PROVE  NodeGoesOn
  <1>1. Agent!TakeReplies
    BY DEF Agent!TakeReplies, nodeButOutbox, Agent!socket, Agent!effects, Agent!former
  <1> QED
    BY <1>1, NodeGoes DEF Agent!GrantsNothing

\* A frame is read that grants nothing.
LEMMA ReadGoes ==
  ASSUME LinkInv, Deliver, NEW f \in Frame, f = Head(wire), f.kind # "authorize"
  PROVE  NodeGoesOn
  <1>1. f.cmd \in Envelope
    BY DEF Frame
  <1>2. CASE UNCHANGED node
    BY <1>2, GatewayGoes DEF node, nodeButOutbox
  <1>3. CASE \/ Node!Query(f.cmd) \/ Node!Cancel(f.cmd) \/ Node!Release(f.cmd)
             \/ Node!Submit(f.cmd) \/ Node!Backpressure(f.cmd)
    BY <1>1, <1>3, SameNode, NodeGoes DEF Agent!GrantsNothing
  <1> QED
    BY <1>2, <1>3 DEF Deliver

\* Every step of the link keeps the leases apart.
LEMMA LeaseStep ==
  ASSUME LinkInv, LeaseInv, Next
  PROVE  LeaseInv'
  <1>t. TypeOK /\ WireInv
    BY DEF LinkInv, LeaseInv
  <1>1. ASSUME KeepsTurns, outbox' \subseteq outbox, UNCHANGED nodeButOutbox PROVE LeaseInv'
    BY <1>1, GatewayGoes, NodeTurns
  <1>2. CASE \E e \in Envelope : Invoke(e)
    <2>1. UNCHANGED <<lease, spent, wire>> /\ outbox' \subseteq outbox /\ UNCHANGED nodeButOutbox
      BY <1>2 DEF Invoke, domain, node, nodeButOutbox
    <2> QED
      BY <1>t, <1>1, <2>1, StillTurns
  <1>3. ASSUME NEW k \in Key,
               \/ Authorize(k) \/ Resolve(k) \/ Dispatch(k) \/ NotDispatched(k) \/ Abort(k)
               \/ Tidy(k) \/ GiveUp(k) \/ GiveUpQuery(k) \/ RefusalUnreleased(k)
               \/ OutcomeUnreleased(k) \/ Name(k)
        PROVE  LeaseInv'
    <2>1. outbox' \subseteq outbox /\ UNCHANGED nodeButOutbox
      BY <1>3 DEF Authorize, Resolve, Dispatch, NotDispatched, Abort, Tidy, GiveUp, GiveUpQuery,
                  RefusalUnreleased, OutcomeUnreleased, Name, Retract, node, nodeButOutbox
    <2> QED
      BY <1>1, <1>3, <2>1, InvocationTurns
  <1>4. ASSUME NEW k \in Key, NEW m \in outbox,
               TakeAnswer(k, m) \/ TakeCancelled(k, m) \/ TakeReceipt(k, m)
        PROVE  LeaseInv'
    <2>1. outbox' \subseteq outbox /\ UNCHANGED nodeButOutbox
      BY <1>4 DEF TakeAnswer, TakeCancelled, TakeReceipt, Took
    <2> QED
      BY <1>1, <1>4, <2>1, InvocationTurns
  <1>5. CASE \/ \E m \in outbox : TakePredecessor(m)
             \/ BeginAttempt \/ Reconcile \/ ReconcileQuery \/ AttemptGivesUp \/ Unlink
    <2>1. outbox' \subseteq outbox /\ UNCHANGED nodeButOutbox
      BY <1>5 DEF TakePredecessor, Took, BeginAttempt, Reconcile, ReconcileQuery, AttemptGivesUp,
                  Unlink, Retract, node, nodeButOutbox
    <2> QED
      BY <1>1, <1>5, <2>1, AttemptTurns
  <1>6. CASE Deliver
    <2>1. UNCHANGED <<lease, spent>> /\ wire # <<>> /\ wire' = Tail(wire)
      BY <1>6 DEF Deliver, domain
    <2>2. PICK f \in Frame : f = Head(wire) /\ f = wire[1]
      BY <1>t, <2>1, WireTypes
    <2>3. CASE f.kind = "authorize"
      <3>1. Agent!Bind(f.cmd)
        BY <1>6, <2>2, <2>3, SameNode DEF Deliver
      <3> QED
        BY <1>6, <2>1, <2>2, <2>3, <3>1, BindTurns
    <2>4. CASE f.kind # "authorize"
      <3>1. KeepsTurns
        BY <1>t, <2>1, HeadTurns
      <3>2. NodeGoesOn
        BY <1>6, <2>2, <2>4, ReadGoes
      <3> QED
        BY <3>1, <3>2, NodeTurns
    <2> QED
      BY <2>3, <2>4
  <1>7. CASE NodeWorks \/ NodeLeaves \/ NodeConnects
    <2>1. UNCHANGED <<lease, spent>> /\ (wire' = wire \/ wire' = <<>>)
      BY <1>7 DEF NodeWorks, NodeLeaves, NodeConnects, gateway, domain
    <2>2. Agent!GrantsNothing
      BY <1>7, SameNode DEF NodeWorks, NodeLeaves, NodeConnects, Agent!GrantsNothing
    <2> QED
      BY <1>t, <2>1, <2>2, StillTurns, NodeGoes, NodeTurns
  <1>8. CASE GatewayLeaves \/ GatewayCrash
    <2>1. UNCHANGED <<lease, spent, wire>> /\ outbox' \subseteq outbox /\ UNCHANGED nodeButOutbox
      BY <1>8 DEF GatewayLeaves, GatewayCrash, gateway, domain, node, nodeButOutbox
    <2> QED
      BY <1>t, <1>1, <2>1, StillTurns
  <1>9. ASSUME NEW r \in Resource, NEW l \in Lease, NextLease(r, l) PROVE LeaseInv'
    <2>1. outbox' \subseteq outbox /\ UNCHANGED nodeButOutbox
      BY <1>9 DEF NextLease, node, nodeButOutbox
    <2> QED
      BY <1>t, <1>1, <1>9, <2>1, LeaseTurns
  <1>10. ASSUME NEW m \in outbox, Discard(m) PROVE LeaseInv'
    <2>1. UNCHANGED <<lease, spent, wire>> /\ outbox' \subseteq outbox /\ UNCHANGED nodeButOutbox
      BY <1>10 DEF Discard, gateway, domain, Node!TakeReply, Node!socket, Node!effects, Node!former,
                   nodeButOutbox
    <2> QED
      BY <1>t, <1>1, <2>1, StillTurns
  <1> QED
    BY <1>2, <1>3, <1>4, <1>5, <1>6, <1>7, <1>8, <1>9, <1>10 DEF Next, Steps

\* At first no lease was granted and nothing executes.
LEMMA LeaseInit == Init => LeaseInv
  <1> SUFFICES ASSUME Init PROVE LeaseInv
    OBVIOUS
  <1>1. /\ wire = <<>> /\ granted = {} /\ \A r \in Resource : owner[r] = None
        /\ \A k \in Key : held[k].phase = "idle"
    BY DEF Init, Node!Init, Node!Idle
  <1>2. Len(wire) = 0
    BY <1>1
  <1> QED
    BY <1>1, <1>2 DEF LeaseInv, WireInv, OwnerInv, ApprovedInv, FenceInv, Executes,
                      Agent!SameCommand, Agent!Approved, Agent!Entering

\* The invariant is inductive.
LEMMA LeaseKept == LinkInv /\ LeaseInv /\ [Next]_vars => LeaseInv'
  <1>1. CASE UNCHANGED vars
    BY <1>1 DEF vars, node, gateway, domain, LeaseInv, WireInv, InTurn, Ended, Grants, OwnerInv,
                ApprovedInv, FenceInv, Executes, Rivals, Agent!SameCommand, Agent!Approved,
                Agent!Entering
  <1>2. CASE Next
    BY <1>2, LeaseStep
  <1> QED
    BY <1>1, <1>2

\* Two leases never execute at the same time on a resource whose commands are invoked directly,
\* but for commands that only read: a lease that was replaced has no command that can still
\* begin to execute beside its successor's.
THEOREM DirectLeasesExclude == Spec => []ExclusiveDirectLease
  <1>1. LeaseInv => ExclusiveDirectLease
    BY DEF LeaseInv, FenceInv, ExclusiveDirectLease, Collide, Executes, Rivals
  <1>2. Spec => []LeaseInv
    BY LeaseInit, LeaseKept, LinkInvHolds, PTL DEF Spec
  <1> QED
    BY <1>1, <1>2, PTL

=============================================================================
