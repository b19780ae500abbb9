---------------------- MODULE NodeLinkCommandsProofs ----------------------
(***************************************************************************)
(* What holds of NodeLinkCommands for all keys, envelopes, resources and   *)
(* leases: the invariant behind its type and behind the single start of a  *)
(* key's effect (both theorems are in NodeLinkReceiptsProofs, which proves *)
(* the one fact about former agents this invariant needs).                 *)
(***************************************************************************)
EXTENDS NodeLinkCommands, TLAPS, SequenceTheorems

-----------------------------------------------------------------------------
(* The inductive invariant *)

KeyExpired(k) == \A e \in Envelope : KeyOf[e] = k => e \in expired

\* A held command belongs to its key, and so does every write it queued.
HeldByKey(k) ==
  /\ held[k].phase # "idle" => held[k].cmd \in Envelope /\ KeyOf[held[k].cmd] = k
  /\ \A i \in 1..Len(held[k].writes) :
       /\ held[k].writes[i].rcpt.state # "none"
       /\ held[k].writes[i].rcpt.cmd \in Envelope
       /\ KeyOf[held[k].writes[i].rcpt.cmd] = k

\* Nothing is queued for the receipt file before the command passed the fence,
\* and the file is absent between the check and the exclusive create.
BeforeFence(k) ==
  /\ held[k].phase \in {"idle", "queued", "reading", "checking", "pruning", "admitting",
                      "indexing", "fencing"}
       => held[k].writes = <<>>
  /\ held[k].phase \in {"checking", "pruning", "admitting"} => disk[k].state = "none"

DiskByKey(k) ==
  disk[k].state # "none" => disk[k].cmd \in Envelope /\ KeyOf[disk[k].cmd] = k

\* A started key leaves a receipt, or a deadline that no delivery can meet.
StartedIsKnown(k) ==
  starts[k] # 0 => disk[k].state # "none" \/ KeyExpired(k)

\* A command on its way to the executor is the first of its key.
OnTheWayIsFirst(k) ==
  \/ held[k].phase = "starting"
  \/ /\ held[k].phase \in {"pruning", "admitting", "indexing", "fencing"}
     /\ ~held[k].cancelRequested
  => starts[k] = 0

KeyInv(k) ==
  /\ HeldByKey(k)
  /\ BeforeFence(k)
  /\ DiskByKey(k)
  /\ StartedIsKnown(k) /\ OnTheWayIsFirst(k) /\ starts[k] <= 1

\* Between two agents nothing is held but cancellations still to be written.
NothingHeld ==
  \A k \in Key : /\ link = "down" => held[k].phase \in {"idle", "draining"}
                 /\ link = "recovering" => held[k].phase = "idle"

\* What a former agent has still to write concerns a receipt that exists.
FormerKnown == \A k \in leftover : disk[k].state # "none"

DeadlinesTogether ==
  \A e, f \in Envelope :
    e \in expired /\ KeyOf[e] \in BoundKey /\ KeyOf[f] = KeyOf[e] => f \in expired

\* Recovery only journals receipts that exist.
RecoversRetained == link = "recovering" => \A k \in index : disk[k].state # "none"

Inv ==
  /\ TypeOK
  /\ NothingHeld
  /\ RecoversRetained
  /\ DeadlinesTogether
  /\ \A k \in Key : KeyInv(k)

-----------------------------------------------------------------------------
(* Steps *)

\* Replies leave on the socket, any number of them at once.
TakeReplies ==
  /\ outbox' \subseteq outbox
  /\ UNCHANGED <<socket, held, disk, index, expired, effects>>

\* Next, however many replies the socket still holds.
Step ==
  \/ \E e \in Envelope : Request(e) \/ GrantExpires(e) \/ Expire(e)
  \/ \E k \in Key : Progress(k) \/ Effect(k)
  \/ Close \/ Retired \/ Connect \/ Ready \/ Crash
  \/ TakeReplies

\* The bound on the replies only leaves steps out.
LEMMA NextIsStep == [Next]_vars => [Step]_vars
  BY DEF Next, Arrives, Step, TakeReply, TakeReplies

-----------------------------------------------------------------------------
(* Types *)

\* The operators that build receipts, held commands and replies return them.
LEMMA ReceiptTypes ==
  /\ NoReceipt \in Receipt
  /\ Idle \in Held
  /\ \A e \in Envelope, s \in ReceiptState, c \in BOOLEAN : Rcpt(e, s, c) \in Receipt
  /\ \A k \in Key, via \in {"command", "cancel", "receipt"}, r \in Receipt :
       Outcome(k, via, r) \in Reply /\ Failure(k, via) \in Reply /\ Refusal(k) \in Reply
  BY DEF NoReceipt, Idle, Held, Rcpt, Receipt, ReceiptState, Terminal, Outcome, Failure,
         Refusal, Reply, Phase, Write

\* Sending replies keeps the outbox a set of replies.
LEMMA SendTypes ==
  ASSUME TypeOK, NEW msgs \in SUBSET Reply, Send(msgs)
  PROVE  outbox' \subseteq Reply
  BY DEF TypeOK, Send

\* Answering a command keeps the outbox a set of replies.
LEMMA AnswerTypes ==
  ASSUME TypeOK, NEW k \in Key, NEW r \in Receipt, Answer(k, r)
  PROVE  outbox' \subseteq Reply
  BY ReceiptTypes DEF TypeOK, Send, Answer

\* Giving grants back keeps the grant and owner tables.
LEMMA RevokeTypes ==
  ASSUME TypeOK, NEW gone, Revoke(gone)
  PROVE  granted' \subseteq Envelope /\ owner' \in [Resource -> Lease \cup {None}]
  BY DEF TypeOK, Revoke

\* A step of one held command keeps the table of held commands.
LEMMA HeldTypes ==
  ASSUME TypeOK, NEW k \in Key, NEW h \in Held
  PROVE  [held EXCEPT ![k] = h] \in [Key -> Held]
  BY DEF TypeOK

\* Queueing a write and taking the oldest one keep the list of writes.
LEMMA WriteTypes ==
  ASSUME NEW w \in Seq(Write)
  PROVE  /\ \A r \in Receipt, who \in {"run", "cancel", "retire"} :
              Append(w, [rcpt |-> r, by |-> who]) \in Seq(Write)
         /\ w # <<>> => Head(w) \in Write /\ Tail(w) \in Seq(Write)
  <1>1. ASSUME NEW r \in Receipt, NEW who \in {"run", "cancel", "retire"}
        PROVE  Append(w, [rcpt |-> r, by |-> who]) \in Seq(Write)
    <2>1. [rcpt |-> r, by |-> who] \in Write
      BY DEF Write
    <2> QED
      BY <2>1, AppendProperties
  <1>2. w # <<>> => Head(w) \in Write /\ Tail(w) \in Seq(Write)
    BY HeadTailProperties
  <1> QED
    BY <1>1, <1>2

\* The landing write is a receipt, so the files and the index keep their types.
LEMMA LandTypes ==
  ASSUME TypeOK, NEW k \in Key, held[k].writes # <<>>, WriteLands(k)
  PROVE  disk' \in [Key -> Receipt] /\ index' \subseteq Key
  <1>1. held[k].writes \in Seq(Write)
    BY DEF TypeOK, Held
  <1>2. Head(held[k].writes).rcpt \in Receipt
    BY <1>1, WriteTypes DEF Write
  <1> QED
    BY <1>2 DEF TypeOK, WriteLands

\* Initially, with nothing held and nothing retained, every variable has its type.
LEMMA InitTypes == Init => TypeOK
  <1>1. NoReceipt \in Receipt /\ Idle \in Held
    BY ReceiptTypes
  <1> SUFFICES ASSUME Init PROVE TypeOK
    OBVIOUS
  <1>2. held \in [Key -> Held] /\ disk \in [Key -> Receipt] /\ starts \in [Key -> Nat]
    BY <1>1 DEF Init
  <1>3. owner \in [Resource -> Lease \cup {None}]
    BY DEF Init
  <1> QED
    BY <1>2, <1>3 DEF Init, TypeOK

\* A request of the gateway keeps the types.
LEMMA RequestTypes ==
  ASSUME TypeOK, NEW e \in Envelope, Request(e)
  PROVE  TypeOK'
  <1> DEFINE k == KeyOf[e]
  <1>k. k \in Key /\ ResourceOf[e] \in Resource /\ LeaseOf[e] \in Lease
    BY LinkAssumption
  <1>h. held[k] \in Held
    BY <1>k DEF TypeOK
  <1>1. CASE Bind(e)
    BY <1>1, <1>k DEF TypeOK, Bind, effects, former
  <1>2. CASE Release(e)
    BY <1>2, RevokeTypes DEF TypeOK, Release, effects, former
  <1>3. CASE Submit(e)
    <2>1. CASE InPhase(k, "idle") /\ held' = [held EXCEPT ![k].phase = "queued", ![k].cmd = e]
               /\ UNCHANGED outbox
      <3>1. [held[k] EXCEPT !.phase = "queued", !.cmd = e] \in Held
        BY <1>h DEF Held, Phase
      <3>2. held' = [held EXCEPT ![k] = [held[k] EXCEPT !.phase = "queued", !.cmd = e]]
        BY <2>1
      <3> QED
        BY <1>3, <2>1, <3>1, <3>2, <1>k, HeldTypes DEF TypeOK, Submit, socket, effects, former
    <2>2. CASE Send({Failure(k, "command")}) /\ UNCHANGED held
      BY <1>3, <2>2, <1>k, ReceiptTypes, SendTypes DEF TypeOK, Submit, socket, effects, former
    <2> QED
      BY <1>3, <2>1, <2>2 DEF Submit
  <1>4. CASE Backpressure(e)
    <2>1. {Refusal(k)} \subseteq Reply
      BY <1>k, ReceiptTypes
    <2> QED
      BY <1>4, <2>1, SendTypes, RevokeTypes DEF TypeOK, Backpressure, effects, former
  <1>5. ASSUME NEW via \in {"cancel", "receipt"}, AnswerReceipt(e, via)
        PROVE  outbox' \subseteq Reply
    <2>1. disk[k] \in Receipt /\ Known(k) \in Receipt
      BY <1>k DEF TypeOK, Known, Receipt, ReceiptState, IsTerminal
    <2>2. Failure(k, via) \in Reply /\ Outcome(k, via, disk[k]) \in Reply
            /\ Outcome(k, via, Known(k)) \in Reply
      BY <2>1, <1>k, ReceiptTypes
    <2>3. \E m \in {Failure(k, via), Outcome(k, via, disk[k]), Outcome(k, via, Known(k))} : Send({m})
      BY <1>5 DEF AnswerReceipt
    <2> QED
      BY <2>2, <2>3, SendTypes
  <1>6. CASE Query(e)
    BY <1>6, <1>5 DEF TypeOK, Query, socket, effects, former
  <1>7. CASE Cancel(e)
    <2>1. CASE AnswerReceipt(e, "cancel") /\ UNCHANGED held
      BY <1>7, <1>5, <2>1 DEF TypeOK, Cancel, socket, effects, former
    <2>2. CASE held' = [held EXCEPT ![k].cancelRequested = TRUE, ![k].waiting = TRUE,
                         ![k].phase = IF @ = "queued" THEN "reading" ELSE @] /\ UNCHANGED outbox
      <3> DEFINE h == [held[k] EXCEPT !.cancelRequested = TRUE, !.waiting = TRUE,
                                       !.phase = IF @ = "queued" THEN "reading" ELSE @]
      <3>1. h \in Held
        BY <1>h DEF Held, Phase
      <3>2. held' = [held EXCEPT ![k] = h]
        BY <2>2
      <3> QED
        BY <1>7, <2>2, <3>1, <3>2, <1>k, HeldTypes DEF TypeOK, Cancel, socket, effects, former
    <2>3. CASE Send({Failure(k, "cancel")}) /\ UNCHANGED held
      BY <1>7, <2>3, <1>k, ReceiptTypes, SendTypes DEF TypeOK, Cancel, socket, effects, former
    <2> QED
      BY <1>7, <2>1, <2>2, <2>3 DEF Cancel
  <1> QED
    BY <1>1, <1>2, <1>3, <1>4, <1>6, <1>7 DEF Request

\* A refused or failed command leaves the table of held commands typed.
LEMMA EndTypes ==
  ASSUME TypeOK, NEW k \in Key, held[k].cmd \in Envelope, Refuse(k) \/ Fail(k)
  PROVE  held' \in [Key -> Held] /\ outbox' \subseteq Reply
  <1>1. held' = [held EXCEPT ![k] = Idle] /\ Idle \in Held
    BY ReceiptTypes DEF Refuse, Fail
  <1>2. {Refusal(k)} \cup (IF held[k].waiting THEN {Failure(k, "cancel")} ELSE {}) \subseteq Reply
    BY ReceiptTypes
  <1>3. {Failure(k, "command")} \cup (IF held[k].waiting THEN {Failure(k, "cancel")} ELSE {})
          \subseteq Reply
    BY ReceiptTypes
  <1>4. outbox' \subseteq Reply
    BY <1>2, <1>3, SendTypes DEF Refuse, Fail
  <1> QED
    BY <1>1, <1>4, HeldTypes

\* A step that replaces one held command by a well-formed one keeps the table.
LEMMA MoveTypes ==
  ASSUME TypeOK, NEW k \in Key, NEW p \in Phase
  PROVE  [held EXCEPT ![k].phase = p] \in [Key -> Held]
  <1>1. [held[k] EXCEPT !.phase = p] \in Held
    BY DEF TypeOK, Held
  <1>2. [held EXCEPT ![k].phase = p] = [held EXCEPT ![k] = [held[k] EXCEPT !.phase = p]]
    OBVIOUS
  <1> QED
    BY <1>1, <1>2, HeldTypes

\* Persisting a receipt keeps the table of held commands.
LEMMA PersistTypes ==
  ASSUME TypeOK, NEW k \in Key, NEW r \in Receipt, NEW who \in {"run", "cancel", "retire"},
         NEW p \in Phase, Persist(k, r, who, p)
  PROVE  held' \in [Key -> Held]
  <1> DEFINE h == [held[k] EXCEPT !.rcpt = r, !.phase = p,
                                   !.writes = Append(@, [rcpt |-> r, by |-> who])]
  <1>1. held[k] \in Held
    BY DEF TypeOK
  <1>2. Append(held[k].writes, [rcpt |-> r, by |-> who]) \in Seq(Write)
    BY <1>1, WriteTypes DEF Held
  <1>3. h \in Held
    BY <1>1, <1>2 DEF Held
  <1>4. held' = [held EXCEPT ![k] = h]
    BY DEF Persist
  <1> QED
    BY <1>3, <1>4, HeldTypes

\* A held command that is not idle carries an envelope of its key.
CmdByKey == \A k \in Key : held[k].phase # "idle" =>
              held[k].cmd \in Envelope /\ KeyOf[held[k].cmd] = k

\* The steps up to the exclusive create of the receipt keep the types.
LEMMA AdmissionTypes ==
  ASSUME TypeOK, CmdByKey, NEW k \in Key,
         \/ Dequeue(k) \/ ReadStored(k) \/ CheckAdmission(k) \/ PruneSettled(k)
         \/ WriteAdmission(k) \/ IndexAdmission(k)
  PROVE  TypeOK'
  <1>h. held[k] \in Held /\ held[k].rcpt \in Receipt /\ disk[k] \in Receipt
    BY DEF TypeOK, Held
  <1>1. CASE Dequeue(k)
    <2>c. held[k].cmd \in Envelope
      BY <1>1 DEF CmdByKey, Dequeue, InPhase
    <2>1. CASE Refuse(k)
      <3>1. granted' \subseteq Envelope /\ owner' \in [Resource -> Lease \cup {None}]
        BY <2>1, RevokeTypes DEF Refuse, TypeOK
      <3> QED
        BY <1>1, <2>1, <3>1, <2>c, EndTypes DEF TypeOK, Dequeue, effects, former
    <2>2. CASE held' = [held EXCEPT ![k].phase = "reading"] /\ UNCHANGED <<granted, owner, outbox>>
      <3>1. held' \in [Key -> Held]
        BY <2>2, MoveTypes DEF Phase
      <3> QED
        BY <1>1, <2>2, <3>1 DEF TypeOK, Dequeue, effects, former
    <2>3. CASE Fail(k) /\ UNCHANGED <<granted, owner>>
      BY <1>1, <2>3, <2>c, EndTypes DEF TypeOK, Dequeue, effects, former
    <2> QED
      BY <1>1, <2>1, <2>2, <2>3 DEF Dequeue
  <1>2. CASE ReadStored(k)
    <2>c. held[k].cmd \in Envelope
      BY <1>2 DEF CmdByKey, ReadStored, InPhase
    <2>1. CASE held' = [held EXCEPT ![k].phase = "checking"] /\ UNCHANGED <<cleanupFailed, outbox>>
      <3>1. held' \in [Key -> Held]
        BY <2>1, MoveTypes DEF Phase
      <3> QED
        BY <1>2, <2>1, <3>1 DEF TypeOK, ReadStored, effects, former
    <2>2. CASE held' = [held EXCEPT ![k] = Idle] /\ Answer(k, Known(k)) /\ NoteCloseout(Known(k))
      <3>1. Known(k) \in Receipt
        BY <1>h DEF Known, Receipt, ReceiptState, IsTerminal
      <3>2. held' \in [Key -> Held]
        BY <2>2, ReceiptTypes, HeldTypes
      <3>3. outbox' \subseteq Reply
        BY <2>2, <3>1, AnswerTypes
      <3>4. cleanupFailed' \in BOOLEAN
        BY <2>2 DEF NoteCloseout
      <3> QED
        BY <1>2, <3>2, <3>3, <3>4 DEF TypeOK, ReadStored, effects, former
    <2>3. CASE Fail(k) /\ UNCHANGED cleanupFailed
      BY <1>2, <2>3, <2>c, EndTypes DEF TypeOK, ReadStored, effects, former
    <2> QED
      BY <1>2, <2>1, <2>2, <2>3 DEF ReadStored
  <1>3. CASE CheckAdmission(k) \/ PruneSettled(k)
    <2>c. held[k].cmd \in Envelope
      BY <1>3 DEF CmdByKey, CheckAdmission, PruneSettled, InPhase
    <2>d. disk' \in [Key -> Receipt] /\ index' \subseteq Key
      <3>1. CASE CheckAdmission(k)
        BY <3>1 DEF TypeOK, CheckAdmission
      <3>2. CASE PruneSettled(k)
        BY <3>2, ReceiptTypes DEF TypeOK, PruneSettled, Prunable
      <3> QED
        BY <1>3, <3>1, <3>2
    <2>u. UNCHANGED <<link, cleanupFailed, expired, effects>>
      BY <1>3 DEF CheckAdmission, PruneSettled
    <2>1. CASE Refuse(k)
      <3>1. granted' \subseteq Envelope /\ owner' \in [Resource -> Lease \cup {None}]
        BY <2>1, RevokeTypes DEF Refuse, TypeOK
      <3> QED
        BY <2>1, <2>c, <2>d, <2>u, <3>1, EndTypes DEF TypeOK, effects, former
    <2>2. ASSUME NEW p \in {"pruning", "admitting"}, held' = [held EXCEPT ![k].phase = p],
                 UNCHANGED <<granted, owner, outbox>>
          PROVE  TypeOK'
      <3>1. held' \in [Key -> Held]
        BY <2>2, MoveTypes DEF Phase
      <3> QED
        BY <2>2, <2>d, <2>u, <3>1 DEF TypeOK, effects, former
    <2>3. \/ Refuse(k)
          \/ \E p \in {"pruning", "admitting"} : /\ held' = [held EXCEPT ![k].phase = p]
                                                /\ UNCHANGED <<granted, owner, outbox>>
      BY <1>3 DEF CheckAdmission, PruneSettled
    <2> QED
      BY <2>1, <2>2, <2>3
  <1>4. CASE WriteAdmission(k)
    <2> DEFINE r == Rcpt(held[k].cmd, "admitted", FALSE)
    <2> DEFINE h == [held[k] EXCEPT !.phase = "indexing", !.rcpt = r]
    <2>1. held[k].cmd \in Envelope
      BY <1>4 DEF CmdByKey, WriteAdmission, InPhase
    <2>2. r \in Receipt
      BY <2>1, ReceiptTypes DEF ReceiptState
    <2>3. h \in Held
      BY <1>h, <2>2 DEF Held, Phase
    <2>4. held' = [held EXCEPT ![k] = h]
      BY <1>4 DEF WriteAdmission
    <2> QED
      BY <1>4, <2>2, <2>3, <2>4, HeldTypes DEF TypeOK, WriteAdmission, socket, effects, former
  <1>5. CASE IndexAdmission(k)
    <2>1. held' \in [Key -> Held]
      BY <1>5, MoveTypes DEF IndexAdmission, Phase
    <2> QED
      BY <1>5, <2>1 DEF TypeOK, IndexAdmission, socket, effects, former
  <1> QED
    BY <1>1, <1>2, <1>3, <1>4, <1>5

\* The steps from the fence to the answer keep the types.
LEMMA ExecutionTypes ==
  ASSUME TypeOK, CmdByKey, NEW k \in Key,
         Fence(k) \/ StartEffect(k) \/ CloseCommand(k) \/ Effect(k)
  PROVE  TypeOK'
  <1>h. /\ held[k] \in Held /\ held[k].rcpt \in Receipt
        /\ held[k].writes \in Seq(Write)
    BY DEF TypeOK, Held
  <1>r. ASSUME held[k].cmd \in Envelope, NEW s \in ReceiptState, NEW c \in BOOLEAN
        PROVE  Rcpt(held[k].cmd, s, c) \in Receipt
    BY <1>r, ReceiptTypes
  <1>1. CASE Fence(k)
    <2>1. held[k].cmd \in Envelope
      BY <1>1 DEF CmdByKey, Fence, InPhase
    <2>2. /\ Rcpt(held[k].cmd, "running", FALSE) \in Receipt
          /\ Rcpt(held[k].cmd, "cancelled", TRUE) \in Receipt
          /\ Rcpt(held[k].cmd, "failed", TRUE) \in Receipt
      BY <2>1, <1>r DEF ReceiptState, Terminal
    <2>3. held' \in [Key -> Held]
      <3>1. \/ Persist(k, Rcpt(held[k].cmd, "running", FALSE), "run", "starting")
            \/ Persist(k, Rcpt(held[k].cmd, "cancelled", TRUE), "run", "closing")
            \/ Persist(k, Rcpt(held[k].cmd, "failed", TRUE), "run", "closing")
        BY <1>1 DEF Fence
      <3> QED
        BY <2>2, <3>1, PersistTypes DEF Phase
    <2> QED
      BY <1>1, <2>3 DEF TypeOK, Fence, socket, effects, former
  <1>2. CASE StartEffect(k)
    <2> DEFINE failed == Rcpt(held[k].cmd, "failed", TRUE)
    <2>1. held[k].cmd \in Envelope /\ held[k].writes # <<>>
      BY <1>2 DEF CmdByKey, StartEffect, InPhase, WriteBy
    <2>2. failed \in Receipt
      BY <2>1, <1>r DEF ReceiptState, Terminal
    <2>3. Tail(held[k].writes) \in Seq(Write)
      BY <1>h, <2>1, WriteTypes
    <2>4. Append(Tail(held[k].writes), [rcpt |-> failed, by |-> "run"]) \in Seq(Write)
      BY <2>2, <2>3, WriteTypes
    <2>5. disk' \in [Key -> Receipt] /\ index' \subseteq Key
      BY <1>2, <2>1, LandTypes DEF StartEffect
    <2>6. CASE /\ starts' = [starts EXCEPT ![k] = @ + 1]
               /\ live' = live \cup {k}
               /\ held' = [held EXCEPT ![k].phase = "executing", ![k].writes = Tail(@)]
      <3> DEFINE h == [held[k] EXCEPT !.phase = "executing", !.writes = Tail(@)]
      <3>1. h \in Held
        BY <1>h, <2>3 DEF Held, Phase
      <3>2. held' = [held EXCEPT ![k] = h]
        BY <2>6
      <3>3. held' \in [Key -> Held]
        BY <3>1, <3>2, HeldTypes
      <3>4. starts' \in [Key -> Nat] /\ live' \subseteq Key
        BY <2>6 DEF TypeOK
      <3> QED
        BY <1>2, <2>5, <3>3, <3>4 DEF TypeOK, StartEffect, socket, former
    <2>7. CASE /\ held' = [held EXCEPT ![k].phase = "settling", ![k].rcpt = failed,
                             ![k].writes = Append(Tail(@), [rcpt |-> failed, by |-> "run"])]
               /\ UNCHANGED <<starts, live>>
      <3> DEFINE h == [held[k] EXCEPT !.phase = "settling", !.rcpt = failed,
                         !.writes = Append(Tail(@), [rcpt |-> failed, by |-> "run"])]
      <3>1. h \in Held
        BY <1>h, <2>2, <2>4 DEF Held, Phase
      <3>2. held' = [held EXCEPT ![k] = h]
        BY <2>7
      <3>3. held' \in [Key -> Held]
        BY <3>1, <3>2, HeldTypes
      <3> QED
        BY <1>2, <2>5, <2>7, <3>3 DEF TypeOK, StartEffect, socket, effects, former
    <2> QED
      BY <1>2, <2>6, <2>7 DEF StartEffect
  <1>3. CASE CloseCommand(k)
    <2> DEFINE rest == Tail(held[k].writes)
    <2>1. held[k].writes # <<>>
      BY <1>3 DEF CloseCommand, WriteBy
    <2>2. rest \in Seq(Write)
      BY <1>h, <2>1, WriteTypes
    <2>3. disk' \in [Key -> Receipt] /\ index' \subseteq Key
      BY <1>3, <2>1, LandTypes DEF CloseCommand
    <2>4. outbox' \subseteq Reply
      BY <1>3, <1>h, AnswerTypes DEF CloseCommand
    <2>5. cleanupFailed' \in BOOLEAN
      BY <1>3 DEF CloseCommand, NoteCloseout
    <2> DEFINE h == IF rest = <<>> THEN Idle
                    ELSE [held[k] EXCEPT !.phase = "draining", !.writes = rest, !.waiting = FALSE]
    <2>6. h \in Held
      BY <1>h, <2>2, ReceiptTypes DEF Held, Phase
    <2>7. held' = [held EXCEPT ![k] = h]
      BY <1>3 DEF CloseCommand
    <2>8. held' \in [Key -> Held]
      BY <2>6, <2>7, HeldTypes
    <2> QED
      BY <1>3, <2>3, <2>4, <2>5, <2>8 DEF TypeOK, CloseCommand, effects, former
  <1>4. CASE OrphanEnds(k)
    BY <1>4 DEF TypeOK, OrphanEnds, socket, former
  <1>5. ASSUME NEW o \in {"completed", "unknown"}, EffectEnds(k, o)
        PROVE  TypeOK'
    <2> DEFINE state == IF o = "unknown" THEN "unknown"
                        ELSE IF held[k].aborted THEN "cancelled" ELSE o
    <2>1. held[k].cmd \in Envelope
      BY <1>5 DEF CmdByKey, EffectEnds, InPhase
    <2>2. Rcpt(held[k].cmd, state, state # "unknown") \in Receipt
      BY <2>1, <1>r DEF ReceiptState, Terminal
    <2>3. Persist(k, Rcpt(held[k].cmd, state, state # "unknown"), "run", "settling")
      BY <1>5 DEF EffectEnds
    <2>4. held' \in [Key -> Held]
      BY <2>2, <2>3, PersistTypes DEF Phase
    <2>5. live' \subseteq Key
      BY <1>5 DEF TypeOK, EffectEnds
    <2> QED
      BY <1>5, <2>4, <2>5 DEF TypeOK, EffectEnds, socket, former
  <1> QED
    BY <1>1, <1>2, <1>3, <1>4, <1>5 DEF Effect

\* Recording a cancellation, by its caller or by the retiring agent, and the
\* landing of that write keep the types.
LEMMA CancellationTypes ==
  ASSUME TypeOK, CmdByKey, NEW k \in Key,
         \/ RecordCancel(k) \/ AcknowledgeCancel(k) \/ RetireCancel(k) \/ RetireAbort(k)
  PROVE  TypeOK'
  <1> DEFINE r == Rcpt(held[k].cmd, "cancel-requested", FALSE)
  <1>h. /\ held[k] \in Held /\ held[k].rcpt \in Receipt
        /\ held[k].writes \in Seq(Write)
    BY DEF TypeOK, Held
  <1>1. CASE RecordCancel(k) \/ RetireCancel(k)
    <2>1. held[k].cmd \in Envelope
      BY <1>1 DEF CmdByKey, RecordCancel, RetireCancel, Admitted
    <2>2. r \in Receipt
      BY <2>1, ReceiptTypes DEF ReceiptState
    <2>3. \A who \in {"cancel", "retire"} :
            Append(held[k].writes, [rcpt |-> r, by |-> who]) \in Seq(Write)
      BY <1>h, <2>2, WriteTypes
    <2>4. CASE RecordCancel(k)
      <3> DEFINE h == [held[k] EXCEPT !.rcpt = r, !.waiting = FALSE,
                         !.writes = Append(@, [rcpt |-> r, by |-> "cancel"])]
      <3>1. h \in Held
        BY <1>h, <2>2, <2>3 DEF Held
      <3>2. held' = [held EXCEPT ![k] = h]
        BY <2>4 DEF RecordCancel
      <3>3. held' \in [Key -> Held]
        BY <3>1, <3>2, HeldTypes
      <3> QED
        BY <2>4, <3>3 DEF TypeOK, RecordCancel, socket, effects, former
    <2>5. CASE RetireCancel(k)
      <3> DEFINE h == [held[k] EXCEPT !.rcpt = r,
                         !.writes = Append(@, [rcpt |-> r, by |-> "retire"])]
      <3>1. h \in Held
        BY <1>h, <2>2, <2>3 DEF Held
      <3>2. held' = [held EXCEPT ![k] = h]
        BY <2>5 DEF RetireCancel
      <3>3. held' \in [Key -> Held]
        BY <3>1, <3>2, HeldTypes
      <3> QED
        BY <2>5, <3>3 DEF TypeOK, RetireCancel, socket, effects, former
    <2> QED
      BY <1>1, <2>4, <2>5
  <1>2. CASE AcknowledgeCancel(k) \/ RetireAbort(k)
    <2>1. held[k].writes # <<>>
      BY <1>2 DEF AcknowledgeCancel, RetireAbort, WriteBy
    <2>2. Tail(held[k].writes) \in Seq(Write)
      BY <1>h, <2>1, WriteTypes
    <2>3. Signalled(k) \in Held
      BY <1>h, <2>2, ReceiptTypes DEF Held, Signalled
    <2>4. held' = [held EXCEPT ![k] = Signalled(k)]
      BY <1>2 DEF AcknowledgeCancel, RetireAbort
    <2>5. held' \in [Key -> Held]
      BY <2>3, <2>4, HeldTypes
    <2>6. disk' \in [Key -> Receipt] /\ index' \subseteq Key
      BY <1>2, <2>1, LandTypes DEF AcknowledgeCancel, RetireAbort
    <2>7. Outcome(k, "cancel", held[k].rcpt) \in Reply
      BY <1>h, ReceiptTypes
    <2>8. AcknowledgeCancel(k) => outbox' \subseteq Reply
      BY <2>7, SendTypes DEF AcknowledgeCancel
    <2>9. RetireAbort(k) => outbox' \subseteq Reply
      BY DEF TypeOK, RetireAbort
    <2> QED
      BY <1>2, <2>5, <2>6, <2>8, <2>9 DEF TypeOK, AcknowledgeCancel, RetireAbort, socket, effects, former
  <1> QED
    BY <1>1, <1>2

\* The steps of the socket, the agent's boot and time keep the types.
LEMMA SocketTypes ==
  ASSUME TypeOK,
         \/ Close \/ Retired \/ Connect \/ Ready \/ Crash
         \/ \E k \in Key : RecoverInterrupted(k) \/ LeftoverLands(k)
         \/ \E e \in Envelope : GrantExpires(e) \/ Expire(e)
         \/ TakeReplies
  PROVE  TypeOK'
  <1>i. Idle \in Held
    BY ReceiptTypes
  <1>1. CASE Close
    BY <1>1, <1>i DEF TypeOK, Close, effects, former
  <1>2. CASE Retired
    BY <1>2 DEF TypeOK, Retired, effects, former
  <1>3. CASE Connect
    BY <1>3, <1>i DEF TypeOK, Connect, Retained, Unwritten
  <1>4. CASE Ready
    BY <1>4 DEF TypeOK, Ready, effects, former
  <1>5. CASE Crash
    BY <1>5, <1>i DEF TypeOK, Crash
  <1>d. ASSUME NEW k \in Key, NEW s \in {"failed", "cancel-requested"},
               disk' = [disk EXCEPT ![k].state = s, ![k].confirmed = FALSE]
        PROVE  disk' \in [Key -> Receipt]
    <2>1. disk[k] \in Receipt /\ s \in ReceiptState
      BY DEF TypeOK, ReceiptState, Terminal
    <2>2. [disk[k] EXCEPT !.state = s, !.confirmed = FALSE] \in Receipt
      BY <2>1 DEF Receipt
    <2>3. disk' = [disk EXCEPT ![k] = [disk[k] EXCEPT !.state = s, !.confirmed = FALSE]]
      BY <1>d
    <2> QED
      BY <2>2, <2>3 DEF TypeOK
  <1>10. ASSUME NEW k \in Key, LeftoverLands(k) PROVE TypeOK'
    <2>1. disk' \in [Key -> Receipt]
      BY <1>10, <1>d DEF LeftoverLands
    <2> QED
      BY <1>10, <2>1 DEF TypeOK, LeftoverLands, socket
  <1>6. ASSUME NEW k \in Key, RecoverInterrupted(k) PROVE TypeOK'
    <2>3. disk' \in [Key -> Receipt]
      BY <1>6, <1>d DEF RecoverInterrupted
    <2> QED
      BY <1>6, <2>3 DEF TypeOK, RecoverInterrupted, socket, effects, former
  <1>7. ASSUME NEW e \in Envelope, GrantExpires(e) PROVE TypeOK'
    BY <1>7, RevokeTypes DEF TypeOK, GrantExpires, effects, former
  <1>8. ASSUME NEW e \in Envelope, Expire(e) PROVE TypeOK'
    BY <1>8 DEF TypeOK, Expire, socket, effects, former
  <1>9. CASE TakeReplies
    BY <1>9 DEF TypeOK, TakeReplies, socket, effects, former
  <1> QED
    BY <1>1, <1>2, <1>3, <1>4, <1>5, <1>6, <1>7, <1>8, <1>9, <1>10

\* Every step keeps the types, given that held commands carry their envelope.
LEMMA StepTypes ==
  ASSUME TypeOK, CmdByKey, [Step]_vars
  PROVE  TypeOK'
  <1>1. ASSUME NEW e \in Envelope, Request(e) PROVE TypeOK'
    BY <1>1, RequestTypes
  <1>2. ASSUME NEW k \in Key, Progress(k) \/ Effect(k) PROVE TypeOK'
    BY <1>2, AdmissionTypes, ExecutionTypes, CancellationTypes, SocketTypes DEF Progress
  <1>3. CASE UNCHANGED vars
    BY <1>3 DEF TypeOK, vars
  <1> QED
    BY <1>1, <1>2, <1>3, SocketTypes DEF Step

-----------------------------------------------------------------------------
(* At most once *)

\* A step that leaves a key alone, while deadlines only pass, keeps its invariant.
LEMMA Frame ==
  ASSUME NEW j \in Key, KeyInv(j), held'[j] = held[j], disk'[j] = disk[j],
         starts'[j] = starts[j], expired \subseteq expired'
  PROVE  KeyInv(j)'
  BY DEF KeyInv, HeldByKey, BeforeFence, DiskByKey, StartedIsKnown, OnTheWayIsFirst, KeyExpired

\* The first write of a well-formed held command concerns its key; the rest too.
LEMMA HeadByKey ==
  ASSUME TypeOK, NEW k \in Key, KeyInv(k), held[k].writes # <<>>
  PROVE  /\ LET r == Head(held[k].writes).rcpt
            IN  r.state # "none" /\ r.cmd \in Envelope /\ KeyOf[r.cmd] = k
         /\ \A i \in 1..Len(Tail(held[k].writes)) :
              LET r == Tail(held[k].writes)[i].rcpt
              IN  r.state # "none" /\ r.cmd \in Envelope /\ KeyOf[r.cmd] = k
  <1>1. held[k].writes \in Seq(Write)
    BY DEF TypeOK, Held
  <1>2. /\ Len(held[k].writes) \in Nat \ {0}
        /\ Head(held[k].writes) = held[k].writes[1]
        /\ Len(Tail(held[k].writes)) = Len(held[k].writes) - 1
        /\ \A i \in 1..Len(Tail(held[k].writes)) : Tail(held[k].writes)[i] = held[k].writes[i + 1]
    BY <1>1, EmptySeq, HeadTailProperties
  <1> QED
    BY <1>2 DEF KeyInv, HeldByKey

\* Queueing one more write of the key keeps all queued writes on the key.
LEMMA AppendByKey ==
  ASSUME NEW w \in Seq(Write), NEW k \in Key, NEW r \in Receipt, NEW who \in {"run", "cancel", "retire"},
         r.state # "none", r.cmd \in Envelope, KeyOf[r.cmd] = k,
         \A i \in 1..Len(w) : /\ w[i].rcpt.state # "none" /\ w[i].rcpt.cmd \in Envelope
                              /\ KeyOf[w[i].rcpt.cmd] = k
  PROVE  LET a == Append(w, [rcpt |-> r, by |-> who])
         IN  \A i \in 1..Len(a) : /\ a[i].rcpt.state # "none" /\ a[i].rcpt.cmd \in Envelope
                                  /\ KeyOf[a[i].rcpt.cmd] = k
  <1>1. [rcpt |-> r, by |-> who] \in Write
    BY DEF Write
  <1>2. /\ Len(Append(w, [rcpt |-> r, by |-> who])) = Len(w) + 1
        /\ Append(w, [rcpt |-> r, by |-> who])[Len(w) + 1] = [rcpt |-> r, by |-> who]
        /\ \A i \in 1..Len(w) : Append(w, [rcpt |-> r, by |-> who])[i] = w[i]
        /\ Len(w) \in Nat
    BY <1>1, AppendProperties, LenProperties
  <1> QED
    BY <1>2

\* An idle key satisfies everything said of held commands.
LEMMA IdleInv ==
  ASSUME NEW k \in Key, KeyInv(k), held'[k] = Idle, disk'[k] = disk[k],
         starts'[k] = starts[k], expired \subseteq expired'
  PROVE  KeyInv(k)'
  <1>1. held'[k].phase = "idle" /\ held'[k].writes = <<>>
    BY DEF Idle
  <1>2. Len(held'[k].writes) = 0
    BY <1>1
  <1> QED
    BY <1>1, <1>2 DEF KeyInv, HeldByKey, BeforeFence, DiskByKey, StartedIsKnown,
                      OnTheWayIsFirst, KeyExpired

\* The requests of the gateway and the passing of deadlines keep the invariant of every key.
LEMMA RequestInv ==
  ASSUME TypeOK, NEW e \in Envelope, Request(e) \/ GrantExpires(e) \/ Expire(e),
         NEW j \in Key, KeyInv(j)
  PROVE  KeyInv(j)'
  <1> DEFINE k == KeyOf[e]
  <1>k. k \in Key
    BY LinkAssumption
  <1>1. disk' = disk /\ starts' = starts /\ expired \subseteq expired'
    BY DEF Request, Bind, Release, Submit, Backpressure, Query, Cancel, GrantExpires, Expire,
           socket, effects, former
  <1>2. CASE held' = held
    BY <1>1, <1>2, Frame
  <1>3. CASE held' # held
    <2>1. \/ /\ held[k].phase = "idle"
             /\ held' = [held EXCEPT ![k].phase = "queued", ![k].cmd = e]
          \/ /\ held[k].phase \notin {"idle", "draining"} /\ held[k].cmd = e
             /\ held' = [held EXCEPT ![k].cancelRequested = TRUE, ![k].waiting = TRUE,
                           ![k].phase = IF @ = "queued" THEN "reading" ELSE @]
      BY <1>3 DEF Request, Bind, Release, Submit, Backpressure, Query, Cancel, GrantExpires,
                  Expire, InPhase
    <2>2. CASE j # k
      <3>1. held'[j] = held[j]
        BY <2>1, <2>2, <1>k DEF TypeOK
      <3> QED
        BY <1>1, <3>1, Frame
    <2>3. CASE j = k
      <3>h. held \in [Key -> Held]
        BY DEF TypeOK
      <3>1. held'[k].writes = held[k].writes
        BY <2>1, <3>h, <1>k DEF Held
      <3>2. /\ held'[k].cmd = e
            /\ \/ held[k].phase = "idle" /\ held'[k].phase = "queued"
               \/ held[k].phase = "queued" /\ held'[k].phase = "reading"
               \/ held'[k].phase = held[k].phase /\ (held[k].cancelRequested => held'[k].cancelRequested)
        BY <2>1, <3>h, <1>k DEF Held
      <3> QED
        BY SMTT(20), <1>1, <2>3, <3>1, <3>2, <1>k
           DEF KeyInv, HeldByKey, BeforeFence, DiskByKey, StartedIsKnown, OnTheWayIsFirst, KeyExpired
    <2> QED
      BY <2>2, <2>3
  <1> QED
    BY <1>2, <1>3

\* Leaving the queue, reading the stored receipt and the admission check keep the
\* invariant: only an expired, settled receipt disappears.
LEMMA CheckInv ==
  ASSUME TypeOK, TypeOK', DeadlinesTogether, NEW k \in Key,
         Dequeue(k) \/ ReadStored(k) \/ CheckAdmission(k) \/ PruneSettled(k),
         NEW j \in Key, KeyInv(j), KeyInv(k)
  PROVE  KeyInv(j)'
  <1>t. held \in [Key -> Held] /\ disk \in [Key -> Receipt]
    BY DEF TypeOK
  <1>0. starts' = starts /\ expired' = expired
    BY DEF Dequeue, ReadStored, CheckAdmission, PruneSettled, effects, former
  <1>1. \/ held' = [held EXCEPT ![k] = Idle]
        \/ held[k].phase = "queued" /\ held' = [held EXCEPT ![k].phase = "reading"]
        \/ /\ held[k].phase = "reading" /\ disk[k].state = "none"
           /\ held' = [held EXCEPT ![k].phase = "checking"]
        \/ /\ held[k].phase = "checking"
           /\ held[k].cancelRequested \/ held[k].cmd \notin expired
           /\ held' = [held EXCEPT ![k].phase = "pruning"]
        \/ held[k].phase = "pruning" /\ held' = [held EXCEPT ![k].phase = "admitting"]
    BY DEF Dequeue, ReadStored, CheckAdmission, PruneSettled, Refuse, Fail, InPhase
  <1>2. ASSUME j # k, disk'[j] = disk[j] PROVE KeyInv(j)'
    <2>1. held'[j] = held[j]
      BY <1>1, <1>2, <1>t
    <2> QED
      BY <1>0, <1>2, <2>1, Frame
  <1>3. ASSUME j = k, disk'[k] = disk[k] PROVE KeyInv(k)'
    <2>1. CASE held' = [held EXCEPT ![k] = Idle]
      <3>1. held'[k] = Idle
        BY <2>1, <1>t
      <3> QED
        BY <1>0, <1>3, <3>1, IdleInv
    <2>2. ASSUME NEW p \in Phase, held' = [held EXCEPT ![k].phase = p]
          PROVE  /\ held'[k].phase = p /\ held'[k].cmd = held[k].cmd
                 /\ held'[k].writes = held[k].writes
                 /\ held'[k].cancelRequested = held[k].cancelRequested
      BY <2>2, <1>t DEF Held
    <2>3. CASE held[k].phase = "queued" /\ held' = [held EXCEPT ![k].phase = "reading"]
      <3>1. /\ held'[k].phase = "reading" /\ held'[k].cmd = held[k].cmd
            /\ held'[k].writes = held[k].writes
        BY <2>2, <2>3 DEF Phase
      <3> QED
        BY <1>0, <1>3, <2>3, <3>1
           DEF KeyInv, HeldByKey, BeforeFence, DiskByKey, StartedIsKnown, OnTheWayIsFirst, KeyExpired
    <2>4. CASE /\ held[k].phase = "reading" /\ disk[k].state = "none"
               /\ held' = [held EXCEPT ![k].phase = "checking"]
      <3>1. /\ held'[k].phase = "checking" /\ held'[k].cmd = held[k].cmd
            /\ held'[k].writes = held[k].writes
        BY <2>2, <2>4 DEF Phase
      <3> QED
        BY <1>0, <1>3, <2>4, <3>1
           DEF KeyInv, HeldByKey, BeforeFence, DiskByKey, StartedIsKnown, OnTheWayIsFirst, KeyExpired
    <2>5. CASE /\ held[k].phase = "checking"
               /\ held[k].cancelRequested \/ held[k].cmd \notin expired
               /\ held' = [held EXCEPT ![k].phase = "pruning"]
      <3>1. /\ held'[k].phase = "pruning" /\ held'[k].cmd = held[k].cmd
            /\ held'[k].writes = held[k].writes
            /\ held'[k].cancelRequested = held[k].cancelRequested
        BY <2>2, <2>5 DEF Phase
      <3>2. /\ held[k].cmd \in Envelope /\ KeyOf[held[k].cmd] = k /\ disk[k].state = "none"
            /\ held[k].writes = <<>>
        BY <2>5 DEF KeyInv, HeldByKey, BeforeFence
      <3>3. ~held[k].cancelRequested => starts[k] = 0
        BY <2>5, <3>2 DEF KeyInv, StartedIsKnown, KeyExpired
      <3> QED
        BY <1>0, <1>3, <3>1, <3>2, <3>3
           DEF KeyInv, HeldByKey, BeforeFence, DiskByKey, StartedIsKnown, OnTheWayIsFirst, KeyExpired
    <2>6. CASE held[k].phase = "pruning" /\ held' = [held EXCEPT ![k].phase = "admitting"]
      <3>1. /\ held'[k].phase = "admitting" /\ held'[k].cmd = held[k].cmd
            /\ held'[k].writes = held[k].writes
            /\ held'[k].cancelRequested = held[k].cancelRequested
        BY <2>2, <2>6 DEF Phase
      <3> QED
        BY <1>0, <1>3, <2>6, <3>1
           DEF KeyInv, HeldByKey, BeforeFence, DiskByKey, StartedIsKnown, OnTheWayIsFirst, KeyExpired
    <2> QED
      BY <1>1, <2>1, <2>3, <2>4, <2>5, <2>6
  <1>4. CASE disk'[j] = disk[j]
    BY <1>2, <1>3, <1>4
  <1>5. CASE disk'[j] # disk[j]
    <2>1. j \in Prunable /\ disk'[j] = NoReceipt /\ held[k].phase = "pruning"
      BY <1>5, <1>t DEF Dequeue, ReadStored, CheckAdmission, PruneSettled, InPhase
    <2>2. /\ held[j].phase \in {"idle", "queued", "draining"}
          /\ j \in BoundKey /\ disk[j].cmd \in expired /\ disk[j].state # "none"
      BY <2>1 DEF Prunable, Active, IsTerminal, Terminal
    <2>3. disk[j].cmd \in Envelope /\ KeyOf[disk[j].cmd] = j
      BY <2>2 DEF KeyInv, DiskByKey
    <2>4. KeyExpired(j)
      BY <2>2, <2>3 DEF DeadlinesTogether, KeyExpired
    <2>5. held'[j] = held[j]
      BY <1>1, <1>t, <2>1, <2>2
    <2>6. disk'[j].state = "none"
      BY <2>1 DEF NoReceipt
    <2> QED
      BY <1>0, <2>2, <2>4, <2>5, <2>6
         DEF KeyInv, HeldByKey, BeforeFence, DiskByKey, StartedIsKnown, OnTheWayIsFirst, KeyExpired
  <1> QED
    BY <1>4, <1>5

\* Creating and indexing the receipt, and the fence, keep the invariant.
LEMMA AdmitInv ==
  ASSUME TypeOK, NEW k \in Key, WriteAdmission(k) \/ IndexAdmission(k) \/ Fence(k),
         NEW j \in Key, KeyInv(j), KeyInv(k)
  PROVE  KeyInv(j)'
  <1>t. held \in [Key -> Held] /\ disk \in [Key -> Receipt]
    BY DEF TypeOK
  <1>0. starts' = starts /\ expired' = expired
    BY DEF WriteAdmission, IndexAdmission, Fence, effects, former, socket
  <1>1. CASE j # k
    <2>1. held'[j] = held[j] /\ disk'[j] = disk[j]
      BY <1>1, <1>t DEF WriteAdmission, IndexAdmission, Fence, Persist
    <2> QED
      BY <1>0, <2>1, Frame
  <1>2. CASE j = k /\ WriteAdmission(k)
    <2>1. /\ held'[k].phase = "indexing" /\ held'[k].cmd = held[k].cmd
          /\ held'[k].writes = held[k].writes
          /\ held'[k].cancelRequested = held[k].cancelRequested
          /\ disk'[k] = Rcpt(held[k].cmd, "admitted", FALSE)
          /\ held[k].phase = "admitting"
      BY <1>2, <1>t DEF WriteAdmission, Held, InPhase
    <2>2. disk'[k].state = "admitted" /\ disk'[k].cmd = held[k].cmd
      BY <2>1 DEF Rcpt
    <2> QED
      BY <1>0, <1>2, <2>1, <2>2
         DEF KeyInv, HeldByKey, BeforeFence, DiskByKey, StartedIsKnown, OnTheWayIsFirst, KeyExpired
  <1>3. CASE j = k /\ IndexAdmission(k)
    <2>1. /\ held'[k].phase = "fencing" /\ held'[k].cmd = held[k].cmd
          /\ held'[k].writes = held[k].writes
          /\ held'[k].cancelRequested = held[k].cancelRequested
          /\ held[k].phase = "indexing" /\ disk' = disk
      BY <1>3, <1>t DEF IndexAdmission, Held, InPhase
    <2> QED
      BY <1>0, <1>3, <2>1
         DEF KeyInv, HeldByKey, BeforeFence, DiskByKey, StartedIsKnown, OnTheWayIsFirst, KeyExpired
  <1>4. CASE j = k /\ Fence(k)
    <2>1. held[k].phase = "fencing" /\ disk' = disk /\ held[k] \in Held
      BY <1>4, <1>t DEF Fence, InPhase
    <2>2. held[k].cmd \in Envelope /\ KeyOf[held[k].cmd] = k /\ held[k].writes = <<>>
      BY <2>1 DEF KeyInv, HeldByKey, BeforeFence
    <2>3. PICK s \in {"running", "cancelled", "failed"}, c \in BOOLEAN, p \in {"starting", "closing"} :
            /\ Persist(k, Rcpt(held[k].cmd, s, c), "run", p)
            /\ p = "starting" => ~held[k].cancelRequested
      BY <1>4 DEF Fence
    <2> DEFINE r == Rcpt(held[k].cmd, s, c)
    <2>4. r \in Receipt
      BY <2>2, ReceiptTypes DEF ReceiptState, Terminal
    <2>5. /\ held'[k].phase = p /\ held'[k].cmd = held[k].cmd
          /\ held'[k].writes = Append(held[k].writes, [rcpt |-> r, by |-> "run"])
      BY <2>1, <2>3, <1>t DEF Persist, Held
    <2>6. r.state # "none" /\ r.cmd = held[k].cmd
      BY DEF Rcpt
    <2>7. \A i \in 1..Len(held'[k].writes) :
            /\ held'[k].writes[i].rcpt.state # "none"
            /\ held'[k].writes[i].rcpt.cmd \in Envelope
            /\ KeyOf[held'[k].writes[i].rcpt.cmd] = k
      <3>1. held[k].writes \in Seq(Write)
        BY <2>1 DEF Held
      <3>2. \A i \in 1..Len(held[k].writes) :
               /\ held[k].writes[i].rcpt.state # "none"
               /\ held[k].writes[i].rcpt.cmd \in Envelope
               /\ KeyOf[held[k].writes[i].rcpt.cmd] = k
        BY DEF KeyInv, HeldByKey
      <3> QED
        BY <2>2, <2>4, <2>5, <2>6, <3>1, <3>2, AppendByKey
    <2> QED
      BY <1>0, <1>4, <2>1, <2>2, <2>3, <2>5, <2>7
         DEF KeyInv, HeldByKey, BeforeFence, DiskByKey, StartedIsKnown, OnTheWayIsFirst, KeyExpired
  <1> QED
    BY <1>1, <1>2, <1>3, <1>4

\* A landed write that leaves the command where it is, drains it or lets go of it
\* keeps the invariant: the receipt now on disk is one of the key's own.
LEMMA LandInv ==
  ASSUME TypeOK, NEW k \in Key, KeyInv(k), held[k].writes # <<>>,
         NEW h \in Held, held'[k] = h,
         disk'[k] = Head(held[k].writes).rcpt,
         starts'[k] = starts[k], expired' = expired,
         \/ h.phase = "idle" /\ h.writes = <<>>
         \/ /\ h.writes = Tail(held[k].writes) /\ h.cmd = held[k].cmd
            /\ h.phase \in {held[k].phase, "draining"}
  PROVE  KeyInv(k)'
  <1>1. held[k].phase \in {"starting", "executing", "settling", "closing", "draining"}
    BY DEF KeyInv, BeforeFence, TypeOK, Held, Phase
  <1>2. held[k].cmd \in Envelope /\ KeyOf[held[k].cmd] = k
    BY <1>1 DEF KeyInv, HeldByKey
  <1>3. /\ disk'[k].state # "none" /\ disk'[k].cmd \in Envelope /\ KeyOf[disk'[k].cmd] = k
        /\ \A i \in 1..Len(Tail(held[k].writes)) :
              /\ Tail(held[k].writes)[i].rcpt.state # "none"
              /\ Tail(held[k].writes)[i].rcpt.cmd \in Envelope
              /\ KeyOf[Tail(held[k].writes)[i].rcpt.cmd] = k
    BY HeadByKey
  <1>4. CASE h.phase = "idle" /\ h.writes = <<>>
    <2>1. Len(h.writes) = 0
      BY <1>4
    <2> QED
      BY <1>3, <1>4, <2>1
         DEF KeyInv, HeldByKey, BeforeFence, DiskByKey, StartedIsKnown, OnTheWayIsFirst
  <1>5. CASE /\ h.writes = Tail(held[k].writes) /\ h.cmd = held[k].cmd
             /\ h.phase \in {held[k].phase, "draining"}
    BY <1>1, <1>2, <1>3, <1>5
       DEF KeyInv, HeldByKey, BeforeFence, DiskByKey, StartedIsKnown, OnTheWayIsFirst
  <1> QED
    BY <1>4, <1>5

\* Starting the effect keeps the invariant: the only start of a key finds it
\* unstarted and leaves its receipt behind.
LEMMA StartInv ==
  ASSUME TypeOK, NEW k \in Key, StartEffect(k), NEW j \in Key, KeyInv(j), KeyInv(k)
  PROVE  KeyInv(j)'
  <1>t. held \in [Key -> Held] /\ disk \in [Key -> Receipt] /\ starts \in [Key -> Nat]
    BY DEF TypeOK
  <1>0. /\ expired' = expired /\ held[k].phase = "starting" /\ held[k].writes # <<>>
        /\ disk' = [disk EXCEPT ![k] = Head(held[k].writes).rcpt]
    BY DEF StartEffect, WriteBy, WriteLands, InPhase
  <1>h. held[k] \in Held /\ held[k].writes \in Seq(Write) /\ Tail(held[k].writes) \in Seq(Write)
    BY <1>t, <1>0, WriteTypes DEF Held
  <1>c. held[k].cmd \in Envelope /\ KeyOf[held[k].cmd] = k
    BY <1>0 DEF KeyInv, HeldByKey
  <1>r. /\ disk'[k].state # "none" /\ disk'[k].cmd \in Envelope /\ KeyOf[disk'[k].cmd] = k
        /\ \A i \in 1..Len(Tail(held[k].writes)) :
              /\ Tail(held[k].writes)[i].rcpt.state # "none"
              /\ Tail(held[k].writes)[i].rcpt.cmd \in Envelope
              /\ KeyOf[Tail(held[k].writes)[i].rcpt.cmd] = k
    BY <1>0, <1>t, HeadByKey
  <1>s. starts[k] = 0
    BY <1>0 DEF KeyInv, OnTheWayIsFirst
  <1>1. CASE j # k
    <2>1. held'[j] = held[j] /\ disk'[j] = disk[j] /\ starts'[j] = starts[j]
      BY <1>0, <1>1, <1>t DEF StartEffect, effects, former
    <2> QED
      BY <1>0, <2>1, Frame
  <1>2. CASE j = k
    <2>1. CASE /\ starts' = [starts EXCEPT ![k] = @ + 1]
               /\ held' = [held EXCEPT ![k].phase = "executing", ![k].writes = Tail(@)]
      <3>1. /\ held'[k].phase = "executing" /\ held'[k].cmd = held[k].cmd
            /\ held'[k].writes = Tail(held[k].writes)
        BY <2>1, <1>t, <1>h DEF Held
      <3>2. starts'[k] = 1
        BY <1>s, <2>1, <1>t
      <3> QED
        BY <1>2, <1>c, <1>r, <3>1, <3>2
           DEF KeyInv, HeldByKey, BeforeFence, DiskByKey, StartedIsKnown, OnTheWayIsFirst
    <2>2. ASSUME NEW f, f = Rcpt(held[k].cmd, "failed", TRUE),
                 held' = [held EXCEPT ![k].phase = "settling", ![k].rcpt = f,
                             ![k].writes = Append(Tail(@), [rcpt |-> f, by |-> "run"])],
                 UNCHANGED <<starts, live>>
          PROVE  KeyInv(k)'
      <3>1. /\ held'[k].phase = "settling" /\ held'[k].cmd = held[k].cmd
            /\ held'[k].writes = Append(Tail(held[k].writes), [rcpt |-> f, by |-> "run"])
        BY <2>2, <1>t, <1>h DEF Held
      <3>2. f \in Receipt /\ f.state # "none" /\ f.cmd \in Envelope /\ KeyOf[f.cmd] = k
        BY <2>2, <1>c, ReceiptTypes DEF Rcpt, ReceiptState, Terminal
      <3>3. DiskByKey(k)' /\ StartedIsKnown(k)' /\ starts'[k] = starts[k]
        BY <1>r, <2>2 DEF DiskByKey, StartedIsKnown, effects, former
      <3>4. \A i \in 1..Len(held'[k].writes) :
              /\ held'[k].writes[i].rcpt.state # "none"
              /\ held'[k].writes[i].rcpt.cmd \in Envelope
              /\ KeyOf[held'[k].writes[i].rcpt.cmd] = k
        <4>1. PICK w \in Seq(Write) : w = Tail(held[k].writes)
          BY <1>h
        <4>2. \A i \in 1..Len(w) : /\ w[i].rcpt.state # "none" /\ w[i].rcpt.cmd \in Envelope
                                    /\ KeyOf[w[i].rcpt.cmd] = k
          BY <1>r, <4>1
        <4>3. held'[k].writes = Append(w, [rcpt |-> f, by |-> "run"])
          BY <3>1, <4>1
        <4> QED
          BY <3>2, <4>2, <4>3, AppendByKey
      <3> QED
        BY <1>c, <1>s, <3>1, <3>3, <3>4
           DEF KeyInv, HeldByKey, BeforeFence, OnTheWayIsFirst
    <2> QED
      BY <1>2, <2>1, <2>2 DEF StartEffect
  <1> QED
    BY <1>1, <1>2

\* Closing a command and acknowledging a cancellation keep the invariant.
LEMMA AnswerInv ==
  ASSUME TypeOK, NEW k \in Key, CloseCommand(k) \/ AcknowledgeCancel(k) \/ RetireAbort(k),
         NEW j \in Key, KeyInv(j), KeyInv(k)
  PROVE  KeyInv(j)'
  <1>t. held \in [Key -> Held] /\ disk \in [Key -> Receipt]
    BY DEF TypeOK
  <1>0. /\ expired' = expired /\ starts' = starts /\ held[k].writes # <<>>
        /\ disk' = [disk EXCEPT ![k] = Head(held[k].writes).rcpt]
    BY DEF CloseCommand, AcknowledgeCancel, RetireAbort, WriteBy, WriteLands, effects, former
  <1>h. held[k] \in Held /\ Tail(held[k].writes) \in Seq(Write)
    BY <1>t, <1>0, WriteTypes DEF Held
  <1>i. Idle \in Held /\ Idle.phase = "idle" /\ Idle.writes = <<>>
    BY ReceiptTypes DEF Idle
  <1>r. /\ disk'[k] = Head(held[k].writes).rcpt /\ starts'[k] = starts[k]
        /\ expired' = expired /\ held[k].writes # <<>>
    BY <1>0, <1>t
  <1>1. CASE j # k
    <2>1. held'[j] = held[j] /\ disk'[j] = disk[j]
      BY <1>0, <1>1, <1>t DEF CloseCommand, AcknowledgeCancel, RetireAbort
    <2> QED
      BY <1>0, <2>1, Frame
  <1>2. CASE j = k /\ CloseCommand(k)
    <2>1. ASSUME NEW h, h = [held[k] EXCEPT !.phase = "draining", !.writes = Tail(held[k].writes),
                                            !.waiting = FALSE],
                 held' = [held EXCEPT ![k] = h]
          PROVE  KeyInv(k)'
      <3>1. /\ h \in Held /\ h.writes = Tail(held[k].writes) /\ h.cmd = held[k].cmd
            /\ h.phase = "draining"
        BY <2>1, <1>h DEF Held, Phase
      <3>2. held'[k] = h
        BY <1>t, <2>1
      <3> QED
        BY <1>r, <3>1, <3>2, LandInv
    <2>2. CASE held' = [held EXCEPT ![k] = Idle]
      <3>1. held'[k] = Idle
        BY <1>t, <2>2
      <3> QED
        BY <1>2, <1>r, <1>i, <3>1, LandInv
    <2> QED
      BY <1>2, <2>1, <2>2 DEF CloseCommand
  <1>3. CASE j = k /\ (AcknowledgeCancel(k) \/ RetireAbort(k))
    <2>1. ASSUME NEW h, h = [held[k] EXCEPT !.aborted = TRUE, !.writes = Tail(held[k].writes)],
                 held' = [held EXCEPT ![k] = h]
          PROVE  KeyInv(k)'
      <3>1. /\ h \in Held /\ h.writes = Tail(held[k].writes) /\ h.cmd = held[k].cmd
            /\ h.phase = held[k].phase
        BY <2>1, <1>h DEF Held
      <3>2. held'[k] = h
        BY <1>t, <2>1
      <3> QED
        BY <1>r, <3>1, <3>2, LandInv
    <2>2. CASE held' = [held EXCEPT ![k] = Idle]
      <3>1. held'[k] = Idle
        BY <1>t, <2>2
      <3> QED
        BY <1>3, <1>r, <1>i, <3>1, LandInv
    <2> QED
      BY <1>3, <2>1, <2>2 DEF AcknowledgeCancel, RetireAbort, Signalled
  <1> QED
    BY <1>1, <1>2, <1>3

\* The end of an effect and the record of a cancellation keep the invariant.
LEMMA RecordInv ==
  ASSUME TypeOK, NEW k \in Key,
         \/ \E o \in {"completed", "unknown"} : EffectEnds(k, o)
         \/ OrphanEnds(k) \/ RecordCancel(k) \/ RetireCancel(k),
         NEW j \in Key, KeyInv(j), KeyInv(k)
  PROVE  KeyInv(j)'
  <1>t. held \in [Key -> Held] /\ held[k] \in Held
    BY DEF TypeOK
  <1>0. disk' = disk /\ starts' = starts /\ expired' = expired
    BY DEF EffectEnds, OrphanEnds, RecordCancel, RetireCancel, effects, former
  <1>1. CASE j # k \/ OrphanEnds(k)
    <2>1. held'[j] = held[j]
      BY <1>1, <1>t DEF EffectEnds, OrphanEnds, RecordCancel, RetireCancel, Persist
    <2> QED
      BY <1>0, <2>1, Frame
  <1>d. DiskByKey(k)' /\ StartedIsKnown(k)'
    BY <1>0 DEF KeyInv, DiskByKey, StartedIsKnown, KeyExpired
  <1>2. ASSUME NEW r \in Receipt, r.state # "none", r.cmd = held[k].cmd,
               NEW who \in {"run", "cancel", "retire"},
               held'[k].writes = Append(held[k].writes, [rcpt |-> r, by |-> who]),
               held'[k].cmd = held[k].cmd,
               held[k].phase \in {"executing", "settling"},
               held'[k].phase \in {"executing", "settling"}
        PROVE  KeyInv(k)'
    <2>1. held[k].writes \in Seq(Write)
      BY <1>t DEF Held
    <2>2. /\ held[k].cmd \in Envelope /\ KeyOf[held[k].cmd] = k
          /\ \A i \in 1..Len(held[k].writes) :
               /\ held[k].writes[i].rcpt.state # "none" /\ held[k].writes[i].rcpt.cmd \in Envelope
               /\ KeyOf[held[k].writes[i].rcpt.cmd] = k
      BY <1>2 DEF KeyInv, HeldByKey
    <2>3. \A i \in 1..Len(held'[k].writes) :
            /\ held'[k].writes[i].rcpt.state # "none"
            /\ held'[k].writes[i].rcpt.cmd \in Envelope
            /\ KeyOf[held'[k].writes[i].rcpt.cmd] = k
      BY SMTT(20), <1>2, <2>1, <2>2, AppendByKey
    <2> QED
      BY <1>0, <1>2, <1>d, <2>2, <2>3 DEF KeyInv, HeldByKey, BeforeFence, OnTheWayIsFirst
  <1>3. CASE j = k /\ \E o \in {"completed", "unknown"} : EffectEnds(k, o)
    <2>1. PICK s \in {"unknown", "cancelled", "completed", "failed"}, c \in BOOLEAN :
            Persist(k, Rcpt(held[k].cmd, s, c), "run", "settling") /\ held[k].phase = "executing"
      BY <1>3 DEF EffectEnds, InPhase
    <2>2. PICK r : r = Rcpt(held[k].cmd, s, c)
      OBVIOUS
    <2>3. held[k].cmd \in Envelope
      BY <2>1 DEF KeyInv, HeldByKey
    <2>4. r \in Receipt /\ r.state # "none" /\ r.cmd = held[k].cmd
      BY <2>2, <2>3, ReceiptTypes DEF Rcpt, ReceiptState, Terminal
    <2>5. /\ held'[k].writes = Append(held[k].writes, [rcpt |-> r, by |-> "run"])
          /\ held'[k].cmd = held[k].cmd /\ held'[k].phase = "settling"
      BY <2>1, <2>2, <1>t DEF Persist, Held
    <2> QED
      BY <1>2, <1>3, <2>1, <2>4, <2>5
  <1>4. CASE j = k /\ (RecordCancel(k) \/ RetireCancel(k))
    <2>1. held[k].phase \in {"executing", "settling"}
      BY <1>4 DEF RecordCancel, RetireCancel, Admitted
    <2>2. PICK r : r = Rcpt(held[k].cmd, "cancel-requested", FALSE)
      OBVIOUS
    <2>3. held[k].cmd \in Envelope
      BY <2>1 DEF KeyInv, HeldByKey
    <2>4. r \in Receipt /\ r.state # "none" /\ r.cmd = held[k].cmd
      BY <2>2, <2>3, ReceiptTypes DEF Rcpt, ReceiptState, Terminal
    <2>5. ASSUME RecordCancel(k)
          PROVE  /\ held'[k].writes = Append(held[k].writes, [rcpt |-> r, by |-> "cancel"])
                 /\ held'[k].cmd = held[k].cmd /\ held'[k].phase = held[k].phase
      BY <2>2, <2>5, <1>t DEF RecordCancel, Held
    <2>6. ASSUME RetireCancel(k)
          PROVE  /\ held'[k].writes = Append(held[k].writes, [rcpt |-> r, by |-> "retire"])
                 /\ held'[k].cmd = held[k].cmd /\ held'[k].phase = held[k].phase
      BY <2>2, <2>6, <1>t DEF RetireCancel, Held
    <2> QED
      BY <1>2, <1>4, <2>1, <2>4, <2>5, <2>6
  <1> QED
    BY <1>1, <1>3, <1>4

\* The socket's and the daemon's own steps keep the invariant: a crash forgets what
\* was held, and recovery rewrites the state of a receipt, never its command.
LEMMA SocketInv ==
  ASSUME TypeOK, RecoversRetained, FormerKnown,
         \/ Close \/ Retired \/ Connect \/ Ready \/ Crash
         \/ \E k \in Key : RecoverInterrupted(k) \/ LeftoverLands(k)
         \/ TakeReplies,
         NEW j \in Key, KeyInv(j)
  PROVE  KeyInv(j)'
  <1>t. held \in [Key -> Held] /\ disk \in [Key -> Receipt]
    BY DEF TypeOK
  <1>0. starts' = starts /\ expired' = expired
    BY DEF Close, Retired, Connect, Ready, Crash, RecoverInterrupted, LeftoverLands, TakeReplies, effects, former
  <1>1. held'[j] = held[j] \/ held'[j] = Idle
    BY DEF Close, Retired, Connect, Ready, Crash, RecoverInterrupted, LeftoverLands, TakeReplies
  <1>2. CASE disk' = disk
    BY <1>0, <1>1, <1>2, Frame, IdleInv
  <1>3. ASSUME NEW k \in Key, NEW s \in {"failed", "cancel-requested"}, held' = held,
               disk[k].state # "none",
               disk' = [disk EXCEPT ![k].state = s, ![k].confirmed = FALSE]
        PROVE  KeyInv(j)'
    <2>1. held'[j] = held[j] /\ disk[k] \in Receipt
      BY <1>3, <1>t
    <2>2. CASE j # k
      <3>1. disk'[j] = disk[j]
        BY <1>3, <2>2, <1>t
      <3> QED
        BY <1>0, <2>1, <3>1, Frame
    <2>3. CASE j = k
      <3>2. disk'[k].state = s /\ disk'[k].cmd = disk[k].cmd
        BY <1>3, <1>t, <2>1 DEF Receipt
      <3> QED
        BY <1>0, <1>3, <2>1, <2>3, <3>2
           DEF KeyInv, HeldByKey, BeforeFence, DiskByKey, StartedIsKnown, OnTheWayIsFirst, KeyExpired
    <2> QED
      BY <2>2, <2>3
  <1>4. ASSUME NEW k \in Key, RecoverInterrupted(k) \/ LeftoverLands(k) PROVE KeyInv(j)'
    BY <1>3, <1>4 DEF RecoverInterrupted, LeftoverLands, RecoversRetained, FormerKnown
  <1> QED
    BY <1>2, <1>4 DEF Close, Retired, Connect, Ready, Crash, TakeReplies

\* Every step of the daemon for a command happens while that command is held; once it only
\* drains its writes, it stays so until the last one has landed.
LEMMA ProgressHolds ==
  ASSUME TypeOK, NEW k \in Key, Progress(k), BeforeFence(k)
  PROVE  \/ RecoverInterrupted(k) \/ LeftoverLands(k)
         \/ /\ held[k].phase # "idle" /\ link' = link
            /\ held[k].phase = "draining" => held'[k].phase \in {"idle", "draining"}
            /\ \A j \in Key : j # k => held'[j] = held[j]
  <1>t. held \in [Key -> Held] /\ held[k] \in Held
    BY DEF TypeOK
  <1>1. CASE Dequeue(k) \/ ReadStored(k) \/ CheckAdmission(k) \/ PruneSettled(k)
    BY <1>1, <1>t DEF Dequeue, ReadStored, CheckAdmission, PruneSettled, Refuse, Fail, InPhase
  <1>2. CASE WriteAdmission(k) \/ IndexAdmission(k) \/ Fence(k)
    BY <1>2, <1>t DEF WriteAdmission, IndexAdmission, Fence, Persist, InPhase, socket
  <1>3. CASE StartEffect(k) \/ CloseCommand(k) \/ RecordCancel(k) \/ RetireCancel(k)
    BY <1>3, <1>t DEF StartEffect, CloseCommand, RecordCancel, RetireCancel, Admitted, InPhase,
                      socket
  <1>4. CASE AcknowledgeCancel(k) \/ RetireAbort(k)
    <2>1. /\ held[k].writes # <<>> /\ held' = [held EXCEPT ![k] = Signalled(k)] /\ link' = link
      BY <1>4 DEF AcknowledgeCancel, RetireAbort, WriteBy, socket
    <2>2. Signalled(k).phase \in {"idle", held[k].phase}
      BY <1>t DEF Signalled, Idle, Held
    <2>3. held[k].phase # "idle"
      BY <2>1 DEF BeforeFence
    <2> QED
      BY <1>t, <2>1, <2>2, <2>3
  <1> QED
    BY <1>1, <1>2, <1>3, <1>4 DEF Progress

\* Between two agents nothing is held but what drains, and recovery journals what is retained.
LEMMA BetweenAgents ==
  ASSUME Inv, [Step]_vars
  PROVE  NothingHeld' /\ RecoversRetained'
  <1>t. held \in [Key -> Held] /\ disk \in [Key -> Receipt] /\ index \subseteq Key
    BY DEF Inv, TypeOK
  <1>i. NothingHeld /\ RecoversRetained
    BY DEF Inv
  <1>1. ASSUME NEW e \in Envelope, Request(e) PROVE NothingHeld' /\ RecoversRetained'
    <2>1. link = "up" /\ link' = link
      BY <1>1 DEF Request, Bind, Release, Submit, Backpressure, Query, Cancel,
                  CloseoutAuthorized, Authorized, socket
    <2> QED
      BY <2>1 DEF NothingHeld, RecoversRetained
  <1>2. ASSUME NEW e \in Envelope, GrantExpires(e) \/ Expire(e)
        PROVE  NothingHeld' /\ RecoversRetained'
    BY <1>i, <1>2 DEF NothingHeld, RecoversRetained, GrantExpires, Expire, socket
  <1>3. ASSUME NEW k \in Key, Progress(k) PROVE NothingHeld' /\ RecoversRetained'
    <2>1. CASE RecoverInterrupted(k) \/ LeftoverLands(k)
      <3>1. /\ held' = held /\ link' = link /\ index' \subseteq index
            /\ \E s \in {"failed", "cancel-requested"} :
                 disk' = [disk EXCEPT ![k].state = s, ![k].confirmed = FALSE]
        BY <2>1 DEF RecoverInterrupted, LeftoverLands, socket
      <3>2. \A i \in Key : disk[i].state # "none" => disk'[i].state # "none"
        <4>1. \A i \in Key : i # k => disk'[i] = disk[i]
          BY <1>t, <3>1
        <4>2. disk[k] \in Receipt
          BY <1>t
        <4>3. disk'[k].state # "none"
          BY <1>t, <3>1, <4>2 DEF Receipt
        <4> QED
          BY <4>1, <4>3
      <3> QED
        BY <1>i, <1>t, <3>1, <3>2 DEF NothingHeld, RecoversRetained
    <2>2. CASE /\ held[k].phase # "idle" /\ link' = link
               /\ held[k].phase = "draining" => held'[k].phase \in {"idle", "draining"}
               /\ \A j \in Key : j # k => held'[j] = held[j]
      <3>1. link # "recovering"
        BY <1>i, <2>2 DEF NothingHeld
      <3>2. link = "down" => held'[k].phase \in {"idle", "draining"}
        BY <1>i, <2>2 DEF NothingHeld
      <3> QED
        BY <1>i, <2>2, <3>1, <3>2 DEF NothingHeld, RecoversRetained
    <2>3. TypeOK /\ BeforeFence(k)
      BY DEF Inv, KeyInv
    <2> QED
      BY <1>3, <2>1, <2>2, <2>3, ProgressHolds
  <1>4. ASSUME NEW k \in Key, Effect(k) PROVE NothingHeld' /\ RecoversRetained'
    <2>1. CASE OrphanEnds(k)
      BY <1>i, <2>1 DEF NothingHeld, RecoversRetained, OrphanEnds, socket
    <2>2. CASE \E o \in {"completed", "unknown"} : EffectEnds(k, o)
      <3>1. held[k].phase = "executing" /\ link' = link
        BY <2>2 DEF EffectEnds, InPhase, socket
      <3> QED
        BY <1>i, <3>1 DEF NothingHeld, RecoversRetained
    <2> QED
      BY <1>4, <2>1, <2>2 DEF Effect
  <1>5. CASE Close
    BY <1>5 DEF NothingHeld, RecoversRetained, Close
  <1>6. CASE Retired
    BY <1>6 DEF NothingHeld, RecoversRetained, Retired, Quiet
  <1>7. CASE Ready \/ TakeReplies \/ UNCHANGED vars
    BY <1>7, <1>i DEF NothingHeld, RecoversRetained, Ready, TakeReplies, socket, vars
  <1>8. CASE Connect
    BY <1>8 DEF NothingHeld, RecoversRetained, Connect, Retained, Idle
  <1>9. CASE Crash
    BY <1>9 DEF NothingHeld, RecoversRetained, Crash, Idle
  <1> QED
    BY <1>1, <1>2, <1>3, <1>4, <1>5, <1>6, <1>7, <1>8, <1>9 DEF Step

\* The deadline of a bound key is its key's: its envelopes stay expired together.
LEMMA DeadlinesInv ==
  ASSUME Inv, [Step]_vars
  PROVE  DeadlinesTogether'
  <1>1. CASE expired' = expired
    BY <1>1 DEF Inv, DeadlinesTogether
  <1>2. ASSUME NEW e \in Envelope, Expire(e) PROVE DeadlinesTogether'
    BY <1>2 DEF Inv, DeadlinesTogether, Expire
  <1>3. ASSUME NEW e \in Envelope, Request(e) \/ GrantExpires(e) PROVE expired' = expired
    BY <1>3 DEF Request, Bind, Release, Submit, Backpressure, Query, Cancel, GrantExpires
  <1>4. ASSUME NEW k \in Key, Progress(k) \/ Effect(k) PROVE expired' = expired
    BY <1>4 DEF Progress, Effect, Dequeue, ReadStored, CheckAdmission, PruneSettled,
                WriteAdmission, IndexAdmission, Fence, StartEffect, CloseCommand, RecordCancel,
                AcknowledgeCancel, RetireCancel, RetireAbort, RecoverInterrupted, LeftoverLands,
                EffectEnds, OrphanEnds
  <1>5. CASE \/ Close \/ Retired \/ Connect \/ Ready \/ Crash
             \/ TakeReplies \/ UNCHANGED vars
    BY <1>1, <1>5 DEF Close, Retired, Connect, Ready, Crash, TakeReplies, vars
  <1> QED
    BY <1>1, <1>2, <1>3, <1>4, <1>5 DEF Step

-----------------------------------------------------------------------------
(* The invariant is inductive *)

\* Initially nothing is held, retained or started.
LEMMA InvInit == Init => Inv
  <1> SUFFICES ASSUME Init PROVE Inv
    OBVIOUS
  <1>1. TypeOK
    BY InitTypes
  <1>2. NothingHeld /\ RecoversRetained /\ DeadlinesTogether
    BY DEF Init, NothingHeld, RecoversRetained, DeadlinesTogether, Idle
  <1>3. ASSUME NEW k \in Key PROVE KeyInv(k)
    <2>1. /\ held[k].phase = "idle" /\ held[k].writes = <<>>
          /\ disk[k].state = "none" /\ starts[k] = 0
      BY DEF Init, Idle, NoReceipt
    <2>2. Len(held[k].writes) = 0
      BY <2>1
    <2> QED
      BY <2>1, <2>2
         DEF KeyInv, HeldByKey, BeforeFence, DiskByKey, StartedIsKnown, OnTheWayIsFirst
  <1> QED
    BY <1>1, <1>2, <1>3 DEF Inv

\* What the type lemmas need of the held commands.
LEMMA InvHeld == Inv => CmdByKey
  BY DEF Inv, CmdByKey, KeyInv, HeldByKey

\* Every step keeps the invariant, given what former agents may still write.
LEMMA InvStep == Inv /\ FormerKnown /\ [Step]_vars => Inv'
  <1> SUFFICES ASSUME Inv, FormerKnown, [Step]_vars PROVE Inv'
    OBVIOUS
  <1>1. TypeOK'
    BY InvHeld, StepTypes DEF Inv
  <1>2. ASSUME NEW j \in Key PROVE KeyInv(j)'
    <2>1. ASSUME NEW e \in Envelope, Request(e) \/ GrantExpires(e) \/ Expire(e)
          PROVE  KeyInv(j)'
      BY <2>1, RequestInv DEF Inv
    <2>2. ASSUME NEW k \in Key, Progress(k) PROVE KeyInv(j)'
      <3>1. CASE Dequeue(k) \/ ReadStored(k) \/ CheckAdmission(k) \/ PruneSettled(k)
        BY <1>1, <3>1, CheckInv DEF Inv
      <3>2. CASE WriteAdmission(k) \/ IndexAdmission(k) \/ Fence(k)
        BY <3>2, AdmitInv DEF Inv
      <3>3. CASE StartEffect(k)
        BY <3>3, StartInv DEF Inv
      <3>4. CASE CloseCommand(k) \/ AcknowledgeCancel(k) \/ RetireAbort(k)
        BY <3>4, AnswerInv DEF Inv
      <3>5. CASE RecordCancel(k) \/ RetireCancel(k)
        BY <3>5, RecordInv DEF Inv
      <3>6. CASE RecoverInterrupted(k) \/ LeftoverLands(k)
        BY <3>6, SocketInv DEF Inv
      <3> QED
        BY <2>2, <3>1, <3>2, <3>3, <3>4, <3>5, <3>6 DEF Progress
    <2>3. ASSUME NEW k \in Key, Effect(k) PROVE KeyInv(j)'
      BY <2>3, RecordInv DEF Inv, Effect
    <2>4. CASE Close \/ Retired \/ Connect \/ Ready \/ Crash \/ TakeReplies
      BY <2>4, SocketInv DEF Inv
    <2>5. CASE UNCHANGED vars
      BY <2>5, Frame DEF Inv, vars
    <2> QED
      BY <2>1, <2>2, <2>3, <2>4, <2>5 DEF Step
  <1>3. NothingHeld' /\ RecoversRetained' /\ DeadlinesTogether'
    BY BetweenAgents, DeadlinesInv
  <1> QED
    BY <1>1, <1>2, <1>3 DEF Inv

=============================================================================
