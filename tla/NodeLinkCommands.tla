------------------------- MODULE NodeLinkCommands -------------------------
(***************************************************************************)
(* The node daemon's side of the durable command link                      *)
(* (services/node/src/link): admission, execution, cancellation,           *)
(* retirement and boot recovery of commands, each identified by a key that *)
(* outlives sockets and daemon restarts.                                   *)
(*                                                                         *)
(* An Envelope is the whole immutable request: commandId, operation,       *)
(* target, authority, deadline and input; two envelopes with one key are   *)
(* what the code tells apart by digest.  One action runs from one          *)
(* suspension point of the code (await) to the next.                       *)
(***************************************************************************)
EXTENDS Naturals, Sequences, FiniteSets

CONSTANTS
  Key,         \* command identities (commandId)
  Envelope,    \* requests that may arrive
  Resource,    \* target.resourceId
  Lease,       \* authority.lease
  KeyOf,       \* envelope -> key
  ResourceOf,  \* envelope -> resource
  LeaseOf,     \* envelope -> lease
  ReadOnly,    \* envelopes whose operation changes nothing (isReadOnly)
  BoundKey,    \* keys that carry their own deadline (nl1:<expiresAt>:...)
  Capacity,    \* retained receipt files
  MaxReplies,  \* bound of the model: replies the socket still holds when a request arrives
  None         \* no envelope, no lease

ASSUME LinkAssumption ==
  /\ KeyOf \in [Envelope -> Key]
  /\ ResourceOf \in [Envelope -> Resource]
  /\ LeaseOf \in [Envelope -> Lease]
  /\ ReadOnly \subseteq Envelope
  /\ BoundKey \subseteq Key
  /\ Capacity \in Nat \ {0}
  /\ MaxReplies \in Nat
  /\ None \notin Envelope \cup Lease

VARIABLES
  link,           \* the agent: "up", "closing" (retiring), "down", "recovering"
  cleanupFailed,  \* a retired agent could not confirm closeout (nodeLinkCloseouts)
  granted,        \* envelopes the socket's grants authorise
  owner,          \* resourceOwners: the lease a resource is bound to
  held,           \* the active map and the queue, by key
  disk,           \* durable receipt files
  index,          \* pending-resource index (keys)
  expired,        \* envelopes whose admission deadline has passed
  starts,         \* how often the effect of a key was started
  live,           \* keys whose effect may still be running
  leftover,       \* keys of which a former agent has still to write a cancellation
  overtaken,      \* keys whose boot journal such a write replaced
  outbox          \* replies written to the current socket

vars == <<link, cleanupFailed, granted, owner, held, disk, index, expired,
          starts, live, leftover, overtaken, outbox>>

socket == <<link, cleanupFailed, granted, owner>>
former == <<leftover, overtaken>>
effects == <<starts, live, former>>

-----------------------------------------------------------------------------
(* Receipts *)

Terminal == {"completed", "failed", "cancelled"}
ReceiptState == {"none", "admitted", "running", "cancel-requested", "unknown"}
                  \cup Terminal

Receipt == [cmd : Envelope \cup {None}, state : ReceiptState, confirmed : BOOLEAN]
NoReceipt == [cmd |-> None, state |-> "none", confirmed |-> FALSE]

Rcpt(e, s, c) == [cmd |-> e, state |-> s, confirmed |-> c]
IsTerminal(r) == r.state \in Terminal

\* A failed receipt without closeout is the OUTCOME_UNKNOWN journal of a boot.
LeavesIndex(r) == IsTerminal(r) /\ (r.confirmed \/ r.state = "failed")

Phase == {"idle", "queued", "reading", "checking", "pruning", "admitting", "indexing",
          "fencing", "starting", "executing", "settling", "closing", "draining"}

\* One request for a queued write of the receipt, and who awaits it.
Write == [rcpt : Receipt, by : {"run", "cancel", "retire"}]

Idle == [phase |-> "idle", cmd |-> None, rcpt |-> NoReceipt, writes |-> <<>>,
         cancelRequested |-> FALSE, aborted |-> FALSE, waiting |-> FALSE]

Held == [phase : Phase, cmd : Envelope \cup {None}, rcpt : Receipt,
         writes : Seq(Write), cancelRequested : BOOLEAN, aborted : BOOLEAN,
         waiting : BOOLEAN]

InPhase(k, p) == held[k].phase = p

\* The keys of NodeLinkCommands.active: the queue and a lone write are not in it.
Active(k) == held[k].phase \notin {"idle", "queued", "draining"}

\* The executor was called: confirmAdmission has resolved.
Admitted(k) == held[k].phase \in {"executing", "settling"}

Reply == [key : Key, via : {"command", "cancel", "receipt"},
          kind : {"receipt", "refused", "error"}, rcpt : Receipt]

Outcome(k, via, r) == [key |-> k, via |-> via, kind |-> "receipt", rcpt |-> r]
Failure(k, via) == [key |-> k, via |-> via, kind |-> "error", rcpt |-> NoReceipt]
Refusal(k) == [key |-> k, via |-> "command", kind |-> "refused", rcpt |-> NoReceipt]

\* sendResponse drops what the requesting socket can no longer carry.
Send(msgs) == outbox' = IF link = "up" THEN outbox \cup msgs ELSE outbox

\* A joined cancellation is told whatever its command is told.
Answer(k, r) ==
  Send({Outcome(k, "command", r)} \cup
       (IF held[k].waiting THEN {Outcome(k, "cancel", r)} ELSE {}))

Init ==
  /\ link = "down"
  /\ cleanupFailed = FALSE
  /\ granted = {}
  /\ owner = [r \in Resource |-> None]
  /\ held = [k \in Key |-> Idle]
  /\ disk = [k \in Key |-> NoReceipt]
  /\ index = {}
  /\ expired = {}
  /\ starts = [k \in Key |-> 0]
  /\ live = {}
  /\ leftover = {}
  /\ overtaken = {}
  /\ outbox = {}

-----------------------------------------------------------------------------
(* Grants: authority of the current socket *)

Revoke(gone) ==
  /\ granted' = granted \ gone
  /\ owner' = [r \in Resource |->
                 IF \E e \in granted \ gone : ResourceOf[e] = r THEN owner[r] ELSE None]

CloseoutAuthorized == link = "up"
Authorized(e) == link = "up" /\ e \in granted

\* Mutant: grants of the lease that was replaced stay.
BindKeepsGrants(e) ==
  /\ link = "up"
  /\ granted' = granted \cup {e}
  /\ owner' = [owner EXCEPT ![ResourceOf[e]] = LeaseOf[e]]
  /\ UNCHANGED <<link, cleanupFailed, held, disk, index, expired, effects, outbox>>

\* bind: a grant of another lease takes the resource and its grants over.
Bind(e) ==
  LET r == ResourceOf[e]
      replaced == {g \in granted : ResourceOf[g] = r /\ owner[r] # LeaseOf[e]}
  IN /\ link = "up"
     /\ granted' = (granted \ replaced) \cup {e}
     /\ owner' = [owner EXCEPT ![r] = LeaseOf[e]]
     /\ UNCHANGED <<link, cleanupFailed, held, disk, index, expired, effects, outbox>>

GrantExpires(e) ==
  /\ e \in granted
  /\ Revoke({e})
  /\ UNCHANGED <<link, cleanupFailed, held, disk, index, expired, effects, outbox>>

\* release: an unsettled retained command keeps its grant.
Releasable(e) ==
  LET r == disk[KeyOf[e]]
  IN r.state = "none" \/ (r.cmd = e /\ LeavesIndex(r))

Release(e) ==
  /\ CloseoutAuthorized /\ Releasable(e)
  /\ Revoke({e})
  /\ UNCHANGED <<link, cleanupFailed, held, disk, index, expired, effects, outbox>>

\* The deadline of a bound key is part of the key, so its envelopes expire together.
Expire(e) ==
  /\ e \notin expired
  /\ expired' = expired \cup
       {f \in Envelope : f = e \/ (KeyOf[e] \in BoundKey /\ KeyOf[f] = KeyOf[e])}
  /\ UNCHANGED <<socket, held, disk, index, effects, outbox>>

-----------------------------------------------------------------------------
(* Admission *)

\* node.link.command: the queue takes it, unless its grant is gone or the same key is
\* already on its way with other arguments.
Submit(e) ==
  LET k == KeyOf[e]
  IN /\ link = "up"
     /\ \/ /\ Authorized(e) /\ InPhase(k, "idle")
           /\ held' = [held EXCEPT ![k].phase = "queued", ![k].cmd = e]
           /\ UNCHANGED outbox
        \/ /\ ~Authorized(e) \/ (~InPhase(k, "idle") /\ held[k].cmd # e)
           /\ Send({Failure(k, "command")})
           /\ UNCHANGED held
     /\ UNCHANGED <<socket, disk, index, expired, effects>>

\* The queue's byte limit: the command is refused before anything is retained.
Backpressure(e) ==
  /\ Authorized(e)
  /\ InPhase(KeyOf[e], "idle")
  /\ Send({Refusal(KeyOf[e])})
  /\ Revoke({e})
  /\ UNCHANGED <<link, cleanupFailed, held, disk, index, expired, effects>>

\* A definitive refusal (admitted: false) also gives the grant back.
Refuse(k) ==
  /\ held' = [held EXCEPT ![k] = Idle]
  /\ Send({Refusal(k)} \cup (IF held[k].waiting THEN {Failure(k, "cancel")} ELSE {}))
  /\ IF link = "up" THEN Revoke({held[k].cmd}) ELSE UNCHANGED <<granted, owner>>

\* An admission that failed without being refused: the caller learns nothing.
Fail(k) ==
  /\ held' = [held EXCEPT ![k] = Idle]
  /\ Send({Failure(k, "command")} \cup
          (IF held[k].waiting THEN {Failure(k, "cancel")} ELSE {}))

\* The queue hands the command to run, which checks its authority first.
Dequeue(k) ==
  /\ InPhase(k, "queued")
  /\ \/ /\ held[k].cmd \in expired
        /\ Refuse(k)
     \/ /\ held[k].cmd \notin expired /\ Authorized(held[k].cmd)
        /\ held' = [held EXCEPT ![k].phase = "reading"]
        /\ UNCHANGED <<granted, owner, outbox>>
     \/ /\ held[k].cmd \notin expired /\ ~Authorized(held[k].cmd)
        /\ Fail(k)
        /\ UNCHANGED <<granted, owner>>
  /\ UNCHANGED <<link, cleanupFailed, disk, index, expired, effects>>

Known(k) == IF IsTerminal(disk[k]) THEN disk[k]
            ELSE [disk[k] EXCEPT !.state = "unknown", !.confirmed = FALSE]

\* A retiring agent that is told of an unconfirmed closeout fails its cleanup.
NoteCloseout(r) ==
  cleanupFailed' = (cleanupFailed \/ (link = "closing" /\ ~r.confirmed))

\* A retained receipt answers a second delivery; different arguments conflict.
ReadStored(k) ==
  /\ InPhase(k, "reading")
  /\ \/ /\ disk[k].state = "none"
        /\ held' = [held EXCEPT ![k].phase = "checking"]
        /\ UNCHANGED <<cleanupFailed, outbox>>
     \/ /\ disk[k].state # "none" /\ disk[k].cmd = held[k].cmd
        /\ held' = [held EXCEPT ![k] = Idle]
        /\ Answer(k, Known(k))
        /\ NoteCloseout(Known(k))
     \/ /\ disk[k].state # "none" /\ disk[k].cmd # held[k].cmd
        /\ Fail(k)
        /\ UNCHANGED cleanupFailed
  /\ UNCHANGED <<link, granted, owner, disk, index, expired, effects>>

-----------------------------------------------------------------------------
(* The resource fence and the receipt capacity *)

Contenders(k) ==
  {j \in index : j # k /\ ResourceOf[disk[j].cmd] = ResourceOf[held[k].cmd]}

Closed(j) == ~Active(j) /\ IsTerminal(disk[j]) /\ disk[j].confirmed

\* An executing command of the same lease does not block another one.
SharesLease(j, k) ==
  /\ Active(j)
  /\ held[j].rcpt.state \notin {"none", "cancel-requested", "unknown"}
  /\ LeaseOf[held[j].rcpt.cmd] = LeaseOf[held[k].cmd]

ResourceSettled(k) ==
  \/ held[k].cmd \in ReadOnly
  \/ \A j \in Contenders(k) : Closed(j) \/ SharesLease(j, k)

\* Mutant: retention counted from the settlement alone, not from the deadline.
PrunableBeforeDeadline ==
  {j \in Key : /\ j \in BoundKey
               /\ ~Active(j)
               /\ IsTerminal(disk[j]) /\ disk[j].confirmed}

\* Mutant: an outcome of unknown closeout is pruned like a settled one.
PrunableUnconfirmed ==
  {j \in Key : j \in BoundKey /\ ~Active(j) /\ IsTerminal(disk[j]) /\ disk[j].cmd \in expired}

\* Retention is over at some moment after both the deadline and the settlement.
Prunable ==
  {j \in Key : /\ j \in BoundKey
               /\ ~Active(j)
               /\ IsTerminal(disk[j]) /\ disk[j].confirmed
               /\ disk[j].cmd \in expired}

Retained == {j \in Key : disk[j].state # "none"}

\* assertResourceSettled, which drops the closed contenders it meets from the index, and the
\* deadline.  A cancellation needs neither a free resource nor a running deadline.
CheckAdmission(k) ==
  /\ InPhase(k, "checking")
  /\ LET closed == {j \in Contenders(k) : Closed(j)}
         spared == held[k].cancelRequested \/ held[k].cmd \in ReadOnly
     IN \/ /\ held[k].cancelRequested
              \/ (ResourceSettled(k) /\ held[k].cmd \notin expired)
           /\ index' = IF spared THEN index ELSE index \ closed
           /\ held' = [held EXCEPT ![k].phase = "pruning"]
           /\ UNCHANGED <<granted, owner, outbox>>
        \/ /\ ~held[k].cancelRequested
           /\ ~ResourceSettled(k) \/ held[k].cmd \in expired
           /\ \E met \in SUBSET closed : index' = IF spared THEN index ELSE index \ met
           /\ Refuse(k)
  /\ UNCHANGED <<link, cleanupFailed, disk, expired, effects>>

\* pruneSettled and the capacity.  A receipt is read and unlinked, and what is left is
\* counted, in one step: what else happens meanwhile can be ordered before or after it.
PruneSettled(k) ==
  /\ InPhase(k, "pruning")
  /\ \E pruned \in SUBSET Prunable :
       /\ disk' = [j \in Key |-> IF j \in pruned THEN NoReceipt ELSE disk[j]]
       /\ index' = index \ pruned
       /\ IF Cardinality(Retained \ pruned) < Capacity
            THEN /\ held' = [held EXCEPT ![k].phase = "admitting"]
                 /\ UNCHANGED <<granted, owner, outbox>>
            ELSE Refuse(k)
  /\ UNCHANGED <<link, cleanupFailed, expired, effects>>

-----------------------------------------------------------------------------
(* Durable admission, the second authority check, the effect *)

\* The exclusive create of the receipt file: from here the key is never fresh again.
WriteAdmission(k) ==
  LET r == Rcpt(held[k].cmd, "admitted", FALSE)
  IN /\ InPhase(k, "admitting")
     /\ disk' = [disk EXCEPT ![k] = r]
     /\ held' = [held EXCEPT ![k].phase = "indexing", ![k].rcpt = r]
     /\ UNCHANGED <<socket, index, expired, effects, outbox>>

\* Mutant: the index maps the resource to the key, not the key to the resource.
IndexByResource(k) ==
  /\ InPhase(k, "indexing")
  /\ index' = index \cup {ResourceOf[held[k].cmd]}
  /\ held' = [held EXCEPT ![k].phase = "fencing"]
  /\ UNCHANGED <<socket, disk, expired, effects, outbox>>

IndexAdmission(k) ==
  /\ InPhase(k, "indexing")
  /\ index' = index \cup {k}
  /\ held' = [held EXCEPT ![k].phase = "fencing"]
  /\ UNCHANGED <<socket, disk, expired, effects, outbox>>

\* persist: the held receipt changes now, its file when the queued write lands.
Persist(k, r, who, phase) ==
  held' = [held EXCEPT ![k].rcpt = r, ![k].phase = phase,
                       ![k].writes = Append(@, [rcpt |-> r, by |-> who])]

\* Mutant: losing authority after admission is not turned into an outcome.
FenceWithoutFailure(k) ==
  LET h == held[k]
      permitted == Authorized(h.cmd) /\ h.cmd \notin expired
  IN /\ InPhase(k, "fencing")
     /\ \/ /\ permitted /\ ~h.cancelRequested
           /\ Persist(k, Rcpt(h.cmd, "running", FALSE), "run", "starting")
        \/ /\ h.cancelRequested
           /\ Persist(k, Rcpt(h.cmd, "cancelled", TRUE), "run", "closing")
     /\ UNCHANGED <<socket, disk, index, expired, effects, outbox>>

\* Authority, deadline and cancellation are read again after admission.
Fence(k) ==
  LET h == held[k]
      permitted == IF h.cancelRequested THEN CloseoutAuthorized
                   ELSE Authorized(h.cmd) /\ h.cmd \notin expired
  IN /\ InPhase(k, "fencing")
     /\ \/ /\ permitted /\ ~h.cancelRequested
           /\ Persist(k, Rcpt(h.cmd, "running", FALSE), "run", "starting")
        \/ /\ h.cancelRequested
           /\ Persist(k, Rcpt(h.cmd, "cancelled", TRUE), "run", "closing")
        \/ /\ ~permitted /\ ~h.cancelRequested
           /\ Persist(k, Rcpt(h.cmd, "failed", TRUE), "run", "closing")
     /\ UNCHANGED <<socket, disk, index, expired, effects, outbox>>

\* The oldest queued write reaches the receipt file and the index.
WriteLands(k) ==
  LET r == Head(held[k].writes).rcpt
  IN /\ disk' = [disk EXCEPT ![k] = r]
     /\ index' = IF LeavesIndex(r) THEN index \ {k} ELSE index \cup {k}

WriteBy(k, who) == held[k].writes # <<>> /\ Head(held[k].writes).by = who

\* The running receipt is durable: execute checks authority once more, then acts.
StartEffect(k) ==
  LET h == held[k]
      failed == Rcpt(h.cmd, "failed", TRUE)
  IN /\ InPhase(k, "starting") /\ WriteBy(k, "run")
     /\ WriteLands(k)
     /\ \/ /\ Authorized(h.cmd)
           /\ starts' = [starts EXCEPT ![k] = @ + 1]
           /\ live' = live \cup {k}
           /\ held' = [held EXCEPT ![k].phase = "executing", ![k].writes = Tail(@)]
        \/ /\ ~Authorized(h.cmd)
           /\ held' = [held EXCEPT ![k].phase = "settling", ![k].rcpt = failed,
                                   ![k].writes = Append(Tail(@), [rcpt |-> failed, by |-> "run"])]
           /\ UNCHANGED <<starts, live>>
     /\ UNCHANGED <<socket, expired, former, outbox>>

\* Mutant: every return of the executor counts as confirmed closeout.
EffectEndsConfirmed(k, outcome) ==
  LET state == IF held[k].aborted THEN "cancelled"
               ELSE IF outcome = "unknown" THEN "failed" ELSE outcome
  IN /\ InPhase(k, "executing")
     /\ Persist(k, Rcpt(held[k].cmd, state, TRUE), "run", "settling")
     /\ live' \in {live \ {k}} \cup (IF outcome = "unknown" THEN {live} ELSE {})
     /\ UNCHANGED <<socket, disk, index, expired, starts, former, outbox>>

\* The executor returns or throws.  Without confirmed closeout the effect may go on.  (One that
\* throws with its closeout confirmed is recorded as failed: settled, like one that completed.)
EffectEnds(k, outcome) ==
  LET state == IF outcome = "unknown" THEN "unknown"
               ELSE IF held[k].aborted THEN "cancelled" ELSE outcome
  IN /\ InPhase(k, "executing")
     /\ Persist(k, Rcpt(held[k].cmd, state, state # "unknown"), "run", "settling")
     /\ live' \in {live \ {k}} \cup (IF outcome = "unknown" THEN {live} ELSE {})
     /\ UNCHANGED <<socket, disk, index, expired, starts, former, outbox>>

\* An effect nobody watches any more (unknown closeout, dead daemon) stops.
OrphanEnds(k) ==
  /\ k \in live /\ ~InPhase(k, "executing")
  /\ live' = live \ {k}
  /\ UNCHANGED <<socket, held, disk, index, expired, starts, former, outbox>>

\* Mutant: a command that settles without having run is never closed.
CloseExecutedOnly(k) ==
  LET rest == Tail(held[k].writes)
  IN /\ InPhase(k, "settling") /\ WriteBy(k, "run")
     /\ WriteLands(k)
     /\ Answer(k, held[k].rcpt)
     /\ NoteCloseout(held[k].rcpt)
     /\ held' = [held EXCEPT ![k] =
          IF rest = <<>> THEN Idle
          ELSE [@ EXCEPT !.phase = "draining", !.writes = rest, !.waiting = FALSE]]
     /\ UNCHANGED <<link, granted, owner, expired, effects>>

\* The last receipt of run is durable: only now is the command answered.
CloseCommand(k) ==
  LET rest == Tail(held[k].writes)
  IN /\ held[k].phase \in {"settling", "closing"} /\ WriteBy(k, "run")
     /\ WriteLands(k)
     /\ Answer(k, held[k].rcpt)
     /\ NoteCloseout(held[k].rcpt)
     /\ held' = [held EXCEPT ![k] =
          IF rest = <<>> THEN Idle
          ELSE [@ EXCEPT !.phase = "draining", !.writes = rest, !.waiting = FALSE]]
     /\ UNCHANGED <<link, granted, owner, expired, effects>>

-----------------------------------------------------------------------------
(* Receipt query and cancellation *)

\* receipt: what is durable, never an execution.
AnswerReceipt(e, via) ==
  LET k == KeyOf[e]
      r == IF Active(k) THEN disk[k] ELSE Known(k)
  IN IF disk[k].state = "none" \/ disk[k].cmd # e
       THEN Send({Failure(k, via)})
       ELSE Send({Outcome(k, via, r)})

Query(e) ==
  /\ CloseoutAuthorized
  /\ AnswerReceipt(e, "receipt")
  /\ UNCHANGED <<socket, held, disk, index, expired, effects>>

\* A queued command leaves the queue as a cancellation; a running one is marked.
Cancel(e) ==
  LET k == KeyOf[e]
  IN /\ CloseoutAuthorized
     /\ \/ /\ held[k].phase \in {"idle", "draining"}
           /\ AnswerReceipt(e, "cancel")
           /\ UNCHANGED held
        \/ /\ held[k].phase \notin {"idle", "draining"} /\ held[k].cmd = e
           /\ ~held[k].cancelRequested  \* the gateway cancels a dispatch once
           /\ held' = [held EXCEPT ![k].cancelRequested = TRUE, ![k].waiting = TRUE,
                         ![k].phase = IF @ = "queued" THEN "reading" ELSE @]
           /\ UNCHANGED outbox
        \/ /\ held[k].phase \notin {"idle", "draining"} /\ held[k].cmd # e
           /\ Send({Failure(k, "cancel")})
           /\ UNCHANGED held
     /\ UNCHANGED <<socket, disk, index, expired, effects>>

\* Mutant: the cancellation overwrites an outcome that is already known.
RecordCancelAlways(k) ==
  LET r == Rcpt(held[k].cmd, "cancel-requested", FALSE)
  IN /\ Admitted(k) /\ held[k].waiting
     /\ held' = [held EXCEPT ![k].rcpt = r, ![k].waiting = FALSE,
                   ![k].writes = Append(@, [rcpt |-> r, by |-> "cancel"])]
     /\ UNCHANGED <<socket, disk, index, expired, effects, outbox>>

\* Mutant: the cancellation is acknowledged before its receipt is written.
RecordCancelEarly(k) ==
  LET r == Rcpt(held[k].cmd, "cancel-requested", FALSE)
  IN /\ Admitted(k) /\ held[k].waiting
     /\ ~IsTerminal(held[k].rcpt)
     /\ held' = [held EXCEPT ![k].rcpt = r, ![k].waiting = FALSE,
                   ![k].writes = Append(@, [rcpt |-> r, by |-> "cancel"])]
     /\ Send({Outcome(k, "cancel", r)})
     /\ UNCHANGED <<socket, disk, index, expired, effects>>

\* After admission: the intent is recorded unless the outcome is already known.
RecordCancel(k) ==
  LET r == Rcpt(held[k].cmd, "cancel-requested", FALSE)
  IN /\ Admitted(k) /\ held[k].waiting
     /\ ~IsTerminal(held[k].rcpt)
     /\ held' = [held EXCEPT ![k].rcpt = r, ![k].waiting = FALSE,
                   ![k].writes = Append(@, [rcpt |-> r, by |-> "cancel"])]
     /\ UNCHANGED <<socket, disk, index, expired, effects, outbox>>

\* The held command once its cancellation is durable and its executor signalled.
Signalled(k) ==
  LET rest == Tail(held[k].writes)
  IN IF InPhase(k, "draining") /\ rest = <<>> THEN Idle
     ELSE [held[k] EXCEPT !.aborted = TRUE, !.writes = rest]

\* The intent is durable: signal the original execution and acknowledge.
AcknowledgeCancel(k) ==
  /\ WriteBy(k, "cancel")
  /\ WriteLands(k)
  /\ held' = [held EXCEPT ![k] = Signalled(k)]
  /\ Send({Outcome(k, "cancel", held[k].rcpt)})
  /\ UNCHANGED <<socket, expired, effects>>

-----------------------------------------------------------------------------
(* The socket closes, the agent retires, a new agent recovers *)

\* Authority ends at once; queued commands are rejected, executions keep closeout.
Close ==
  /\ link \in {"up", "recovering"}
  /\ link' = "closing"
  /\ granted' = {}
  /\ owner' = [r \in Resource |-> None]
  /\ held' = [k \in Key |-> IF InPhase(k, "queued") THEN Idle ELSE held[k]]
  /\ outbox' = {}
  /\ UNCHANGED <<cleanupFailed, disk, index, expired, effects>>

\* retire: each admitted, unfinished command records a cancellation.
RetireCancel(k) ==
  LET r == Rcpt(held[k].cmd, "cancel-requested", FALSE)
  IN /\ link = "closing" /\ Admitted(k)
     /\ ~IsTerminal(held[k].rcpt)
     /\ \A i \in DOMAIN held[k].writes : held[k].writes[i].by # "retire"
     /\ ~held[k].aborted
     /\ held' = [held EXCEPT ![k].rcpt = r,
                   ![k].writes = Append(@, [rcpt |-> r, by |-> "retire"])]
     /\ UNCHANGED <<socket, disk, index, expired, effects, outbox>>

RetireAbort(k) ==
  /\ WriteBy(k, "retire")
  /\ WriteLands(k)
  /\ held' = [held EXCEPT ![k] = Signalled(k)]
  /\ UNCHANGED <<socket, expired, effects, outbox>>

\* retire waits for the commands of active and for its own writes; a cancellation whose
\* command has left active may still be queued.
Quiet ==
  \A k \in Key : /\ held[k].phase \in {"idle", "draining"}
                 /\ \A i \in DOMAIN held[k].writes : held[k].writes[i].by # "retire"

Retired ==
  /\ link = "closing" /\ Quiet
  /\ link' = "down"
  /\ UNCHANGED <<cleanupFailed, granted, owner, held, disk, index, expired, effects, outbox>>

\* What the agents before this one have not written yet: a command is cancelled once.
Unwritten == leftover \cup {k \in Key : InPhase(k, "draining")}

\* Mutant: the index is trusted as it was, not rebuilt from the receipts.
ConnectWithOldIndex ==
  /\ link = "down" /\ ~cleanupFailed
  /\ link' = "recovering"
  /\ held' = [k \in Key |-> Idle]
  /\ leftover' = Unwritten
  /\ overtaken' = {}
  /\ UNCHANGED <<cleanupFailed, granted, owner, disk, index, expired, starts, live, outbox>>

\* The next agent is served only when every earlier one confirmed its cleanup.
\* Its first request rebuilds the index from the receipts.
Connect ==
  /\ link = "down" /\ ~cleanupFailed
  /\ link' = "recovering"
  /\ index' = {k \in Retained : ~IsTerminal(disk[k])}
  /\ held' = [k \in Key |-> Idle]
  /\ leftover' = Unwritten
  /\ overtaken' = {}
  /\ UNCHANGED <<cleanupFailed, granted, owner, disk, expired, starts, live, outbox>>

\* The cancellation of a former agent reaches the file.  The agent in service does not learn
\* of it: the write is indexed by the former one, whose socket is gone.
LeftoverLands(k) ==
  /\ k \in leftover
  /\ disk' = [disk EXCEPT ![k].state = "cancel-requested", ![k].confirmed = FALSE]
  /\ leftover' = leftover \ {k}
  /\ overtaken' = overtaken \cup ({k} \ index)
  /\ UNCHANGED <<socket, held, index, expired, starts, live, outbox>>

RecoverInterrupted(k) ==
  /\ link = "recovering" /\ k \in index
  /\ disk' = [disk EXCEPT ![k].state = "failed", ![k].confirmed = FALSE]
  /\ index' = index \ {k}
  /\ UNCHANGED <<socket, held, expired, effects, outbox>>

Ready ==
  /\ link = "recovering" /\ index = {}
  /\ link' = "up"
  /\ UNCHANGED <<cleanupFailed, granted, owner, held, disk, index, expired, effects, outbox>>

\* The daemon dies: memory is lost, receipts stay, child processes may survive.
Crash ==
  /\ link' = "down"
  /\ cleanupFailed' = FALSE
  /\ granted' = {}
  /\ owner' = [r \in Resource |-> None]
  /\ held' = [k \in Key |-> Idle]
  /\ index' = {}
  /\ outbox' = {}
  /\ live' \in SUBSET live
  /\ leftover' = {}
  /\ overtaken' = {}
  /\ UNCHANGED <<disk, expired, starts>>

\* The response leaves on the socket.
TakeReply(m) ==
  /\ m \in outbox
  /\ outbox' = outbox \ {m}
  /\ UNCHANGED <<socket, held, disk, index, expired, effects>>

-----------------------------------------------------------------------------

Request(e) ==
  Bind(e) \/ Release(e) \/ Submit(e) \/ Backpressure(e) \/ Query(e) \/ Cancel(e)

Arrives(e) == Cardinality(outbox) < MaxReplies /\ Request(e)

\* Steps the daemon owes a held command.
Progress(k) ==
  \/ Dequeue(k) \/ ReadStored(k) \/ CheckAdmission(k) \/ PruneSettled(k)
  \/ WriteAdmission(k) \/ IndexAdmission(k) \/ Fence(k) \/ StartEffect(k) \/ CloseCommand(k)
  \/ RecordCancel(k) \/ AcknowledgeCancel(k)
  \/ RetireCancel(k) \/ RetireAbort(k) \/ RecoverInterrupted(k)
  \/ LeftoverLands(k)

Effect(k) ==
  \/ \E outcome \in {"completed", "unknown"} : EffectEnds(k, outcome)
  \/ OrphanEnds(k)

Next ==
  \/ \E e \in Envelope : Arrives(e) \/ GrantExpires(e) \/ Expire(e)
  \/ \E k \in Key : Progress(k) \/ Effect(k)
  \/ Close \/ Retired \/ Connect \/ Ready \/ Crash
  \/ \E m \in outbox : TakeReply(m)

Spec == Init /\ [][Next]_vars

\* The event loop runs what is ready, writes land, executions end and sockets reconnect.
Fairness ==
  /\ \A k \in Key : WF_vars(Progress(k))
  /\ \A k \in Key : WF_vars(\E o \in {"completed", "unknown"} : EffectEnds(k, o))
  /\ WF_vars(Retired) /\ WF_vars(Connect) /\ WF_vars(Ready)

FairSpec == Spec /\ Fairness

-----------------------------------------------------------------------------
(* Properties *)

\* Every variable keeps its shape.
TypeOK ==
  /\ link \in {"up", "closing", "down", "recovering"}
  /\ cleanupFailed \in BOOLEAN
  /\ granted \subseteq Envelope
  /\ owner \in [Resource -> Lease \cup {None}]
  /\ held \in [Key -> Held]
  /\ disk \in [Key -> Receipt]
  /\ index \subseteq Key
  /\ expired \subseteq Envelope
  /\ starts \in [Key -> Nat]
  /\ live \subseteq Key
  /\ leftover \subseteq Key
  /\ overtaken \subseteq Key
  /\ outbox \subseteq Reply

\* However often a key is delivered, across sockets, daemon restarts, cancellation
\* and pruning of its receipt, its effect starts at most once.
AtMostOnce == \A k \in Key : starts[k] <= 1

\* A confirmed closeout, durable or answered, is never about an effect that may
\* still be running: the caller may build on it.
ConfirmedIsOver ==
  /\ \A k \in Key : disk[k].confirmed => k \notin live
  /\ \A m \in outbox : m.rcpt.confirmed => m.key \notin live

\* Outcomes and boot journals are not rewritten: a terminal receipt stays as it is until it
\* is pruned, and no step that finds it starts its effect.  The one exception: an agent that
\* retires leaves a cancellation of a command of unknown outcome unwritten, the next one
\* journals the command as failed, and the cancellation then replaces the journal.
TerminalIsFinal ==
  [][\A k \in Key : IsTerminal(disk[k]) =>
        /\ \/ disk'[k] \in {disk[k], NoReceipt}
           \/ /\ ~disk[k].confirmed /\ k \in leftover
              /\ disk'[k] = Rcpt(disk[k].cmd, "cancel-requested", FALSE)
        /\ starts'[k] = starts[k]]_vars

\* What keeps successors off a resource: while the agent serves, every unfinished receipt
\* is in the pending index, except between its create and its indexing, and except a
\* journal that a former agent's cancellation replaced.
UnfinishedIsIndexed ==
  link = "up" =>
    \A k \in Key : disk[k].state # "none" /\ ~IsTerminal(disk[k]) =>
      k \in index \/ InPhase(k, "indexing") \/ k \in overtaken

\* An acknowledged cancellation survives the daemon: the durable receipt holds the
\* intent or an outcome, never again "running".  Once its receipt was pruned the key can
\* be admitted again, but only to be cancelled.
CancelIsDurable ==
  \A m \in outbox : m.via = "cancel" /\ m.kind = "receipt" =>
    /\ disk[m.key].state # "running"
    /\ disk[m.key].state = "admitted" => held[m.key].cancelRequested

\* An effect that may be running is known to the receipts: after any crash its
\* key is retained, so nothing takes it for a fresh one.
RunningIsRetained == \A k \in live : disk[k].state # "none"

\* The protocol reference: "Persist terminal outcome before acknowledging it"
\* (docs/reference/node-link-protocol.md).
OutcomeIsDurable ==
  \A m \in outbox : IsTerminal(m.rcpt) => disk[m.key] \in {m.rcpt, NoReceipt}

\* A cancellation that reached a held command is answered or its socket is gone.
CancelSettles == \A k \in Key : held[k].waiting ~> ~held[k].waiting

\* A command the queue took always leaves the daemon's memory again, and so the retirement
\* of an agent, which waits for all of them to close out, comes to an end.
CommandsSettle ==
  /\ \A k \in Key : InPhase(k, "queued") ~> InPhase(k, "idle")
  /\ (link = "closing") ~> (link = "down")

=============================================================================
