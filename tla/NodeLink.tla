----------------------------- MODULE NodeLink -----------------------------
(***************************************************************************)
(* The durable command link end to end: the gateway's intents and attempt  *)
(* references (services/gateway/src/fleet/node-link.ts, node-link-         *)
(* attempt.ts), the socket with its frames, and the node daemon of module  *)
(* NodeLinkCommands.  Both processes may die, frames and answers may be    *)
(* lost, and calls may time out while their frame is still on its way.     *)
(*                                                                         *)
(* A call that is answered without a receipt (authorize, release) goes on  *)
(* when the node has processed its frame; losing that answer is giving up. *)
(* One clock serves both processes.                                        *)
(***************************************************************************)
EXTENDS Naturals, Sequences, FiniteSets

CONSTANTS
  Key, Envelope, Resource, Lease, KeyOf, ResourceOf, LeaseOf, ReadOnly, BoundKey,
  Capacity, MaxReplies, None,   \* see NodeLinkCommands
  Attempt,                      \* keys invokeNodeLinkAttempt makes up for one task
  MaxWire,                      \* bound of the model: frames on the socket
  Faults                        \* bound of the model: the disturbances of an instance

VARIABLES
  link, cleanupFailed, granted, owner, held, disk, index, expired, starts, live,
  leftover, overtaken, outbox,   \* see NodeLinkCommands
  intent,  \* durable intent files
  ref,     \* durable attempt reference of the task
  inv,     \* pendingInvocations
  att,     \* the task's invokeNodeLinkAttempt
  made,    \* keys made up so far
  wire,    \* frames from the gateway the node has not read
  online,  \* the gateway holds the socket for open
  lease,   \* the lease each resource has in the gateway
  spent    \* leases that have ended

node == <<link, cleanupFailed, granted, owner, held, disk, index, expired, starts, live,
          leftover, overtaken, outbox>>
domain == <<lease, spent>>
gateway == <<intent, ref, inv, att, made, domain>>
vars == <<node, gateway, wire, online>>

Node == INSTANCE NodeLinkCommands

ASSUME NodeLinkAssumption ==
  /\ KeyOf \in [Envelope -> Key]
  /\ \A k \in Key : \E e \in Envelope : KeyOf[e] = k
  /\ ResourceOf \in [Envelope -> Resource]
  /\ LeaseOf \in [Envelope -> Lease]
  /\ ReadOnly \subseteq Envelope
  /\ Capacity \in Nat \ {0}
  /\ MaxReplies \in Nat
  /\ None \notin Envelope \cup Lease \cup Key
  /\ Attempt \subseteq BoundKey
  /\ BoundKey = Key
  /\ MaxWire \in Nat \ {0}
  /\ Faults \subseteq {"abort", "crash", "disconnect"}

Kind == {"authorize", "command", "receipt", "cancel", "release"}
Frame == [kind : Kind, cmd : Envelope]
Intent == [cmd : Envelope \cup {None}, sent : BOOLEAN, rcpt : Node!Receipt]
NoIntent == [cmd |-> None, sent |-> FALSE, rcpt |-> Node!NoReceipt]

\* The steps of invokeUnqueued that wait: for the intent file, an answer, a file.
Phase == {"none", "intended", "authorizing", "authorized", "querying", "sent", "waiting",
          "cancelling", "refusing", "recorded", "releasing"}

AttemptPhase == {"idle", "current", "authorizing", "authorized", "querying", "releasing",
                 "settled", "named", "invoking", "returned"}

Init ==
  /\ Node!Init
  /\ intent = [k \in Key |-> NoIntent]
  /\ ref = None
  /\ inv = [k \in Key |-> "none"]
  /\ att = "idle"
  /\ made = {}
  /\ wire = <<>>
  /\ online = FALSE
  /\ lease \in [Resource -> Lease]
  /\ spent = {}

-----------------------------------------------------------------------------
(* The gateway's side of the socket *)

\* assertCurrent: the domain's lease and the connection the invocation began on.
Current(e) == online /\ lease[ResourceOf[e]] = LeaseOf[e]

Transmit(kind, e) ==
  IF online
    THEN Len(wire) < MaxWire /\ wire' = Append(wire, [kind |-> kind, cmd |-> e])
    ELSE UNCHANGED wire

\* sendNodeRequest on an open socket.
Request(kind, e) == online /\ Transmit(kind, e)

Uncertain(k) == intent[k].sent /\ ~intent[k].rcpt.confirmed
Interrupted(k) == Uncertain(k) /\ intent[k].rcpt.state = "failed"

\* An invocation of the task's key returns to invokeNodeLinkAttempt or throws there.
EndsAttempt(k, result) ==
  att' = IF att = "invoking" /\ ref = k THEN result ELSE att

\* The invocation throws; its intent stays as it is.
Throw(k) ==
  /\ inv' = [inv EXCEPT ![k] = "none"]
  /\ EndsAttempt(k, "idle")

-----------------------------------------------------------------------------
(* invokeUnqueued *)

\* pruneSettledIntents, some time after the deadline.
Prunable(k) ==
  {j \in Key \ {k} : /\ intent[j].cmd # None /\ inv[j] = "none"
                     /\ intent[j].cmd \in expired
                     /\ ~Uncertain(j)}

Prune(k, new) ==
  \E gone \in SUBSET Prunable(k) :
    intent' = [j \in Key |-> IF j = k THEN new ELSE IF j \in gone THEN NoIntent ELSE intent[j]]

\* The intent file is read, or written for a key whose deadline has not passed.
Invoke(e) ==
  LET k == KeyOf[e]
  IN /\ inv[k] = "none" /\ Current(e)
     /\ k \in Attempt => att = "named" /\ ref = k
     /\ att' = IF k \in Attempt THEN "invoking" ELSE att
     /\ \/ /\ intent[k].cmd = e
           /\ inv' = [inv EXCEPT ![k] = "intended"]
           /\ UNCHANGED intent
        \/ /\ intent[k].cmd = None /\ e \notin expired
           /\ inv' = [inv EXCEPT ![k] = "intended"]
           /\ Prune(k, [NoIntent EXCEPT !.cmd = e])
     /\ UNCHANGED <<node, ref, made, domain, wire, online>>

Authorize(k) ==
  /\ inv[k] = "intended" /\ Current(intent[k].cmd)
  /\ Request("authorize", intent[k].cmd)
  /\ inv' = [inv EXCEPT ![k] = "authorizing"]
  /\ UNCHANGED <<node, intent, ref, att, made, domain, online>>

\* The receipt is stored; an outcome that is neither confirmed nor interrupted throws.
Conclude(k, r) ==
  /\ intent' = [intent EXCEPT ![k].rcpt = r]
  /\ IF r.confirmed \/ r.state = "failed"
       THEN inv' = [inv EXCEPT ![k] = "recorded"] /\ UNCHANGED att
       ELSE Throw(k)

\* Observation cleanup of a known outcome: settled intents are pruned, the grant released.
Tidy(k) ==
  /\ inv[k] = "recorded"
  /\ Prune(k, intent[k])
  /\ inv' = [inv EXCEPT ![k] = "releasing"]
  /\ Transmit("release", intent[k].cmd)
  /\ UNCHANGED <<node, ref, att, made, domain, online>>

\* Mutant: the intent is not marked before the command leaves.
ResolveUnmarked(k) ==
  LET i == intent[k]
  IN /\ inv[k] = "authorized"
     /\ \/ /\ i.rcpt.confirmed
           /\ Conclude(k, i.rcpt)
           /\ UNCHANGED wire
        \/ /\ Uncertain(k) /\ Current(i.cmd)
           /\ Request("receipt", i.cmd)
           /\ inv' = [inv EXCEPT ![k] = "querying"]
           /\ UNCHANGED <<intent, att>>
        \/ /\ ~i.sent
           /\ inv' = [inv EXCEPT ![k] = "sent"]
           /\ UNCHANGED <<intent, att, wire>>
     /\ UNCHANGED <<node, ref, made, domain, online>>

\* With authority bound: a settled intent is returned, a sent one only queried, an
\* unsent one is marked as sent before the command leaves.
Resolve(k) ==
  LET i == intent[k]
  IN /\ inv[k] = "authorized"
     /\ \/ /\ i.rcpt.confirmed
           /\ Conclude(k, i.rcpt)
           /\ UNCHANGED wire
        \/ /\ Uncertain(k) /\ Current(i.cmd)
           /\ Request("receipt", i.cmd)
           /\ inv' = [inv EXCEPT ![k] = "querying"]
           /\ UNCHANGED <<intent, att>>
        \/ /\ ~i.sent
           /\ intent' = [intent EXCEPT ![k].sent = TRUE]
           /\ inv' = [inv EXCEPT ![k] = "sent"]
           /\ UNCHANGED <<att, wire>>
     /\ UNCHANGED <<node, ref, made, domain, online>>

Dispatch(k) ==
  /\ inv[k] = "sent" /\ Current(intent[k].cmd)
  /\ Request("command", intent[k].cmd)
  /\ inv' = [inv EXCEPT ![k] = "waiting"]
  /\ UNCHANGED <<node, intent, ref, att, made, domain, online>>

\* A definitive refusal, or a command that never left, gives its grant back first.
Refused(k) ==
  /\ inv' = [inv EXCEPT ![k] = "refusing"]
  /\ Transmit("release", intent[k].cmd)

\* Mutant: a command that left is treated as one that did not.
NotDispatchedLate(k) ==
  /\ inv[k] \in {"sent", "waiting"}
  /\ Refused(k)
  /\ UNCHANGED <<node, intent, ref, att, made, domain, online>>

\* The caller aborted or the lease or the socket changed before the command left.
NotDispatched(k) ==
  /\ inv[k] = "sent"
  /\ Refused(k)
  /\ UNCHANGED <<node, intent, ref, att, made, domain, online>>

\* The caller's signal: one cancellation for a dispatched command.
Abort(k) ==
  /\ "abort" \in Faults
  /\ inv[k] = "waiting"
  /\ Request("cancel", intent[k].cmd)
  /\ inv' = [inv EXCEPT ![k] = "cancelling"]
  /\ UNCHANGED <<node, intent, ref, att, made, domain, online>>

Took(m) == outbox' = outbox \ {m}
nodeButOutbox == <<link, cleanupFailed, granted, owner, held, disk, index, expired, starts, live,
                   leftover, overtaken>>

TakeAnswer(k, m) ==
  /\ inv[k] \in {"waiting", "cancelling"} /\ online
  /\ m.key = k /\ m.via = "command"
  /\ Took(m)
  /\ \/ /\ m.kind = "receipt" /\ Conclude(k, m.rcpt) /\ UNCHANGED wire
     \/ /\ m.kind = "refused" /\ Refused(k) /\ UNCHANGED <<intent, att>>
     \/ /\ m.kind = "error" /\ Throw(k) /\ UNCHANGED <<intent, wire>>
  /\ UNCHANGED <<nodeButOutbox, ref, made, domain, online>>

\* The cancellation's acknowledgement settles nothing unless closeout is confirmed.
TakeCancelled(k, m) ==
  /\ inv[k] = "cancelling" /\ online
  /\ m.key = k /\ m.via = "cancel"
  /\ Took(m)
  /\ \/ /\ m.kind = "receipt" /\ m.rcpt.confirmed /\ Conclude(k, m.rcpt) /\ UNCHANGED wire
     \/ /\ m.kind = "receipt" /\ ~m.rcpt.confirmed /\ UNCHANGED <<intent, inv, att, wire>>
     \/ /\ m.kind = "error" /\ Throw(k) /\ UNCHANGED <<intent, wire>>
  /\ UNCHANGED <<nodeButOutbox, ref, made, domain, online>>

TakeReceipt(k, m) ==
  /\ inv[k] = "querying" /\ online
  /\ m.key = k /\ m.via = "receipt"
  /\ Took(m)
  /\ \/ /\ m.kind = "receipt" /\ Conclude(k, m.rcpt) /\ UNCHANGED wire
     \/ /\ m.kind = "error" /\ Throw(k) /\ UNCHANGED <<intent, wire>>
  /\ UNCHANGED <<nodeButOutbox, ref, made, domain, online>>

\* A timeout, a closed socket, a lost lease or an abort where the outcome is unknown.
GiveUp(k) ==
  /\ \/ inv[k] \in {"intended", "authorizing", "waiting", "cancelling"}
     \/ inv[k] = "authorized" /\ Uncertain(k)
  /\ Throw(k)
  /\ UNCHANGED <<node, intent, ref, made, domain, wire, online>>

\* A query nobody waits for changes nothing: it is taken off the socket again.  A key has
\* at most one query under way.
Without(i) == [j \in 1..(Len(wire) - 1) |-> IF j < i THEN wire[j] ELSE wire[j + 1]]
Queries(k) == {i \in 1..Len(wire) : wire[i].kind = "receipt" /\ KeyOf[wire[i].cmd] = k}

Retract(k) ==
  /\ wire' = IF Queries(k) = {} THEN wire ELSE Without(CHOOSE i \in Queries(k) : TRUE)
  /\ outbox' = {m \in outbox : m.via # "receipt" \/ m.key # k}

GiveUpQuery(k) ==
  /\ inv[k] = "querying"
  /\ Throw(k)
  /\ Retract(k)
  /\ UNCHANGED <<nodeButOutbox, intent, ref, made, domain, online>>

\* The release is answered, or cannot be: the refused key may be sent again.
EndRefusal(k) ==
  /\ intent' = [intent EXCEPT ![k].sent = FALSE]
  /\ Throw(k)

RefusalUnreleased(k) ==
  /\ inv[k] = "refusing"
  /\ EndRefusal(k)
  /\ UNCHANGED <<node, ref, made, domain, wire, online>>

EndRelease(k) ==
  /\ inv' = [inv EXCEPT ![k] = "none"]
  /\ EndsAttempt(k, IF intent[k].rcpt.confirmed THEN "returned" ELSE "idle")

OutcomeUnreleased(k) ==
  /\ inv[k] = "releasing"
  /\ EndRelease(k)
  /\ UNCHANGED <<node, intent, ref, made, domain, wire, online>>

-----------------------------------------------------------------------------
(* invokeNodeLinkAttempt *)

\* An attempt of the task, all on one lease, is made: the lease is current.
BeginAttempt ==
  /\ att = "idle"
  /\ \E e \in Envelope : KeyOf[e] \in Attempt /\ lease[ResourceOf[e]] = LeaseOf[e]
  /\ att' = "current"
  /\ UNCHANGED <<node, intent, ref, inv, made, domain, wire, online>>

Fresh(k) ==
  /\ k \in Attempt \ made
  /\ \E e \in Envelope \ expired : KeyOf[e] = k /\ lease[ResourceOf[e]] = LeaseOf[e]

\* Mutant: an uncertain predecessor does not hold up the next attempt.
NameAnyway(k) ==
  /\ att \in {"current", "settled"}
  /\ Fresh(k)
  /\ made' = made \cup {k}
  /\ ref' = k
  /\ att' = "named"
  /\ UNCHANGED <<node, intent, inv, domain, wire, online>>

\* A fresh key replaces the reference, once its predecessor is settled.
Name(k) ==
  /\ att = "settled" \/ (att = "current" /\ ~(ref \in Key /\ Uncertain(ref)))
  /\ Fresh(k)
  /\ made' = made \cup {k}
  /\ ref' = k
  /\ att' = "named"
  /\ UNCHANGED <<node, intent, inv, domain, wire, online>>

\* reconcileNodeLinkIntent: the predecessor's grant is renewed, its receipt read.
Reconcile ==
  /\ att = "current" /\ ref # None /\ Uncertain(ref) /\ ~Interrupted(ref)
  /\ Request("authorize", intent[ref].cmd)
  /\ att' = "authorizing"
  /\ UNCHANGED <<node, intent, ref, inv, made, domain, online>>

ReconcileQuery ==
  /\ att = "authorized"
  /\ Request("receipt", intent[ref].cmd)
  /\ att' = "querying"
  /\ UNCHANGED <<node, intent, ref, inv, made, domain, online>>

\* An outcome is stored if it is confirmed or interrupted; only a confirmed one is settled.
TakePredecessor(m) ==
  /\ att = "querying" /\ online
  /\ m.key = ref /\ m.via = "receipt"
  /\ Took(m)
  /\ \/ /\ m.kind = "receipt" /\ m.rcpt.confirmed
        /\ intent' = [intent EXCEPT ![ref].rcpt = m.rcpt]
        /\ att' = "releasing"
        /\ Transmit("release", intent[ref].cmd)
     \/ /\ m.kind = "receipt" /\ ~m.rcpt.confirmed
        /\ intent' = IF m.rcpt.state = "failed" THEN [intent EXCEPT ![ref].rcpt = m.rcpt]
                     ELSE intent
        /\ att' = "idle"
        /\ UNCHANGED wire
     \/ /\ m.kind = "error"
        /\ att' = "idle"
        /\ UNCHANGED <<intent, wire>>
  /\ UNCHANGED <<nodeButOutbox, ref, inv, made, domain, online>>

AttemptGivesUp ==
  /\ \/ att \in {"current", "authorizing", "authorized", "releasing", "settled"}
        /\ UNCHANGED <<wire, outbox>>
     \/ att = "querying" /\ Retract(ref)
     \/ att = "named" /\ inv[ref] = "none" /\ UNCHANGED <<wire, outbox>>
  /\ att' = "idle"
  /\ UNCHANGED <<nodeButOutbox, intent, ref, inv, made, domain, online>>

\* The receipt confirmed closeout: the reference is removed.
Unlink ==
  /\ att = "returned"
  /\ ref' = None
  /\ att' = "idle"
  /\ UNCHANGED <<node, intent, inv, made, domain, wire, online>>

-----------------------------------------------------------------------------
(* The node reads the socket *)

\* Who waits for a release goes on, or fails when the node refuses it.
Released(k, ok) ==
  CASE inv[k] = "refusing" ->
         IF ok THEN EndRefusal(k) ELSE Throw(k) /\ UNCHANGED intent
    [] inv[k] = "releasing" ->
         (IF ok THEN EndRelease(k) ELSE Throw(k)) /\ UNCHANGED intent
    [] att = "releasing" /\ ref = k ->
         att' = (IF ok THEN "settled" ELSE "idle") /\ UNCHANGED <<intent, inv>>
    [] OTHER -> UNCHANGED <<intent, inv, att>>

Deliver ==
  LET f == Head(wire)
      k == KeyOf[f.cmd]
  IN /\ wire # <<>> /\ link = "up"
     /\ wire' = Tail(wire)
     /\ \/ /\ f.kind = "authorize"
           /\ Node!Bind(f.cmd)
           /\ inv' = IF inv[k] = "authorizing" THEN [inv EXCEPT ![k] = "authorized"] ELSE inv
           /\ att' = IF att = "authorizing" /\ ref = k THEN "authorized" ELSE att
           /\ UNCHANGED intent
        \/ /\ f.kind = "command"
           /\ Node!Submit(f.cmd) \/ Node!Backpressure(f.cmd)
           /\ UNCHANGED <<intent, inv, att>>
        \/ /\ f.kind = "receipt"
           /\ Node!Query(f.cmd)
           /\ UNCHANGED <<intent, inv, att>>
        \/ /\ f.kind = "cancel"
           /\ Node!Cancel(f.cmd)
           /\ UNCHANGED <<intent, inv, att>>
        \/ /\ f.kind = "release" /\ Node!Releasable(f.cmd)
           /\ Node!Release(f.cmd)
           /\ Released(k, TRUE)
        \/ /\ f.kind = "release" /\ ~Node!Releasable(f.cmd)
           /\ Released(k, FALSE)
           /\ UNCHANGED node
     /\ UNCHANGED <<ref, made, domain, online>>

Awaited(m) ==
  /\ online
  /\ \/ m.via = "command" /\ inv[m.key] \in {"waiting", "cancelling"}
     \/ m.via = "cancel" /\ inv[m.key] = "cancelling"
     \/ m.via = "receipt" /\ (inv[m.key] = "querying" \/ (att = "querying" /\ ref = m.key))

\* An answer whose request was given up is dropped.
Discard(m) ==
  /\ m \in outbox /\ ~Awaited(m)
  /\ Node!TakeReply(m)
  /\ UNCHANGED <<gateway, wire, online>>

-----------------------------------------------------------------------------
(* Processes and time *)

NodeWorks ==
  /\ \/ \E k \in Key : Node!Progress(k) \/ Node!Effect(k)
     \/ Node!Retired \/ Node!Ready
     \/ \E e \in Envelope : Node!GrantExpires(e) \/ Node!Expire(e)
  /\ UNCHANGED <<gateway, wire, online>>

\* The node sees its socket close, or dies with it: unread frames are gone.
NodeLeaves ==
  /\ \/ "disconnect" \in Faults /\ Node!Close
     \/ "crash" \in Faults /\ Node!Crash
  /\ wire' = <<>>
  /\ online' = FALSE
  /\ UNCHANGED gateway

\* What waited for the closed socket failed at once, before the node dials again.
NodeConnects ==
  /\ \A k \in Key : inv[k] = "none"
  /\ att \in {"idle", "current", "settled", "named", "returned"}
  /\ Node!Connect
  /\ online' = TRUE
  /\ UNCHANGED <<gateway, wire>>

\* The gateway sees the socket close first; the node may still read what was sent.
GatewayLeaves ==
  /\ "disconnect" \in Faults
  /\ online /\ online' = FALSE
  /\ UNCHANGED <<node, gateway, wire>>

GatewayCrash ==
  /\ "crash" \in Faults
  /\ online' = FALSE
  /\ inv' = [k \in Key |-> "none"]
  /\ att' = "idle"
  /\ UNCHANGED <<node, intent, ref, made, domain, wire>>

\* The resource is leased anew, never to a lease it had before.
NextLease(r, l) ==
  /\ l \notin spent /\ l # lease[r]
  /\ spent' = spent \cup {lease[r]}
  /\ lease' = [lease EXCEPT ![r] = l]
  /\ UNCHANGED <<node, intent, ref, inv, att, made, wire, online>>

Steps ==
  \/ \E e \in Envelope : Invoke(e)
  \/ \E k \in Key :
       \/ Authorize(k) \/ Resolve(k) \/ Dispatch(k) \/ NotDispatched(k) \/ Abort(k)
       \/ Tidy(k) \/ GiveUp(k) \/ GiveUpQuery(k) \/ RefusalUnreleased(k)
       \/ OutcomeUnreleased(k) \/ Name(k)
       \/ \E m \in outbox : TakeAnswer(k, m) \/ TakeCancelled(k, m) \/ TakeReceipt(k, m)
  \/ \E m \in outbox : TakePredecessor(m)
  \/ BeginAttempt \/ Reconcile \/ ReconcileQuery \/ AttemptGivesUp \/ Unlink
  \/ Deliver \/ NodeWorks \/ NodeLeaves \/ NodeConnects
  \/ GatewayLeaves \/ GatewayCrash
  \/ \E r \in Resource, l \in Lease : NextLease(r, l)

\* Request ids are never used again, so a late answer is dropped before anything else.
Next ==
  IF \A m \in outbox : Awaited(m) THEN Steps ELSE \E m \in outbox : Discard(m)

Spec == Init /\ [][Next]_vars

-----------------------------------------------------------------------------
(* Properties *)

\* Every variable of both sides keeps its shape.
TypeOK ==
  /\ Node!TypeOK
  /\ intent \in [Key -> Intent]
  /\ ref \in Attempt \cup {None}
  /\ inv \in [Key -> Phase]
  /\ att \in AttemptPhase
  /\ made \subseteq Attempt
  /\ wire \in Seq(Frame)
  /\ online \in BOOLEAN
  /\ lease \in [Resource -> Lease]
  /\ spent \subseteq Lease

\* The key's intent was pruned, or its deadline passed before it had one.
Forgotten(k) == intent[k].cmd = None /\ \A e \in Envelope : KeyOf[e] = k => e \in expired

\* An intent that is absent or unsent, as after a definitive refusal, never ran: the
\* same key may be sent, whatever crashed, timed out or was lost before.
UnsentNeverRan ==
  \A k \in Key : ~intent[k].sent =>
    Forgotten(k) \/ (starts[k] = 0 /\ disk[k].state = "none")

\* The task's reference names its one uncertain attempt for as long as it is
\* uncertain, so the next attempt always meets it.
UncertainIsReferenced == TypeOK /\ \A k \in Attempt : Uncertain(k) => ref = k

\* The attempts of a task never run side by side, not even with one a dead daemon left.
AttemptsAreSerial == Cardinality(live \cap Attempt) <= 1

\* Commands of two leases execute on one resource in one daemon's life.  Those that only
\* read are held up by no lease, and what a dead daemon left behind is nobody's execution.
Collide(j, k) ==
  /\ j \in live /\ held[j].phase = "executing" /\ held[j].cmd \notin ReadOnly
  /\ k \in live /\ held[k].phase = "executing" /\ held[k].cmd \notin ReadOnly
  /\ ResourceOf[held[j].cmd] = ResourceOf[held[k].cmd]
  /\ LeaseOf[held[j].cmd] # LeaseOf[held[k].cmd]

\* No task makes attempts on the resource.
Direct(r) == \A e \in Envelope : ResourceOf[e] = r => KeyOf[e] \notin Attempt

\* Two leases of a resource never execute on it at the same time, if its commands are invoked
\* directly.  Of a resource with attempts this is not so: ExclusiveLease.
ExclusiveDirectLease == \A j, k \in Key : Collide(j, k) => ~Direct(ResourceOf[held[k].cmd])


CallerView ==
  [k \in Key |-> IF intent[k].sent
                   THEN IF intent[k].rcpt.confirmed THEN "settled" ELSE "offered"
                   ELSE IF Forgotten(k) THEN "forgotten" ELSE "idle"]

EffectView ==
  [k \in Key |-> IF k \in live THEN "running" ELSE IF starts[k] > 0 THEN "over" ELSE "none"]

Durable == INSTANCE DurableCommand WITH caller <- CallerView, effect <- EffectView

\* Gateway and node together keep the promise of a durable command: Durable!Spec, with
\* the frequent stuttering step written first.
KeepsPromise ==
  Durable!Init /\ [][UNCHANGED Durable!vars \/ Durable!Next]_(Durable!vars)

=============================================================================
