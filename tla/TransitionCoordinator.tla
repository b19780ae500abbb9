----------------------- MODULE TransitionCoordinator -----------------------
(***************************************************************************)
(* RunTransitionCoordinator (services/gateway/src/run-lifecycle/           *)
(* transition-coordinator.ts): every lifecycle mutation holds its run's    *)
(* key and shares its machine's key; a machine workflow holds the machine  *)
(* alone and takes run keys while it does.                                 *)
(*                                                                         *)
(* A key is a chain of promises.  An operation that takes the key appends  *)
(* itself as the new tail and waits for the one before; a ticket <<o, k>>  *)
(* is settled when o has released k, which it can only after its           *)
(* predecessor.  One action is the code between two suspension points.     *)
(***************************************************************************)
CONSTANTS
  Run, Machine,
  Action,      \* calls of withRun
  Workflow,    \* calls of withMachine
  RunOf,       \* an action's run
  MachineOf,   \* a workflow's machine
  Stuck,       \* actions that may never return
  Source,      \* the other run an action takes over from (Nobody: none)
  Nobody       \* no operation, machine or run

Op == Action \cup Workflow
Key == Run \cup Machine

ASSUME CoordinatorAssumption ==
  /\ Action \cap Workflow = {} /\ Run \cap Machine = {}
  /\ RunOf \in [Action -> Run]
  /\ MachineOf \in [Workflow -> Machine]
  /\ Source \in [Action -> Run \cup {Nobody}]
  /\ \A o \in Action : Source[o] # RunOf[o]
  /\ Nobody \notin Op \cup Key
  /\ Stuck \subseteq Action

VARIABLES
  tail,      \* tails: the last operation of each key's chain
  prev,      \* the operation whose ticket an operation waits for, by key
  settled,   \* tickets that were released
  sharers,   \* run actions in flight on each machine
  drained,   \* machines with an unresolved drained promise
  home,      \* the machine a run is on
  shared,    \* the machine an action resolved, as an argument of its call
  inner,     \* the run key an operation takes while it holds its own
  visited,   \* run keys a workflow has been through
  pc

vars == <<tail, prev, settled, sharers, drained, home, shared, inner, visited, pc>>
chain == <<tail, prev, settled>>

Step == {"new", "resolving", "waiting", "queued", "draining", "runQueued", "inside",
         "innerQueued", "innerInside", "leaving", "done"}

Init ==
  /\ tail = [k \in Key |-> Nobody]
  /\ prev = [o \in Op |-> [k \in Key |-> Nobody]]
  /\ settled = {}
  /\ sharers = [m \in Machine |-> {}]
  /\ drained = {}
  /\ home \in [Run -> Machine \cup {Nobody}]
  /\ shared = [o \in Op |-> Nobody]
  /\ inner = [o \in Op |-> Nobody]
  /\ visited = [o \in Op |-> {}]
  /\ pc = [o \in Op |-> "new"]

Goto(o, step) == pc' = [pc EXCEPT ![o] = step]

\* withKey: the operation is the new tail and waits for the one before it.
Enqueue(o, k) ==
  /\ prev' = [prev EXCEPT ![o][k] = tail[k]]
  /\ tail' = [tail EXCEPT ![k] = o]
  /\ UNCHANGED settled

Turn(o, k) == prev[o][k] = Nobody \/ <<prev[o][k], k>> \in settled

\* Mutant: whoever leaves forgets the whole chain.
ReleaseForgetsChain(o, k) ==
  /\ settled' = settled \cup {<<o, k>>}
  /\ tail' = [tail EXCEPT ![k] = Nobody]
  /\ UNCHANGED prev

\* Mutant: the last of a chain leaves its settled ticket behind.
ReleaseKeepsTail(o, k) ==
  /\ settled' = settled \cup {<<o, k>>}
  /\ UNCHANGED <<tail, prev>>

\* Only the last of a chain clears its entry.
Release(o, k) ==
  /\ settled' = settled \cup {<<o, k>>}
  /\ tail' = [tail EXCEPT ![k] = IF @ = o THEN Nobody ELSE @]
  /\ UNCHANGED prev

-----------------------------------------------------------------------------
(* withMachine *)

RequestMachine(o) ==
  /\ pc[o] = "new"
  /\ Enqueue(o, MachineOf[o])
  /\ Goto(o, "queued")
  /\ UNCHANGED <<sharers, drained, home, shared, inner, visited>>

\* waitForSharers: in, or wait for the promise the last sharer resolves.
CheckSharers(o, m) ==
  IF sharers[m] = {}
    THEN Goto(o, "inside") /\ UNCHANGED drained
    ELSE Goto(o, "draining") /\ drained' = drained \cup {m}

TurnMachine(o) ==
  LET m == MachineOf[o]
  IN /\ pc[o] = "queued" /\ Turn(o, m)
     /\ CheckSharers(o, m)
     /\ UNCHANGED <<chain, sharers, home, shared, inner, visited>>

Drained(o) ==
  LET m == MachineOf[o]
  IN /\ pc[o] = "draining" /\ m \notin drained
     /\ CheckSharers(o, m)
     /\ UNCHANGED <<chain, sharers, home, shared, inner, visited>>

LeaveMachine(o) ==
  /\ o \in Workflow /\ pc[o] = "inside"
  /\ Release(o, MachineOf[o])
  /\ Goto(o, "done")
  /\ UNCHANGED <<sharers, drained, home, shared, inner, visited>>

-----------------------------------------------------------------------------
(* withRun *)

RequestRun(o) ==
  /\ pc[o] = "new"
  /\ Goto(o, "resolving")
  /\ UNCHANGED <<chain, sharers, drained, home, shared, inner, visited>>

TakeRun(o) == Enqueue(o, RunOf[o]) /\ Goto(o, "runQueued")

\* Mutant: an action waits for the other actions of its machine too (F314).
JoinAlone(o, m) ==
  \/ /\ tail[m] = Nobody /\ sharers[m] = {}
     /\ sharers' = [sharers EXCEPT ![m] = @ \cup {o}]
     /\ TakeRun(o)
  \/ /\ tail[m] # Nobody \/ sharers[m] # {}
     /\ prev' = [prev EXCEPT ![o][m] = tail[m]]
     /\ Goto(o, "waiting")
     /\ UNCHANGED <<tail, settled, sharers>>

\* withSharedKey: joins when no workflow holds or awaits the machine, else waits for the
\* last one of them and looks again.
JoinOrWait(o, m) ==
  \/ /\ tail[m] = Nobody
     /\ sharers' = [sharers EXCEPT ![m] = @ \cup {o}]
     /\ TakeRun(o)
  \/ /\ tail[m] # Nobody
     /\ prev' = [prev EXCEPT ![o][m] = tail[m]]
     /\ Goto(o, "waiting")
     /\ UNCHANGED <<tail, settled, sharers>>

\* The run's machine is read once; the run may be elsewhere before the action enters.
Resolve(o) ==
  LET m == home[RunOf[o]]
  IN /\ pc[o] = "resolving"
     /\ shared' = [shared EXCEPT ![o] = m]
     /\ \/ m = Nobody /\ TakeRun(o) /\ UNCHANGED sharers
        \/ m # Nobody /\ JoinOrWait(o, m)
     /\ UNCHANGED <<drained, home, inner, visited>>

\* Mutant: the machine is free because the workflow that was awaited has left it.
JoinAfterOne(o) ==
  LET m == shared[o]
  IN /\ pc[o] = "waiting" /\ Turn(o, m)
     /\ sharers' = [sharers EXCEPT ![m] = @ \cup {o}]
     /\ TakeRun(o)
     /\ UNCHANGED <<drained, home, shared, inner, visited>>

Join(o) ==
  /\ pc[o] = "waiting" /\ Turn(o, shared[o])
  /\ JoinOrWait(o, shared[o])
  /\ UNCHANGED <<drained, home, shared, inner, visited>>

TurnRun(o) ==
  /\ pc[o] = "runQueued" /\ Turn(o, RunOf[o])
  /\ Goto(o, "inside")
  /\ UNCHANGED <<chain, sharers, drained, home, shared, inner, visited>>

\* The action releases its run, which may be on another machine by now.
LeaveRun(o) ==
  /\ o \in Action /\ pc[o] = "inside"
  /\ Release(o, RunOf[o])
  /\ \E m \in Machine \cup {Nobody} : home' = [home EXCEPT ![RunOf[o]] = m]
  /\ Goto(o, IF shared[o] = Nobody THEN "done" ELSE "leaving")
  /\ UNCHANGED <<sharers, drained, shared, inner, visited>>

\* Mutant: the last sharer leaves without a word.
UnshareSilently(o) ==
  /\ pc[o] = "leaving"
  /\ sharers' = [sharers EXCEPT ![shared[o]] = @ \ {o}]
  /\ Goto(o, "done")
  /\ UNCHANGED <<chain, drained, home, shared, inner, visited>>

\* The machine is shared until the run's key was released; the last sharer resolves the
\* drained promise.
Unshare(o) ==
  LET m == shared[o]
  IN /\ pc[o] = "leaving"
     /\ sharers' = [sharers EXCEPT ![m] = @ \ {o}]
     /\ drained' = IF sharers[m] = {o} THEN drained \ {m} ELSE drained
     /\ Goto(o, "done")
     /\ UNCHANGED <<chain, home, shared, inner, visited>>

-----------------------------------------------------------------------------
(* withRunWhileMachineHeld *)

\* A workflow goes through the runs it finds on its machine; an action takes the key of
\* the run whose worker it takes over.
Reaches(o, r) ==
  /\ r \notin visited[o]
  /\ \/ o \in Workflow /\ home[r] = MachineOf[o]
     \/ o \in Action /\ r = Source[o]

TakeInner(o, r) ==
  /\ pc[o] = "inside" /\ Reaches(o, r)
  /\ Enqueue(o, r)
  /\ inner' = [inner EXCEPT ![o] = r]
  /\ visited' = [visited EXCEPT ![o] = @ \cup {r}]
  /\ Goto(o, "innerQueued")
  /\ UNCHANGED <<sharers, drained, home, shared>>

TurnInner(o) ==
  /\ pc[o] = "innerQueued" /\ Turn(o, inner[o])
  /\ Goto(o, "innerInside")
  /\ UNCHANGED <<chain, sharers, drained, home, shared, inner, visited>>

LeaveInner(o) ==
  /\ pc[o] = "innerInside"
  /\ Release(o, inner[o])
  /\ inner' = [inner EXCEPT ![o] = Nobody]
  /\ Goto(o, "inside")
  /\ UNCHANGED <<sharers, drained, home, shared, visited>>

-----------------------------------------------------------------------------

Request(o) == IF o \in Workflow THEN RequestMachine(o) ELSE RequestRun(o)

Proceed(o) ==
  \/ o \in Workflow /\ (TurnMachine(o) \/ Drained(o))
  \/ o \in Action /\ (Resolve(o) \/ Join(o) \/ TurnRun(o) \/ Unshare(o))
  \/ TurnInner(o)

Leave(o) == LeaveMachine(o) \/ LeaveRun(o) \/ LeaveInner(o)

Finished == \A o \in Op : pc[o] = "done"

Next ==
  \/ \E o \in Op : Request(o) \/ Proceed(o) \/ Leave(o)
  \/ \E o \in Op, r \in Run : TakeInner(o, r)
  \/ Finished /\ UNCHANGED vars

Spec == Init /\ [][Next]_vars

\* The event loop runs what is ready, and operations return.
Fairness ==
  /\ \A o \in Op : WF_vars(Proceed(o))
  /\ \A o \in Op \ Stuck : WF_vars(Leave(o))

FairSpec == Spec /\ Fairness

-----------------------------------------------------------------------------
(* Properties *)

TypeOK ==
  /\ tail \in [Key -> Op \cup {Nobody}]
  /\ prev \in [Op -> [Key -> Op \cup {Nobody}]]
  /\ settled \subseteq Op \X Key
  /\ sharers \in [Machine -> SUBSET Action]
  /\ drained \subseteq Machine
  /\ home \in [Run -> Machine \cup {Nobody}]
  /\ shared \in [Op -> Machine \cup {Nobody}]
  /\ inner \in [Op -> Run \cup {Nobody}]
  /\ visited \in [Op -> SUBSET Run]
  /\ pc \in [Op -> Step]

In(o) == pc[o] \in {"inside", "innerQueued", "innerInside"}

InRun(o, r) ==
  \/ o \in Action /\ In(o) /\ RunOf[o] = r
  \/ pc[o] = "innerInside" /\ inner[o] = r

\* "Serializes machine- and run-scoped lifecycle mutations": two operations never mutate
\* one run together, whichever way they came to its key.
RunsAreSerial ==
  \A r \in Run, o, p \in Op : o # p => ~(InRun(o, r) /\ InRun(p, r))

\* A workflow has its machine alone: no second workflow and no action that joined it.
MachinesAreExclusive ==
  \A o \in Workflow : In(o) =>
    /\ \A p \in Workflow \ {o} : MachineOf[p] = MachineOf[o] => ~In(p)
    /\ \A p \in Action : shared[p] = MachineOf[o] => ~In(p)

\* The tables keep their shape and do not grow: they are empty when nothing is in flight.
NothingLeft ==
  /\ TypeOK
  /\ (\A o \in Op : pc[o] \in {"new", "done"}) =>
    /\ tail = [k \in Key |-> Nobody]
    /\ sharers = [m \in Machine |-> {}]
    /\ drained = {}

\* Workflows that take run keys, actions that wait for workflows and actions that take
\* a second run key do not end up waiting for one another, if all of them return.
AllReturn ==
  (\A o \in Stuck : WF_vars(Leave(o))) => \A o \in Op : pc[o] # "new" ~> pc[o] = "done"

\* "Run actions on two slots of one machine never wait for each other": an action that
\* never returns holds up only the actions of its own run, and those that wait for one.
Alone(o) == inner[o] = Nobody /\ \A w \in Workflow : pc[w] = "new"
OthersReturn ==
  \A o \in Action : (\A p \in Stuck : RunOf[o] # RunOf[p]) /\ []Alone(o) =>
    (pc[o] # "new" ~> pc[o] = "done")

=============================================================================
