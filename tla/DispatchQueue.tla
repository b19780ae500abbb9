--------------------------- MODULE DispatchQueue ---------------------------
(***************************************************************************)
(* The rows the gateway queues for one work-graph node and the runs made   *)
(* of them: services/gateway/src/backlog/dispatch-queue.ts, the creation   *)
(* of a run out of a claimed row (methods/run.ts, index.ts), the replay of *)
(* a cancelled run of the same node (methods/run/replay-step.ts), and the  *)
(* scheduler that adds and withdraws rows (work-graph/store.ts).           *)
(*                                                                         *)
(* Queue and runs live in memory and in files.  A write is one step, the   *)
(* moment its snapshot is taken: what a crash or a reader finds afterwards *)
(* is decided there, and whoever awaits the write goes on in a later step. *)
(***************************************************************************)
EXTENDS Naturals, FiniteSets

CONSTANTS
  MaxRows,  \* bound of the model: rows the node gets in its lifetime
  MaxRuns,  \* bound of the model: runs of the node
  Replay    \* calls of run.replayStep that may be under way

ASSUME QueueAssumption ==
  /\ MaxRows \in Nat \ {0} /\ MaxRuns \in Nat \ {0}
  /\ "none" \notin Replay /\ "dispatcher" \notin Replay

Item == 1..MaxRows    \* rows in the order they are added
Run == 1..MaxRuns     \* runs in the order of createdAt

VARIABLES
  queue,      \* rows in memory
  queueFile,  \* rows in the queue file
  runs,       \* run records in memory
  runFile,    \* run records on disk
  unsaved,    \* runs with a background write outstanding
  disp,       \* the dispatch cycle in flight
  rep,        \* each replay
  tick,       \* the scheduler's tick
  ready,      \* the node's backlog item is ready
  attention,  \* rows whose withdrawal the backlog has recorded
  added,      \* rows added so far
  started     \* rows that named a run when it started, and not given back since (history)

work == <<ready, attention, added, started>>
vars == <<queue, queueFile, runs, runFile, unsaved, disp, rep, tick, work>>

Holder == {"none", "dispatcher"} \cup Replay
Row == [status : {"none", "queued", "dispatching", "cancelled"}, run : Run \cup {0}, holder : Holder]
NoRow == [status |-> "none", run |-> 0, holder |-> "none"]
QueuedRow == [NoRow EXCEPT !.status = "queued"]

RunRecord == [status : {"none", "live", "cancelled", "done"}, of : Item \cup {0}]
NoRun == [status |-> "none", of |-> 0]

Cycle ==
  [pc : {"idle", "creating", "stamping", "recording", "starting", "linking",
         "dropping", "failed", "discarded"},
   item : Item \cup {0}, run : Run \cup {0}]
Attempt ==
  [pc : {"idle", "locking", "preparing", "reviving", "revived"},
   run : Run \cup {0}, lock : Item \cup {0}]
Tick == [pc : {"idle", "unlocking", "adding", "withdrawing", "committing"}, item : Item \cup {0}]

NoCycle == [pc |-> "idle", item |-> 0, run |-> 0]
NoReplay == [pc |-> "idle", run |-> 0, lock |-> 0]

Init ==
  /\ queue = [i \in Item |-> NoRow]
  /\ queueFile = queue
  /\ runs = [r \in Run |-> NoRun]
  /\ runFile = runs
  /\ unsaved = {}
  /\ disp = NoCycle
  /\ rep = [p \in Replay |-> NoReplay]
  /\ tick = [pc |-> "idle", item |-> 0]
  /\ ready = TRUE
  /\ attention = {}
  /\ added = 0
  /\ started = {}

Present(i) == queue[i].status # "none"
Claimable(i) == queue[i].status \in {"queued", "dispatching"}
Exists(r) == runs[r].status # "none"
IsLive(r) == runs[r].status = "live"
Saved(r) == runFile[r].status # "none"
AnyLive == \E r \in Run : IsLive(r)
HandedTo(i, status) == queue[i].run # 0 /\ runs[queue[i].run].status = status

\* claimOwnershipMatches: time alone takes no claim away from its holder.
Holds(i, h) == queue[i].status = "dispatching" /\ queue[i].holder = h

With(i, row) == [queue EXCEPT ![i] = row]
Claim(i, h) == With(i, [queue[i] EXCEPT !.status = "dispatching", !.holder = h])

Release(i) == With(i, QueuedRow)
Remove(i) == With(i, NoRow)

\* The latest attempt leaves the node to the scheduler once the item is ready again.
Open == \A r \in Run : Exists(r) /\ (\A s \in Run : s > r => ~Exists(s)) => runs[r].status = "cancelled"

-----------------------------------------------------------------------------
(* Files *)

\* persistQueueNow succeeds or throws.  No claim outlives the process, so the file's
\* holders are left out.
QueueWritten == queueFile' = [i \in Item |-> [queue[i] EXCEPT !.holder = "none"]]
QueueUnwritten == UNCHANGED queueFile

\* Other rows and other fields are saved too, so the queue may be written at any time.
SaveQueue ==
  /\ QueueWritten /\ queueFile' # queueFile
  /\ UNCHANGED <<queue, runs, runFile, unsaved, disp, rep, tick, work>>

\* Runs are written in the order in which their writes were started.
RunsWritten(written) ==
  /\ runFile' = [r \in Run |-> IF r \in written THEN runs[r] ELSE runFile[r]]
  /\ unsaved' = {}

SaveRuns ==
  /\ unsaved # {}
  /\ RunsWritten(unsaved)
  /\ UNCHANGED <<queue, queueFile, runs, disp, rep, tick, work>>

\* persistRunNow, after what was started before it.
RunWritten(r) == RunsWritten(unsaved \cup {r})

-----------------------------------------------------------------------------
(* The dispatch cycle: one at a time *)

\* Claims whose time is over are freed; a row whose run exists was handed over.
Reclaim ==
  LET claimed == {i \in Item : queue[i].status = "dispatching"}
      served == {i \in claimed : queue[i].run # 0 /\ Exists(queue[i].run)}
  IN /\ disp.pc = "idle" /\ claimed # {}
     /\ \E freed \in SUBSET (claimed \ served) :
          /\ served \cup freed # {}
          /\ queue' = [i \in Item |-> IF i \in served THEN NoRow
                                      ELSE IF i \in freed THEN QueuedRow ELSE queue[i]]
     /\ UNCHANGED <<queueFile, runs, runFile, unsaved, disp, rep, tick, work>>

ClaimRow(i) ==
  /\ disp.pc = "idle" /\ queue[i].status = "queued"
  /\ queue' = Claim(i, "dispatcher")
  /\ disp' = [NoCycle EXCEPT !.pc = "creating", !.item = i]
  /\ UNCHANGED <<queueFile, runs, runFile, unsaved, rep, tick, work>>

ReleaseIfHeld(i) == queue' = IF Holds(i, "dispatcher") THEN Release(i) ELSE queue

\* No slot, or the run is refused before it exists: claim lost, a duplicate, an error, or
\* a policy that no retry can satisfy.
NotCreated ==
  /\ disp.pc = "creating"
  /\ \/ ReleaseIfHeld(disp.item)
     \/ /\ Holds(disp.item, "dispatcher")
        /\ queue' = With(disp.item, [NoRow EXCEPT !.status = "cancelled"])
  /\ disp' = NoCycle
  /\ UNCHANGED <<queueFile, runs, runFile, unsaved, rep, tick, work>>

\* createRecord: claim and duplicates are checked, the run made and the row stamped
\* without a pause; the run's file waits.
Create(r) ==
  LET i == disp.item
  IN /\ disp.pc = "creating" /\ Holds(i, "dispatcher") /\ ~AnyLive
     /\ \A s \in Run : s >= r => ~Exists(s)
     /\ r > 1 => Exists(r - 1)
     /\ runs' = [runs EXCEPT ![r] = [status |-> "live", of |-> i]]
     /\ queue' = With(i, [queue[i] EXCEPT !.run = r])
     /\ disp' = [disp EXCEPT !.pc = "stamping", !.run = r]
     /\ UNCHANGED <<queueFile, runFile, unsaved, rep, tick, work>>

\* Mutant: the run goes on without waiting for the stamp's write.
StampUnwritten ==
  /\ disp.pc = "stamping"
  /\ disp' = [disp EXCEPT !.pc = "recording"]
  /\ UNCHANGED <<queue, queueFile, runs, runFile, unsaved, rep, tick, work>>

\* durableStamp
Stamp ==
  /\ disp.pc = "stamping"
  /\ \/ QueueWritten /\ disp' = [disp EXCEPT !.pc = "recording"]
     \/ QueueUnwritten /\ disp' = [disp EXCEPT !.pc = "failed"]
  /\ UNCHANGED <<queue, runs, runFile, unsaved, rep, tick, work>>

\* Mutant: the row is handed over before the run has a file.
RecordInBackground ==
  /\ disp.pc = "recording"
  /\ unsaved' = unsaved \cup {disp.run}
  /\ disp' = [disp EXCEPT !.pc = "starting"]
  /\ UNCHANGED <<queue, queueFile, runs, runFile, rep, tick, work>>

\* The run's file, awaited.
Record ==
  /\ disp.pc = "recording"
  /\ \/ /\ RunWritten(disp.run)
        /\ disp' = [disp EXCEPT !.pc = "starting"]
     \/ /\ disp' = [disp EXCEPT !.pc = "failed"]
        /\ UNCHANGED <<runFile, unsaved>>
  /\ UNCHANGED <<queue, queueFile, runs, rep, tick, work>>

\* The rest of runCreate ends in startRun, or throws before it.
Start ==
  /\ disp.pc = "starting"
  /\ \/ /\ started' = started \cup {i \in {disp.item} : queue[i].run = disp.run}
        /\ unsaved' = unsaved \cup {disp.run}
        /\ disp' = [disp EXCEPT !.pc = "linking"]
     \/ disp' = [disp EXCEPT !.pc = "failed"] /\ UNCHANGED <<started, unsaved>>
  /\ UNCHANGED <<queue, queueFile, runs, runFile, rep, tick, ready, attention, added>>

\* markBacklogRunStarted waits for an enqueue under way; then the row is dropped.
Link ==
  /\ disp.pc = "linking" /\ tick.pc # "adding"
  /\ ready' = FALSE
  /\ queue' = Remove(disp.item)
  /\ disp' = [disp EXCEPT !.pc = "dropping"]
  /\ UNCHANGED <<queueFile, runs, runFile, unsaved, rep, tick, attention, added, started>>

Drop ==
  /\ disp.pc = "dropping"
  /\ QueueWritten \/ QueueUnwritten
  /\ disp' = NoCycle
  /\ UNCHANGED <<queue, runs, runFile, unsaved, rep, tick, work>>

\* The row's runId as the cycle reads it; a row taken out of the queue keeps its own.
Stamped == IF Present(disp.item) THEN queue[disp.item].run ELSE disp.run

\* A run with a file is kept and its row dropped; a run in memory only is discarded.
CreateFailed ==
  /\ disp.pc = "failed"
  /\ \/ /\ Stamped = 0
        /\ ReleaseIfHeld(disp.item)
        /\ disp' = NoCycle
        /\ UNCHANGED <<runs, unsaved>>
     \/ /\ Stamped # 0 /\ Saved(Stamped)
        /\ queue' = Remove(disp.item)
        /\ disp' = [disp EXCEPT !.pc = "dropping"]
        /\ UNCHANGED <<runs, unsaved>>
     \/ /\ Stamped # 0 /\ ~Saved(Stamped)
        /\ runs' = [runs EXCEPT ![Stamped] = NoRun]
        /\ unsaved' = unsaved \ {Stamped}
        /\ disp' = [disp EXCEPT !.pc = "discarded"]
        /\ UNCHANGED queue
  /\ UNCHANGED <<queueFile, runFile, rep, tick, work>>

\* The row is queued again, whoever holds it by now.
Discarded ==
  /\ disp.pc = "discarded"
  /\ queue' = IF Present(disp.item) THEN Release(disp.item) ELSE queue
  /\ disp' = NoCycle
  /\ UNCHANGED <<queueFile, runs, runFile, unsaved, rep, tick, work>>

-----------------------------------------------------------------------------
(* Runs *)

\* run.cancel, at any moment after the run is in memory.
CancelRun(r) ==
  /\ IsLive(r)
  /\ runs' = [runs EXCEPT ![r].status = "cancelled"]
  /\ unsaved' = unsaved \cup {r}
  /\ UNCHANGED <<queue, queueFile, runFile, disp, rep, tick, work>>

\* The engine has the run: it is neither being created nor being revived.
Driven(r) ==
  /\ disp.run = r => disp.pc \in {"linking", "dropping"}
  /\ \A p \in Replay : rep[p].run = r => rep[p].pc \notin {"reviving", "revived"}

FinishRun(r) ==
  /\ IsLive(r) /\ Driven(r)
  /\ runs' = [runs EXCEPT ![r].status = "done"]
  /\ unsaved' = unsaved \cup {r}
  /\ UNCHANGED <<queue, queueFile, runFile, disp, rep, tick, work>>

-----------------------------------------------------------------------------
(* The scheduler's tick, one at a time *)

\* The operator opens the item again after a cancelled attempt.
Reopen ==
  /\ ~ready /\ Open
  /\ ready' = TRUE
  /\ UNCHANGED <<queue, queueFile, runs, runFile, unsaved, disp, rep, tick, attention, added, started>>

\* syncNodeFromBacklogQueueRuns: the row of an item that is ready is stale.
Purge(i) ==
  /\ tick.pc = "idle" /\ ready /\ Present(i) /\ Open
  /\ queue' = Remove(i)
  /\ UNCHANGED <<queueFile, runs, runFile, unsaved, disp, rep, tick, work>>

\* executeNodeUnlock finds neither row nor active run.  A cancelled run is on disk by now.
Unlock ==
  /\ tick.pc = "idle" /\ ready /\ Open
  /\ \A i \in Item : ~Present(i)
  /\ {r \in unsaved : runs[r].status = "cancelled"} = {}
  /\ tick' = [tick EXCEPT !.pc = "unlocking"]
  /\ UNCHANGED <<queue, queueFile, runs, runFile, unsaved, disp, rep, work>>

\* enqueueBacklogItem, after its own checks.
Enqueue ==
  /\ tick.pc = "unlocking"
  /\ added < MaxRows
  /\ added' = added + 1
  /\ queue' = With(added + 1, QueuedRow)
  /\ tick' = [pc |-> "adding", item |-> added + 1]
  /\ UNCHANGED <<queueFile, runs, runFile, unsaved, disp, rep, ready, attention, started>>

NotEnqueued ==
  /\ tick.pc = "unlocking"
  /\ tick' = [tick EXCEPT !.pc = "idle"]
  /\ UNCHANGED <<queue, queueFile, runs, runFile, unsaved, disp, rep, work>>

TickEnds == tick' = [pc |-> "idle", item |-> 0]

\* The item is no longer ready once its row is in the file.
Enqueued ==
  /\ tick.pc = "adding"
  /\ \/ QueueWritten /\ ready' = FALSE
     \/ QueueUnwritten /\ UNCHANGED ready
  /\ TickEnds
  /\ UNCHANGED <<queue, runs, runFile, unsaved, disp, rep, attention, added, started>>

\* cancelGraphQueuedItem, when a start dependency regressed.
Withdraw(i) ==
  /\ tick.pc = "idle" /\ ~ready /\ Claimable(i) /\ ~HandedTo(i, "live")
  /\ queue' = Remove(i)
  /\ tick' = [pc |-> "withdrawing", item |-> i]
  /\ UNCHANGED <<queueFile, runs, runFile, unsaved, disp, rep, work>>

\* Mutant: the backlog is told before the removal is in the file.
WithdrawnAtOnce ==
  /\ tick.pc = "withdrawing"
  /\ tick' = [tick EXCEPT !.pc = "committing"]
  /\ UNCHANGED <<queue, queueFile, runs, runFile, unsaved, disp, rep, work>>

ComesBack(i) ==
  /\ queue' = Release(i)
  /\ started' = started \ {i}

\* The removal is in the file, or the row comes back.
Withdrawn ==
  /\ tick.pc = "withdrawing"
  /\ \/ QueueWritten /\ tick' = [tick EXCEPT !.pc = "committing"] /\ UNCHANGED queue
        /\ UNCHANGED started
     \/ QueueUnwritten /\ ComesBack(tick.item) /\ TickEnds
  /\ UNCHANGED <<runs, runFile, unsaved, disp, rep, ready, attention, added>>

\* commitDependent: the backlog records the withdrawal, or the row comes back.
CommitDependent ==
  /\ tick.pc = "committing"
  /\ \/ attention' = attention \cup {tick.item} /\ UNCHANGED <<queue, started>>
     \/ ComesBack(tick.item) /\ UNCHANGED attention
  /\ TickEnds
  /\ UNCHANGED <<queueFile, runs, runFile, unsaved, disp, rep, ready, added>>

-----------------------------------------------------------------------------
(* Replay of a cancelled run *)

\* assertCancelledReplayNodeAvailable
Available(r) == ~\E s \in Run \ {r} : IsLive(s)

\* The node's row, if it has one, is locked before anything is waited for.  A run is
\* replayed once its cancellation was answered, which is after it is on disk.
BeginReplay(p, r) ==
  /\ rep[p].pc = "idle" /\ runs[r].status = "cancelled" /\ r \notin unsaved /\ Available(r)
  /\ \/ /\ \A i \in Item : ~Present(i)
        /\ rep' = [rep EXCEPT ![p] = [pc |-> "preparing", run |-> r, lock |-> 0]]
        /\ UNCHANGED queue
     \/ \E i \in Item :
          /\ Claimable(i) /\ \A j \in 1..(i - 1) : ~Present(j)
          /\ queue' = Claim(i, p)
          /\ rep' = [rep EXCEPT ![p] = [pc |-> "locking", run |-> r, lock |-> i]]
  /\ UNCHANGED <<queueFile, runs, runFile, unsaved, disp, tick, work>>

Locked(p) ==
  /\ rep[p].pc = "locking"
  /\ QueueWritten
  /\ rep' = [rep EXCEPT ![p].pc = "preparing"]
  /\ UNCHANGED <<queue, runs, runFile, unsaved, disp, tick, work>>

\* A replay that fails gives its row back, if it still holds it.
EndReplay(p) ==
  LET i == rep[p].lock
  IN /\ IF i # 0 /\ Holds(i, p) THEN ComesBack(i) ELSE UNCHANGED <<queue, started>>
     /\ rep' = [rep EXCEPT ![p] = NoReplay]

ReplayFails(p) ==
  /\ rep[p].pc \in {"locking", "preparing", "reviving"}
  /\ EndReplay(p)
  /\ UNCHANGED <<queueFile, runs, runFile, unsaved, disp, tick, ready, attention, added>>

Resurrect(r) ==
  /\ runs' = [runs EXCEPT ![r].status = "live"]
  /\ unsaved' = unsaved \cup {r}

\* Mutant: what was checked before the preparation is not checked again.
ReviveUnchecked(p) ==
  /\ rep[p].pc = "preparing" /\ Exists(rep[p].run)
  /\ Resurrect(rep[p].run)
  /\ rep' = [rep EXCEPT ![p].pc = "reviving"]
  /\ UNCHANGED <<queue, queueFile, runFile, disp, tick, work>>

\* After a long preparation node and lock are checked again and the run lives; a run
\* that lives already is taken over from another replay.
Revive(p) ==
  LET r == rep[p].run
  IN /\ rep[p].pc = "preparing"
     /\ \/ runs[r].status = "cancelled" /\ Available(r)
           /\ (rep[p].lock # 0 => Holds(rep[p].lock, p))
        \/ IsLive(r)
     /\ Resurrect(r)
     /\ rep' = [rep EXCEPT ![p].pc = "reviving"]
     /\ UNCHANGED <<queue, queueFile, runFile, disp, tick, work>>

Revived(p) ==
  LET r == rep[p].run
  IN /\ rep[p].pc = "reviving"
     /\ RunWritten(r)
     /\ rep' = [rep EXCEPT ![p].pc = "revived"]
     /\ UNCHANGED <<queue, queueFile, runs, disp, tick, work>>

\* The replaced row goes, whoever claimed it since.  Written or not, the replay then
\* leaves queue and runs alone; the write itself is SaveQueue.
DropLock(p) ==
  /\ rep[p].pc = "revived"
  /\ queue' = IF rep[p].lock # 0 THEN Remove(rep[p].lock) ELSE queue
  /\ rep' = [rep EXCEPT ![p] = NoReplay]
  /\ UNCHANGED <<queueFile, runs, runFile, unsaved, disp, tick, work>>

-----------------------------------------------------------------------------
(* Restart *)

LiveOwner == \E r \in Run : runFile[r].status = "live"

\* loadQueue: rows handed over, or owned by a live run, are dropped; claims end.
Loaded(row) ==
  CASE row.status = "queued" /\ ~LiveOwner -> row
    [] row.status = "dispatching" /\ ~LiveOwner /\ ~(row.run # 0 /\ Saved(row.run)) -> QueuedRow
    [] OTHER -> NoRow

\* The gateway dies and comes back; the engine takes the live runs up again.
Restart ==
  /\ queue' = [i \in Item |-> Loaded(queueFile[i])]
  /\ runs' = runFile
  /\ unsaved' = {}
  /\ disp' = NoCycle
  /\ rep' = [p \in Replay |-> NoReplay]
  /\ TickEnds
  /\ UNCHANGED <<queueFile, runFile, work>>

Next ==
  \/ SaveQueue \/ SaveRuns \/ Reclaim \/ NotCreated \/ Stamp \/ Record \/ Start
  \/ Link \/ Drop \/ CreateFailed \/ Discarded
  \/ \E i \in Item : ClaimRow(i) \/ Purge(i) \/ Withdraw(i)
  \/ \E r \in Run : Create(r) \/ CancelRun(r) \/ FinishRun(r)
  \/ Reopen \/ Unlock \/ Enqueue \/ NotEnqueued \/ Enqueued \/ Withdrawn \/ CommitDependent
  \/ \E p \in Replay :
       \/ \E r \in Run : BeginReplay(p, r)
       \/ Locked(p) \/ ReplayFails(p) \/ Revive(p) \/ Revived(p) \/ DropLock(p)
  \/ Restart

Spec == Init /\ [][Next]_vars

-----------------------------------------------------------------------------
(* Properties *)

\* Rows, runs and processes keep their shape; only a claimed row has a holder or a run.
TypeOK ==
  /\ queue \in [Item -> Row] /\ queueFile \in [Item -> Row]
  /\ \A i \in Item : queue[i].status # "dispatching" => queue[i].holder = "none" /\ queue[i].run = 0
  /\ runs \in [Run -> RunRecord] /\ runFile \in [Run -> RunRecord]
  /\ unsaved \subseteq Run
  /\ disp \in Cycle /\ rep \in [Replay -> Attempt] /\ tick \in Tick
  /\ ready \in BOOLEAN /\ added \in 0..MaxRows
  /\ attention \subseteq Item /\ started \subseteq Item

\* The node never has two live runs, whoever created or revived them, before or after a
\* restart.
SingleOwner == TypeOK /\ \A r \in Run : IsLive(r) => \A s \in Run : IsLive(s) => r = s

\* Work that is queued stays queued until a run with a file stands for it, the
\* scheduler withdraws it or will add it anew, or it can never be created.
WorkIsKept ==
  [][\A i \in Item :
       Claimable(i) /\ queue'[i].status = "none" =>
         \/ \E r \in Run : Saved(r) /\ (runs[r].of = i \/ runFile[r].status = "live")
         \/ \E p \in Replay : rep[p].pc = "revived" /\ rep[p].lock = i /\ Saved(rep[p].run)
         \/ tick'.pc = "withdrawing" /\ tick'.item = i
         \/ ready
         \/ queueFile[i].status \in {"none", "cancelled"}]_vars

Creates(r) == ~Exists(r) /\ runs'[r].status # "none"

\* A row that still names its run when the cycle starts it makes no second run, through any
\* restart, unless a replay or a withdrawal that failed gave the row back since.
NotDispatchedAgain == [][\A r \in Run : Creates(r) => runs'[r].of \notin started]_vars

\* Once the backlog has recorded a row's withdrawal no run is made of it.
WithdrawnForGood == [][\A r \in Run : Creates(r) => runs'[r].of \notin attention]_vars

\* run.ts says of the handoff: the run file cannot appear on disk before the queue file
\* names the run.
StampPrecedesRun ==
  \A r \in Run : Saved(r) =>
    LET row == queueFile[runFile[r].of] IN row.status = "none" \/ row.run = r

\* dispatch-queue.ts says of a replay's claim: never steal a stamped handoff mid-create.
HandoffNotStolen ==
  \A p \in Replay :
    rep[p].lock # 0 /\ rep[p].lock = disp.item =>
      disp.pc \notin {"stamping", "recording", "starting", "linking"}

=============================================================================
