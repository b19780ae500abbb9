------------------------ MODULE DispatchQueueProofs ------------------------
(***************************************************************************)
(* What holds of DispatchQueue for any number of rows, runs and replays:   *)
(* a node has one live run, a row that was started or withdrawn makes no   *)
(* other one, and no queued work is lost.                                  *)
(***************************************************************************)
EXTENDS DispatchQueue, TLAPS

-----------------------------------------------------------------------------
(* The inductive invariant *)

\* A cycle whose run is in memory and not yet handed over.
Going == {"stamping", "recording", "starting", "failed"}

\* A run without an outstanding write is on disk as it is, unless it has no file at all, and
\* neither the memory nor the disk has two live runs.
RunsInv ==
  /\ \A r \in unsaved : Exists(r)
  /\ \A r \in Run \ unsaved : Saved(r) => runFile[r] = runs[r]
  /\ \A r \in Run : runs[r].status \in {"cancelled", "done"} => r \in unsaved \/ Saved(r)
  /\ \A r, s \in Run : IsLive(r) /\ IsLive(s) => r = s
  /\ \A r, s \in Run : runFile[r].status = "live" /\ runFile[s].status = "live" => r = s

\* The node has one row at a time, in memory and in the file, and none while its next one is
\* added or the last one withdrawn.
OneRow ==
  /\ \A i, j \in Item : Present(i) /\ Present(j) => i = j
  /\ \A i, j \in Item : queueFile[i].status # "none" /\ queueFile[j].status # "none" => i = j
  /\ tick.pc \in {"unlocking", "withdrawing", "committing"} => \A i \in Item : ~Present(i)

Withdrawing(i) == tick.item = i /\ tick.pc \in {"withdrawing", "committing"}

\* A row names a run of its own, with a file unless the cycle is about to write it; a started row
\* is gone or names one with a file, in memory and in the file; a withdrawn row is gone.
RowInv(i) ==
  /\ Present(i) \/ queueFile[i].status # "none" \/ i \in started \/ i \in attention => i <= added
  /\ queue[i].run # 0 =>
       /\ \/ Saved(queue[i].run)
          \/ i = disp.item /\ queue[i].run = disp.run /\ disp.pc \in Going \cup {"discarded"}
       /\ Exists(queue[i].run) => runs[queue[i].run].of = i
  /\ queueFile[i].holder = "none"
  /\ queueFile[i].run # 0 =>
       /\ queueFile[i].status = "dispatching"
       /\ (Present(i) \/ Withdrawing(i)) /\ Exists(queueFile[i].run) => runs[queueFile[i].run].of = i
  /\ i \in started =>
       /\ Claimable(i) => queue[i].run # 0 /\ Saved(queue[i].run)
       /\ queueFile[i].status \in {"queued", "dispatching"} =>
            queueFile[i].run # 0 /\ Saved(queueFile[i].run)
  /\ i \in attention => ~Present(i) /\ queueFile[i].status = "none"

\* The cycle's row is not a started one before it starts it, and its run is handed over with a file
\* and, if the row still names it, with the stamp in the queue's file.
CycleInv ==
  /\ disp.pc # "idle" => disp.item # 0 /\ disp.item <= added
  /\ disp.pc \in {"creating", "discarded"} \cup Going => disp.item \notin started
  /\ disp.pc \in Going \cup {"linking"} =>
       disp.run # 0 /\ Exists(disp.run) /\ runs[disp.run].of = disp.item
  /\ disp.pc \in {"starting", "linking"} => Saved(disp.run)
  /\ disp.pc \in {"recording", "starting"} /\ queue[disp.item].run = disp.run =>
       queueFile[disp.item].status = "dispatching" /\ queueFile[disp.item].run = disp.run

\* A run that is replayed has a file.
ReplayInv(p) == rep[p].pc # "idle" => rep[p].run # 0 /\ Saved(rep[p].run)

\* A withdrawal is recorded once, and committed once the file is without the row.
TickInv ==
  /\ tick.pc \in {"withdrawing", "committing"} =>
       tick.item # 0 /\ tick.item <= added /\ tick.item \notin attention
  /\ tick.pc = "committing" => queueFile[tick.item].status = "none"

Inv ==
  /\ TypeOK /\ RunsInv /\ OneRow /\ CycleInv /\ TickInv
  /\ \A i \in Item : RowInv(i)
  /\ \A p \in Replay : ReplayInv(p)

-----------------------------------------------------------------------------
(* Numbers, rows and runs *)

\* Rows and runs are numbered from 1, and the next row is one as long as the bound allows.
LEMMA Numbers ==
  ASSUME QueueAssumption
  PROVE  /\ Item \subseteq Nat /\ 0 \notin Item /\ Run \subseteq Nat /\ 0 \notin Run
         /\ \A n \in Nat : n < MaxRows => n + 1 \in Item
  BY QueueAssumption DEF QueueAssumption, Item, Run

\* The values that stand for nothing are of the right shape.
LEMMA Shapes ==
  ASSUME QueueAssumption
  PROVE  /\ NoRow \in Row /\ QueuedRow \in Row /\ NoRun \in RunRecord
         /\ NoCycle \in Cycle /\ NoReplay \in Attempt
         /\ NoRow.status = "none" /\ NoRow.run = 0 /\ NoRow.holder = "none"
         /\ QueuedRow.status = "queued" /\ QueuedRow.run = 0 /\ QueuedRow.holder = "none"
         /\ NoRun.status = "none"
         /\ NoCycle.pc = "idle" /\ NoReplay.pc = "idle"
  BY DEF NoRow, QueuedRow, NoRun, NoCycle, NoReplay, Row, RunRecord, Cycle, Attempt, Holder

\* What has a file is in memory.
LEMMA SavedRunsExist ==
  ASSUME TypeOK, RunsInv, NEW r \in Run, Saved(r)
  PROVE  Exists(r)
  BY DEF TypeOK, RunsInv, Saved, Exists

\* What a write of the queue's file leaves there.
LEMMA FileOfQueue ==
  ASSUME QueueAssumption, TypeOK, QueueWritten
  PROVE  /\ queueFile' \in [Item -> Row]
         /\ \A i \in Item : queueFile'[i].status = queue[i].status /\ queueFile'[i].run = queue[i].run
         /\ \A i \in Item : queueFile'[i].holder = "none"
  <1>1. \A i \in Item : [queue[i] EXCEPT !.holder = "none"] \in Row
    BY DEF TypeOK, Row, Holder
  <1>2. \A i \in Item : [queue[i] EXCEPT !.holder = "none"].status = queue[i].status
    BY DEF TypeOK, Row
  <1>3. \A i \in Item : [queue[i] EXCEPT !.holder = "none"].run = queue[i].run
    BY DEF TypeOK, Row
  <1>4. \A i \in Item : [queue[i] EXCEPT !.holder = "none"].holder = "none"
    BY DEF TypeOK, Row
  <1> QED
    BY <1>1, <1>2, <1>3, <1>4 DEF QueueWritten

\* What the writes of one row leave in memory.
LEMMA RowWrites ==
  ASSUME QueueAssumption, TypeOK, NEW i \in Item
  PROVE  /\ Release(i) \in [Item -> Row] /\ Remove(i) \in [Item -> Row]
         /\ \A h \in Holder : Claim(i, h) \in [Item -> Row]
         /\ Release(i)[i] = QueuedRow /\ Remove(i)[i] = NoRow
         /\ \A h \in Holder : /\ Claim(i, h)[i].status = "dispatching"
                              /\ Claim(i, h)[i].holder = h /\ Claim(i, h)[i].run = queue[i].run
         /\ \A j \in Item \ {i} : /\ Release(i)[j] = queue[j] /\ Remove(i)[j] = queue[j]
                                  /\ \A h \in Holder : Claim(i, h)[j] = queue[j]
  BY Shapes DEF TypeOK, Row, Release, Remove, Claim, With

\* A claim, and the release of a row that is there, add no row.
LEMMA ClaimsKeepRows ==
  ASSUME QueueAssumption, TypeOK, NEW i \in Item, NEW h \in Holder, h # "none", Claimable(i), NEW j \in Item
  PROVE  /\ Claim(i, h)[j].run = queue[j].run
         /\ Claim(i, h)[j].status # "none" <=> Present(j)
         /\ Claim(i, h)[j].status \in {"queued", "dispatching"} <=> Claimable(j)
         /\ Claim(i, h)[j].status # "dispatching" => Claim(i, h)[j].holder = "none" /\ Claim(i, h)[j].run = 0
  <1>1. CASE j = i
    BY <1>1, RowWrites DEF Claimable, Present
  <1>2. CASE j # i
    BY <1>2, RowWrites DEF TypeOK, Claimable, Present
  <1> QED
    BY <1>1, <1>2

\* The release of a row that is there adds none.
LEMMA ReleasesAddNoRow ==
  ASSUME QueueAssumption, TypeOK, NEW i \in Item, Present(i), NEW j \in Item, Release(i)[j].status # "none"
  PROVE  Present(j)
  <1>1. CASE j = i
    BY <1>1
  <1>2. CASE j # i
    BY <1>2, RowWrites DEF Present
  <1> QED
    BY <1>1, <1>2

\* A write of the runs that have an outstanding one leaves every file as its run is in memory.
LEMMA RunsAreWritten ==
  ASSUME TypeOK, RunsInv, NEW W \in SUBSET Run, unsaved \subseteq W, \A r \in W : Exists(r),
         RunsWritten(W), UNCHANGED runs
  PROVE  /\ RunsInv' /\ runFile' \in [Run -> RunRecord] /\ unsaved' = {}
         /\ \A r \in Run : Saved(r) => Saved(r)'
         /\ \A r \in W : Saved(r)'
  <1>1. runFile' \in [Run -> RunRecord] /\ unsaved' = {}
    BY DEF TypeOK, RunsWritten
  <1>2. \A r \in Run : runFile'[r] = IF r \in W THEN runs[r] ELSE runFile[r]
    BY DEF RunsWritten
  <1>3. \A r \in Run \ W : Saved(r) => runFile[r] = runs[r]
    BY DEF RunsInv
  <1>4. \A r \in W : Saved(r)'
    BY <1>2 DEF Saved, Exists
  <1>5. \A r \in Run : Saved(r) => Saved(r)'
    BY <1>2, <1>4 DEF Saved
  <1>6. \A r \in Run : runFile'[r].status = "live" => IsLive(r)
    BY <1>2, <1>3 DEF Saved, IsLive
  <1>7. \A r \in Run : Saved(r)' => runFile'[r] = runs'[r]
    BY <1>2, <1>3 DEF Saved
  <1>8. \A r \in Run : runs'[r].status \in {"cancelled", "done"} => Saved(r)'
    BY <1>4, <1>5 DEF RunsInv
  <1>9. RunsInv'
    BY <1>1, <1>6, <1>7, <1>8 DEF RunsInv, IsLive
  <1> QED
    BY <1>1, <1>4, <1>5, <1>9

\* Steps of the cycle, a replay and the tick keep their shape.
LEMMA Moves ==
  ASSUME QueueAssumption, TypeOK
  PROVE  /\ \A pc \in {"idle", "creating", "stamping", "recording", "starting", "linking", "dropping",
                       "failed", "discarded"} : [disp EXCEPT !.pc = pc] \in Cycle
         /\ \A pc \in {"idle", "locking", "preparing", "reviving", "revived"}, p \in Replay :
              [rep EXCEPT ![p].pc = pc] \in [Replay -> Attempt]
         /\ \A pc \in {"idle", "unlocking", "adding", "withdrawing", "committing"} :
              /\ [tick EXCEPT !.pc = pc] \in Tick
              /\ \A i \in Item \cup {0} : [pc |-> pc, item |-> i] \in Tick
         /\ \A s \in {"none", "live", "cancelled", "done"}, r \in Run :
              [runs EXCEPT ![r].status = s] \in [Run -> RunRecord]
  <1>1. \A pc \in {"idle", "creating", "stamping", "recording", "starting", "linking", "dropping",
                   "failed", "discarded"} : [disp EXCEPT !.pc = pc] \in Cycle
    BY DEF TypeOK, Cycle
  <1>2. ASSUME NEW pc \in {"idle", "locking", "preparing", "reviving", "revived"}, NEW p \in Replay
        PROVE  [rep EXCEPT ![p].pc = pc] \in [Replay -> Attempt]
    <2>1. [rep[p] EXCEPT !.pc = pc] \in Attempt
      BY DEF TypeOK, Attempt
    <2> QED
      BY <2>1 DEF TypeOK
  <1>3. \A pc \in {"idle", "unlocking", "adding", "withdrawing", "committing"} :
          /\ [tick EXCEPT !.pc = pc] \in Tick
          /\ \A i \in Item \cup {0} : [pc |-> pc, item |-> i] \in Tick
    BY DEF TypeOK, Tick
  <1>4. ASSUME NEW s \in {"none", "live", "cancelled", "done"}, NEW r \in Run
        PROVE  [runs EXCEPT ![r].status = s] \in [Run -> RunRecord]
    <2>1. [runs[r] EXCEPT !.status = s] \in RunRecord
      BY DEF TypeOK, RunRecord
    <2> QED
      BY <2>1 DEF TypeOK
  <1> QED
    BY <1>1, <1>2, <1>3, <1>4

\* The queue's file is written as the queue is in memory, so it names no run the queue does not.
LEMMA SaveQueueKeeps ==
  ASSUME QueueAssumption, Inv, SaveQueue
  PROVE  Inv'
  <1>1. TypeOK'
    BY Numbers, Shapes, FileOfQueue, RowWrites, SavedRunsExist, SMTT(20) DEF Inv, TypeOK, SaveQueue,
       Row, RunRecord, Cycle, Attempt, Tick, work, Holder
  <1>2. OneRow'
    BY DEF Inv, TypeOK, OneRow, SaveQueue, Row, RunRecord, Cycle, Attempt, Tick, Present, QueueWritten,
       work
  <1>3. CycleInv'
    BY DEF Inv, TypeOK, CycleInv, SaveQueue, Row, RunRecord, Cycle, Attempt, Tick, Exists, Saved,
       Going, QueueWritten, work
  <1>4. TickInv'
    BY DEF Inv, TypeOK, OneRow, CycleInv, TickInv, SaveQueue, Row, Cycle, Tick, Present, Going,
       QueueWritten, work
  <1>5. ASSUME NEW n \in Item PROVE RowInv(n)'
    BY DEF Inv, TypeOK, RowInv, SaveQueue, Row, RunRecord, Cycle, Attempt, Tick, Exists, Saved,
       Present, Going, Withdrawing, Claimable, QueueWritten, work
  <1>6. RunsInv' /\ (\A x \in Replay : ReplayInv(x)')
    BY DEF Inv, RunsInv, ReplayInv, Exists, Saved, IsLive, SaveQueue, work
  <1> QED
    BY <1>1, <1>2, <1>3, <1>4, <1>5, <1>6 DEF Inv

\* Outstanding writes of runs lose no file.
LEMMA SaveRunsKeeps ==
  ASSUME QueueAssumption, Inv, SaveRuns
  PROVE  Inv'
  <1>1. TypeOK'
    BY DEF Inv, TypeOK, SaveRuns, Row, RunRecord, Cycle, Attempt, Tick, RunsWritten, work, Holder
  <1>2. RunsInv'
    BY DEF Inv, RunsInv, SaveRuns, Exists, Saved, IsLive, RunsWritten, work
  <1>3. CycleInv'
    BY DEF Inv, TypeOK, CycleInv, SaveRuns, Row, RunRecord, Cycle, Attempt, Tick, Exists, Saved, Going,
       RunsWritten, work
  <1>4. ASSUME NEW n \in Item PROVE RowInv(n)'
    BY Numbers, Shapes DEF Inv, TypeOK, RunsInv, OneRow, CycleInv, TickInv, RowInv, ReplayInv,
       SaveRuns, Row, RunRecord, Cycle, Attempt, Tick, Exists, Saved, IsLive, Present, Going,
       Withdrawing, Claimable, RunsWritten, work, Holder
  <1>5. ASSUME NEW x \in Replay PROVE ReplayInv(x)'
    BY Numbers, Shapes DEF Inv, TypeOK, RunsInv, OneRow, CycleInv, TickInv, RowInv, ReplayInv,
       SaveRuns, Row, RunRecord, Cycle, Attempt, Tick, Exists, Saved, IsLive, Present, Going,
       Withdrawing, Claimable, RunsWritten, work, Holder
  <1>6. OneRow' /\ TickInv'
    BY DEF Inv, OneRow, TickInv, Present, SaveRuns, work
  <1> QED
    BY <1>1, <1>2, <1>3, <1>4, <1>5, <1>6 DEF Inv

\* A claim whose time is over is freed, unless the row's run exists.
LEMMA ReclaimKeeps ==
  ASSUME QueueAssumption, Inv, Reclaim
  PROVE  Inv'
  <1>1. TypeOK'
    BY Numbers, Shapes DEF Inv, TypeOK, Reclaim, Row, RunRecord, Cycle, Attempt, Tick, Exists, work,
       Holder
  <1>2. OneRow'
    BY DEF Inv, OneRow, Reclaim, Exists, Present, work
  <1>3. CycleInv'
    BY DEF Inv, CycleInv, Reclaim, Exists, Saved, Going, work
  <1>4. ASSUME NEW n \in Item PROVE RowInv(n)'
    BY SMTT(20), Numbers, Shapes
       DEF Inv, TypeOK, RunsInv, OneRow, CycleInv, TickInv, RowInv, ReplayInv, Reclaim,
       Row, RunRecord, Cycle, Attempt, Tick, Exists, Saved, IsLive, Present, Going, Withdrawing,
       Claimable, work, Holder
  <1>5. RunsInv' /\ TickInv' /\ (\A x \in Replay : ReplayInv(x)')
    BY DEF Inv, RunsInv, TickInv, ReplayInv, Exists, Saved, IsLive, Reclaim, work
  <1> QED
    BY <1>1, <1>2, <1>3, <1>4, <1>5 DEF Inv

\* A cycle that made no run gives back its row or takes it out.
LEMMA NotCreatedKeeps ==
  ASSUME QueueAssumption, Inv, NotCreated
  PROVE  Inv'
  <1>1. TypeOK'
    <2>1. [NoRow EXCEPT !.status = "cancelled"] \in Row
      BY Shapes DEF NoRow, Row
    <2>2. disp' \in Cycle /\ disp.item \in Item
      BY Shapes, Numbers DEF Inv, TypeOK, Cycle, CycleInv, NotCreated
    <2>3. queue' \in [Item -> Row]
      BY <2>1, <2>2, RowWrites DEF Inv, TypeOK, NotCreated, ReleaseIfHeld, With
    <2>4. \A i \in Item : queue'[i].status # "dispatching" => queue'[i].holder = "none" /\ queue'[i].run = 0
      BY <2>1, <2>2, Shapes DEF Inv, TypeOK, NotCreated, ReleaseIfHeld, Release, With, NoRow
    <2> QED
      BY <2>2, <2>3, <2>4 DEF Inv, TypeOK, NotCreated, work
  <1>2. OneRow'
    <2>1. disp.item \in Item
      BY Numbers DEF Inv, TypeOK, Cycle, CycleInv, NotCreated
    <2>2. \A i \in Item : Present(i)' => Present(i)
      BY <2>1 DEF Inv, TypeOK, NotCreated, ReleaseIfHeld, Release, With, Holds, Present
    <2> QED
      BY <2>2 DEF Inv, OneRow, NotCreated
  <1>3. CycleInv'
    BY Numbers, Shapes DEF Inv, CycleInv, NotCreated, Exists, Saved, Going, ReleaseIfHeld, Holds, With,
       work, Release
  <1>4. ASSUME NEW n \in Item PROVE RowInv(n)'
    BY Numbers, Shapes DEF Inv, TypeOK, OneRow, CycleInv, TickInv, RowInv, NotCreated, Row, Cycle,
       Tick, Exists, Saved, Present, Going, Withdrawing, Claimable, ReleaseIfHeld, Holds, With, work,
       Release
  <1>5. RunsInv' /\ TickInv' /\ (\A x \in Replay : ReplayInv(x)')
    BY DEF Inv, RunsInv, TickInv, ReplayInv, Exists, Saved, IsLive, NotCreated, work
  <1> QED
    BY <1>1, <1>2, <1>3, <1>4, <1>5 DEF Inv

\* The durable stamp puts the run's name into the queue's file.
LEMMA StampKeeps ==
  ASSUME QueueAssumption, Inv, Stamp
  PROVE  Inv'
  <1>1. TypeOK'
    BY Moves, FileOfQueue DEF Inv, TypeOK, Stamp, QueueUnwritten, work
  <1>2. OneRow'
    BY DEF Inv, TypeOK, OneRow, Stamp, Row, RunRecord, Cycle, Attempt, Tick, Present, QueueWritten,
       QueueUnwritten, work
  <1>3. CycleInv'
    BY DEF Inv, TypeOK, CycleInv, Stamp, Row, RunRecord, Cycle, Attempt, Tick, Exists, Saved, Going,
       QueueWritten, QueueUnwritten, work
  <1>4. TickInv'
    BY DEF Inv, TypeOK, OneRow, CycleInv, TickInv, Stamp, Row, Cycle, Tick, Present, Going,
       QueueWritten, QueueUnwritten, work
  <1>5. ASSUME NEW n \in Item PROVE RowInv(n)'
    BY DEF Inv, TypeOK, RowInv, Stamp, Row, RunRecord, Cycle, Attempt, Tick, Exists, Saved, Present,
       Going, Withdrawing, Claimable, QueueWritten, QueueUnwritten, work
  <1>6. RunsInv' /\ (\A x \in Replay : ReplayInv(x)')
    BY DEF Inv, RunsInv, ReplayInv, Exists, Saved, IsLive, Stamp, work
  <1> QED
    BY <1>1, <1>2, <1>3, <1>4, <1>5, <1>6 DEF Inv

\* The run's file is written while the row, if it still names the run, is stamped.
LEMMA RecordKeeps ==
  ASSUME QueueAssumption, Inv, Record
  PROVE  Inv'
  <1>1. TypeOK'
    <2>1. disp' \in Cycle
      BY Moves DEF Inv, Record
    <2>2. runFile' \in [Run -> RunRecord] /\ unsaved' \subseteq Run
      BY DEF Inv, TypeOK, Record, RunWritten, RunsWritten
    <2> QED
      BY <2>1, <2>2 DEF Inv, TypeOK, Record, work
  <1>2. RunsInv'
    <2>1. CASE RunWritten(disp.run)
      BY <2>1, Numbers, RunsAreWritten DEF Inv, TypeOK, Cycle, RunsInv, CycleInv, Going, Record, RunWritten
    <2>2. CASE UNCHANGED <<runFile, unsaved>>
      BY <2>2 DEF Inv, RunsInv, Record, IsLive, Exists, Saved
    <2> QED
      BY <2>1, <2>2 DEF Record
  <1>3. CycleInv'
    BY DEF Inv, TypeOK, CycleInv, Record, Row, RunRecord, Cycle, Attempt, Tick, Exists, Saved, Going,
       RunWritten, work, RunsWritten
  <1>4. ASSUME NEW n \in Item PROVE RowInv(n)'
    <2>1. \A r \in Run : Saved(r) => Saved(r)'
      BY Numbers, RunsAreWritten DEF Inv, TypeOK, Cycle, RunsInv, CycleInv, Going, Record, RunWritten, Saved
    <2>2. disp'.item = disp.item /\ disp'.run = disp.run /\ disp'.pc \in {"starting", "failed"}
      BY DEF Inv, TypeOK, Cycle, Record
    <2>3. disp'.pc = "starting" => Saved(disp.run)'
      BY Numbers, RunsAreWritten DEF Inv, TypeOK, Cycle, RunsInv, CycleInv, Going, Record, RunWritten
    <2> QED
      BY <2>1, <2>2, <2>3 DEF Inv, TypeOK, Row, RowInv, Going, Record, work, Present, Claimable,
         Exists, Withdrawing
  <1>5. ASSUME NEW x \in Replay PROVE ReplayInv(x)'
    BY Numbers, Shapes DEF Inv, TypeOK, RunsInv, OneRow, CycleInv, TickInv, RowInv, ReplayInv, Record,
       Row, RunRecord, Cycle, Attempt, Tick, Exists, Saved, IsLive, Present, Going, Withdrawing,
       Claimable, RunWritten, work, Holder, RunsWritten
  <1>6. OneRow' /\ TickInv'
    BY DEF Inv, OneRow, TickInv, Present, Record, work
  <1> QED
    BY <1>1, <1>2, <1>3, <1>4, <1>5, <1>6 DEF Inv

\* The run that is started has a file, and so has every row that names it.
LEMMA StartKeeps ==
  ASSUME QueueAssumption, Inv, Start
  PROVE  Inv'
  <1>1. TypeOK'
    <2>1. disp' \in Cycle
      BY Moves DEF Inv, Start
    <2>2. started' \subseteq Item /\ unsaved' \subseteq Run
      BY Numbers DEF Inv, TypeOK, Cycle, CycleInv, Going, Start
    <2> QED
      BY <2>1, <2>2 DEF Inv, TypeOK, Start, work
  <1>2. RunsInv'
    BY DEF Inv, RunsInv, CycleInv, Start, Exists, Saved, IsLive, Going
  <1>3. CycleInv'
    BY DEF Inv, TypeOK, CycleInv, Start, Row, RunRecord, Cycle, Attempt, Tick, Exists, Saved, Going
  <1>4. ASSUME NEW n \in Item PROVE RowInv(n)'
    BY DEF Inv, CycleInv, RowInv, Start, Exists, Saved, Present, Going, Withdrawing, Claimable
  <1>5. OneRow' /\ TickInv' /\ (\A x \in Replay : ReplayInv(x)')
    BY DEF Inv, OneRow, TickInv, ReplayInv, Present, Saved, Start
  <1> QED
    BY <1>1, <1>2, <1>3, <1>4, <1>5 DEF Inv

\* The started row is dropped while its run has a file.
LEMMA LinkKeeps ==
  ASSUME QueueAssumption, Inv, Link
  PROVE  Inv'
  <1>1. TypeOK'
    <2>1. disp.item \in Item
      BY Numbers DEF Inv, TypeOK, Cycle, CycleInv, Link
    <2>2. disp' \in Cycle
      BY Moves DEF Inv, Link
    <2>3. /\ queue' \in [Item -> Row]
          /\ \A i \in Item : queue'[i].status # "dispatching" =>
               queue'[i].holder = "none" /\ queue'[i].run = 0
      BY SMTT(20), <2>1, RowWrites, Shapes DEF Inv, TypeOK, Link
    <2> QED
      BY <2>2, <2>3 DEF Inv, TypeOK, Link
  <1>2. OneRow'
    BY Numbers, Shapes DEF Inv, OneRow, Link, Present, Remove, With
  <1>3. CycleInv'
    BY DEF Inv, CycleInv, Link, Exists, Saved, Going, Remove, With
  <1>4. ASSUME NEW n \in Item PROVE RowInv(n)'
    BY Numbers, Shapes DEF Inv, RowInv, Link, Exists, Saved, Present, Going, Withdrawing, Claimable,
       Remove, With
  <1>5. RunsInv' /\ TickInv' /\ (\A x \in Replay : ReplayInv(x)')
    BY DEF Inv, RunsInv, TickInv, ReplayInv, Exists, Saved, IsLive, Link
  <1> QED
    BY <1>1, <1>2, <1>3, <1>4, <1>5 DEF Inv

\* Dropping the row of a started run leaves no other row.
LEMMA DropKeeps ==
  ASSUME QueueAssumption, Inv, Drop
  PROVE  Inv'
  <1>1. TypeOK'
    BY Numbers, Shapes DEF Inv, TypeOK, OneRow, Drop, Row, RunRecord, Cycle, Attempt, Tick, Present,
       QueueWritten, QueueUnwritten, work, Holder
  <1>2. OneRow'
    BY DEF Inv, TypeOK, OneRow, Drop, Row, RunRecord, Cycle, Attempt, Tick, Present, QueueWritten,
       QueueUnwritten, work
  <1>3. CycleInv'
    BY Numbers, Shapes DEF Inv, CycleInv, Drop, Exists, Saved, Going, QueueWritten, QueueUnwritten,
       work
  <1>4. TickInv'
    BY DEF Inv, TypeOK, OneRow, CycleInv, TickInv, Drop, Row, Cycle, Tick, Present, Going,
       QueueWritten, QueueUnwritten, work
  <1>5. ASSUME NEW n \in Item PROVE RowInv(n)'
    BY DEF Inv, TypeOK, RowInv, Drop, Row, RunRecord, Cycle, Attempt, Tick, Exists, Saved, Present,
       Going, Withdrawing, Claimable, QueueWritten, QueueUnwritten, work
  <1>6. RunsInv' /\ (\A x \in Replay : ReplayInv(x)')
    BY DEF Inv, RunsInv, ReplayInv, Exists, Saved, IsLive, Drop, work
  <1> QED
    BY <1>1, <1>2, <1>3, <1>4, <1>5, <1>6 DEF Inv

\* A run with a file is kept and its row dropped; one in memory only goes together with its row's claim.
LEMMA CreateFailedKeeps ==
  ASSUME QueueAssumption, Inv, CreateFailed
  PROVE  Inv'
  <1>1. TypeOK'
    <2>1. disp.item \in Item /\ disp.run \in Run
      BY Numbers DEF Inv, TypeOK, Cycle, CycleInv, Going, CreateFailed
    <2>2. Stamped \in Run \cup {0}
      BY <2>1 DEF Inv, TypeOK, Row, Stamped
    <2>3. disp' \in Cycle
      BY Moves, Shapes DEF Inv, CreateFailed
    <2>4. runs' \in [Run -> RunRecord] /\ unsaved' \subseteq Run
      BY <2>2, Shapes DEF Inv, TypeOK, CreateFailed
    <2>5. /\ queue' \in [Item -> Row]
          /\ \A i \in Item : queue'[i].status # "dispatching" =>
               queue'[i].holder = "none" /\ queue'[i].run = 0
      BY <2>1, RowWrites, Shapes DEF Inv, TypeOK, CreateFailed, ReleaseIfHeld
    <2> QED
      BY <2>3, <2>4, <2>5 DEF Inv, TypeOK, CreateFailed, work
  <1>2. RunsInv'
    <2>1. disp.item \in Item /\ disp.run \in Run
      BY Numbers DEF Inv, TypeOK, Cycle, CycleInv, Going, CreateFailed
    <2>2. Stamped \in Run \cup {0}
      BY <2>1 DEF Inv, TypeOK, Row, Stamped
    <2>3. CASE UNCHANGED <<runs, unsaved>>
      BY <2>3 DEF Inv, RunsInv, CreateFailed, Exists, Saved, IsLive
    <2>4. CASE /\ Stamped # 0 /\ ~Saved(Stamped)
               /\ runs' = [runs EXCEPT ![Stamped] = NoRun] /\ unsaved' = unsaved \ {Stamped}
      BY <2>2, <2>4, Shapes DEF Inv, TypeOK, RunsInv, CreateFailed, Exists, Saved, IsLive
    <2> QED
      BY <2>3, <2>4 DEF CreateFailed
  <1>3. OneRow'
    <2>1. disp.item \in Item
      BY Numbers DEF Inv, TypeOK, Cycle, CycleInv, Going, CreateFailed
    <2>2. \A i \in Item : Present(i)' => Present(i)
      BY SMTT(20), <2>1, RowWrites, Shapes DEF Inv, CreateFailed, ReleaseIfHeld, Holds, Present
    <2> QED
      BY <2>2 DEF Inv, OneRow, CreateFailed
  <1>4. CycleInv'
    BY Numbers, Shapes DEF Inv, TypeOK, CycleInv, CreateFailed, Cycle, Exists, Saved, Present, Going,
       Stamped, ReleaseIfHeld, Remove, work, Holds, Release, With
  <1>5. ASSUME NEW n \in Item PROVE RowInv(n)'
    <2>1. disp.item \in Item /\ disp.run \in Run
      BY Numbers DEF Inv, TypeOK, Cycle, CycleInv, Going, CreateFailed
    <2>2. Stamped \in Run \cup {0} /\ (Present(disp.item) => Stamped = queue[disp.item].run)
      BY <2>1 DEF Inv, TypeOK, Row, Stamped
    <2>3. queue[n].run # 0 => Saved(queue[n].run) \/ n = disp.item
      BY DEF Inv, RowInv
    <2>4. /\ queue[n].run \in Run \cup {0} /\ queueFile[n].run \in Run \cup {0}
          /\ queue[n].run # 0 => Present(n)
      BY DEF Inv, TypeOK, Row, Present
    <2>5. CASE Stamped = 0 /\ ReleaseIfHeld(disp.item) /\ UNCHANGED <<runs, unsaved>>
      <3>1. queue'[n] = queue[n] \/ (queue'[n] = QueuedRow /\ n = disp.item /\ Present(n))
        BY <2>1, <2>5, RowWrites DEF Inv, ReleaseIfHeld, Holds, Present
      <3>2. queue[n].run # 0 => Saved(queue[n].run)
        BY <2>2, <2>3, <2>4, <2>5
      <3> QED
        BY <2>1, <2>5, <3>1, <3>2, Shapes DEF Inv, RowInv, CycleInv, CreateFailed, work, Present,
           Claimable, Saved,
           Exists, Withdrawing, Going
    <2>6. CASE Stamped # 0 /\ Saved(Stamped) /\ queue' = Remove(disp.item) /\ UNCHANGED <<runs, unsaved>>
      <3>1. queue'[n] = queue[n] \/ queue'[n] = NoRow
        BY <2>1, <2>6, RowWrites DEF Inv
      <3>2. queue[n].run # 0 => Saved(queue[n].run)
        BY <2>2, <2>3, <2>4, <2>6
      <3> QED
        BY <2>6, <3>1, <3>2, Shapes DEF Inv, RowInv, CreateFailed, work, Present, Claimable, Saved,
           Exists, Withdrawing
    <2>7. CASE /\ Stamped # 0 /\ ~Saved(Stamped) /\ runs' = [runs EXCEPT ![Stamped] = NoRun]
               /\ disp' = [disp EXCEPT !.pc = "discarded"] /\ UNCHANGED queue
      <3>1. disp'.pc = "discarded" /\ disp'.item = disp.item /\ disp'.run = disp.run
        BY <2>7 DEF Inv, TypeOK, Cycle
      <3>2. \A r \in Run : Exists(r)' => runs'[r] = runs[r] /\ Exists(r)
        BY <2>2, <2>7, Shapes DEF Inv, TypeOK, Exists
      <3> QED
        BY <2>4, <2>7, <3>1, <3>2 DEF Inv, RowInv, CreateFailed, work, Present, Claimable, Saved,
           Withdrawing, Going
    <2> QED
      BY <2>5, <2>6, <2>7 DEF CreateFailed
  <1>6. TickInv' /\ (\A x \in Replay : ReplayInv(x)')
    BY DEF Inv, TickInv, ReplayInv, Saved, CreateFailed, work
  <1> QED
    BY <1>1, <1>2, <1>3, <1>4, <1>5, <1>6 DEF Inv

\* The row of a discarded run is queued again without a name.
LEMMA DiscardedKeeps ==
  ASSUME QueueAssumption, Inv, Discarded
  PROVE  Inv'
  <1>1. TypeOK'
    BY ZenonT(30), Numbers, Shapes DEF Inv, TypeOK, Discarded, Row, RunRecord, Cycle, Attempt, Tick, Present,
       Release, work, Holder, With
  <1>2. OneRow'
    BY DEF Inv, OneRow, Discarded, Present, Release, work, With
  <1>3. CycleInv'
    BY Numbers, Shapes DEF Inv, CycleInv, Discarded, Exists, Saved, Present, Going, Release, work, With
  <1>4. ASSUME NEW n \in Item PROVE RowInv(n)'
    BY Numbers, Shapes DEF Inv, TypeOK, CycleInv, RowInv, Discarded, Cycle, Exists, Saved, Present,
       Going, Withdrawing, Claimable, Release, work, With
  <1>5. RunsInv' /\ TickInv' /\ (\A x \in Replay : ReplayInv(x)')
    BY DEF Inv, RunsInv, TickInv, ReplayInv, Exists, Saved, IsLive, Discarded, work
  <1> QED
    BY <1>1, <1>2, <1>3, <1>4, <1>5 DEF Inv

\* An operator who opens the item again changes no row.
LEMMA ReopenKeeps ==
  ASSUME QueueAssumption, Inv, Reopen
  PROVE  Inv'
  <1>1. TypeOK'
    BY DEF Inv, TypeOK, Reopen, Row, RunRecord, Cycle, Attempt, Tick, Exists, Open, Holder
  <1>2. /\ RunsInv' /\ OneRow' /\ CycleInv' /\ TickInv'
        /\ (\A n \in Item : RowInv(n)') /\ (\A x \in Replay : ReplayInv(x)')
    BY DEF Inv, RunsInv, OneRow, CycleInv, TickInv, RowInv, ReplayInv, Exists, Saved, IsLive, Present,
       Going, Withdrawing, Claimable, Reopen
  <1> QED
    BY <1>1, <1>2 DEF Inv

\* The tick finds neither a row nor a live run.
LEMMA UnlockKeeps ==
  ASSUME QueueAssumption, Inv, Unlock
  PROVE  Inv'
  <1>1. TypeOK'
    BY Moves DEF Inv, TypeOK, Unlock, work
  <1>2. OneRow'
    BY DEF Inv, OneRow, Unlock, Exists, Present, Open, work
  <1>3. TickInv'
    BY DEF Inv, TickInv, Unlock, Exists, Present, Open, work
  <1>4. ASSUME NEW n \in Item PROVE RowInv(n)'
    BY DEF Inv, RowInv, Unlock, Exists, Saved, Present, Going, Withdrawing, Claimable, Open, work
  <1>5. RunsInv' /\ CycleInv' /\ (\A x \in Replay : ReplayInv(x)')
    BY DEF Inv, RunsInv, CycleInv, ReplayInv, Exists, Saved, IsLive, Going, Unlock, work
  <1> QED
    BY <1>1, <1>2, <1>3, <1>4, <1>5 DEF Inv

\* A new row has a number of its own and is the only one.
LEMMA EnqueueKeeps ==
  ASSUME QueueAssumption, Inv, Enqueue
  PROVE  Inv'
  <1>1. TypeOK'
    BY Numbers, Shapes DEF Inv, TypeOK, Enqueue, Row, RunRecord, Cycle, Attempt, Tick, With, Holder
  <1>2. OneRow'
    BY DEF Inv, OneRow, Enqueue, Present, With
  <1>3. CycleInv'
    BY Numbers, Shapes DEF Inv, TypeOK, CycleInv, Enqueue, Row, RunRecord, Cycle, Attempt, Tick,
       Exists, Saved, Going, With
  <1>4. TickInv'
    BY DEF Inv, TickInv, Enqueue, With
  <1>5. ASSUME NEW n \in Item PROVE RowInv(n)'
    BY Numbers, Shapes DEF Inv, TypeOK, RowInv, Enqueue, Exists, Saved, Present, Going, Withdrawing,
       Claimable, With
  <1>6. RunsInv' /\ (\A x \in Replay : ReplayInv(x)')
    BY DEF Inv, RunsInv, ReplayInv, Exists, Saved, IsLive, Enqueue
  <1> QED
    BY <1>1, <1>2, <1>3, <1>4, <1>5, <1>6 DEF Inv

\* A row that could not be added is in neither the memory nor the file.
LEMMA NotEnqueuedKeeps ==
  ASSUME QueueAssumption, Inv, NotEnqueued
  PROVE  Inv'
  <1>1. TypeOK'
    BY Moves DEF Inv, TypeOK, NotEnqueued, work
  <1>2. OneRow'
    BY DEF Inv, OneRow, NotEnqueued, Present, work
  <1>3. TickInv'
    BY DEF Inv, TickInv, NotEnqueued, work
  <1>4. ASSUME NEW n \in Item PROVE RowInv(n)'
    BY DEF Inv, RowInv, NotEnqueued, Exists, Saved, Present, Going, Withdrawing, Claimable, work
  <1>5. RunsInv' /\ CycleInv' /\ (\A x \in Replay : ReplayInv(x)')
    BY DEF Inv, RunsInv, CycleInv, ReplayInv, Exists, Saved, IsLive, Going, NotEnqueued, work
  <1> QED
    BY <1>1, <1>2, <1>3, <1>4, <1>5 DEF Inv

\* The item of a row in the file is no longer ready.
LEMMA EnqueuedKeeps ==
  ASSUME QueueAssumption, Inv, Enqueued
  PROVE  Inv'
  <1>1. TypeOK'
    <2>1. tick' \in Tick
      BY Moves DEF Inv, Enqueued, TickEnds
    <2>2. queueFile' \in [Item -> Row] /\ ready' \in BOOLEAN
      BY FileOfQueue DEF Inv, TypeOK, Enqueued, QueueUnwritten
    <2> QED
      BY <2>1, <2>2 DEF Inv, TypeOK, Enqueued, work
  <1>2. OneRow'
    BY DEF Inv, TypeOK, OneRow, Enqueued, Row, RunRecord, Cycle, Attempt, Tick, Present, QueueWritten,
       QueueUnwritten, TickEnds
  <1>3. CycleInv'
    BY DEF Inv, TypeOK, CycleInv, Enqueued, Row, RunRecord, Cycle, Attempt, Tick, Exists, Saved, Going,
       QueueWritten, QueueUnwritten, TickEnds
  <1>4. TickInv'
    BY DEF Inv, TickInv, Enqueued, QueueWritten, QueueUnwritten, TickEnds
  <1>5. ASSUME NEW n \in Item PROVE RowInv(n)'
    BY Numbers, Shapes DEF Inv, TypeOK, RowInv, Enqueued, Row, RunRecord, Cycle, Attempt, Tick, Exists,
       Saved, Present, Going, Withdrawing, Claimable, QueueWritten, QueueUnwritten, TickEnds
  <1>6. RunsInv' /\ (\A x \in Replay : ReplayInv(x)')
    BY DEF Inv, RunsInv, ReplayInv, Exists, Saved, IsLive, Enqueued
  <1> QED
    BY <1>1, <1>2, <1>3, <1>4, <1>5, <1>6 DEF Inv

\* A withdrawn row is out of the file, or comes back as it was.
LEMMA WithdrawnKeeps ==
  ASSUME QueueAssumption, Inv, Withdrawn
  PROVE  Inv'
  <1>1. TypeOK'
    <2>1. tick.item \in Item
      BY Numbers DEF Inv, TypeOK, Tick, TickInv, Withdrawn
    <2>2. tick' \in Tick
      BY Moves DEF Inv, Withdrawn, TickEnds
    <2>3. /\ queue' \in [Item -> Row]
          /\ \A i \in Item : queue'[i].status # "dispatching" =>
               queue'[i].holder = "none" /\ queue'[i].run = 0
      BY <2>1, RowWrites, Shapes DEF Inv, TypeOK, Withdrawn, ComesBack
    <2>4. queueFile' \in [Item -> Row] /\ started' \subseteq Item
      BY FileOfQueue DEF Inv, TypeOK, Withdrawn, ComesBack, QueueUnwritten
    <2> QED
      BY <2>2, <2>3, <2>4 DEF Inv, TypeOK, Withdrawn
  <1>2. OneRow'
    <2>1. tick.item \in Item /\ \A i \in Item : ~Present(i)
      BY Numbers DEF Inv, TypeOK, Tick, TickInv, OneRow, Withdrawn
    <2>2. CASE QueueWritten /\ queue' = queue
      BY <2>1, <2>2, FileOfQueue DEF Inv, OneRow, Present
    <2>3. CASE QueueUnwritten /\ queue' = Release(tick.item) /\ TickEnds
      BY <2>1, <2>3, RowWrites DEF Inv, OneRow, Present, QueueUnwritten, TickEnds
    <2> QED
      BY <2>2, <2>3 DEF Withdrawn, ComesBack
  <1>3. CycleInv'
    BY Numbers, Shapes DEF Inv, TypeOK, RunsInv, OneRow, CycleInv, TickInv, RowInv, ReplayInv,
       Withdrawn, Row, RunRecord, Cycle, Attempt, Tick, Exists, Saved, IsLive, Present, Going,
       Withdrawing, Claimable, QueueWritten, QueueUnwritten, ComesBack, TickEnds, Holder, Release, With
  <1>4. TickInv'
    BY DEF Inv, TypeOK, OneRow, CycleInv, TickInv, Withdrawn, Row, Cycle, Tick, Present, Going,
       QueueWritten, QueueUnwritten, ComesBack, TickEnds, Release
  <1>5. ASSUME NEW n \in Item PROVE RowInv(n)'
    <2>1. /\ tick.item \in Item /\ tick.item <= added /\ tick.item \notin attention
          /\ \A i \in Item : ~Present(i)
          /\ tick'.item \in {tick.item, 0} /\ (tick'.item = 0 => tick'.pc = "idle") /\ tick.pc = "withdrawing"
      BY Numbers DEF Inv, TypeOK, Tick, TickInv, OneRow, Withdrawn, TickEnds
    <2>2. CASE QueueWritten /\ queue' = queue /\ started' = started
      BY <2>1, <2>2, FileOfQueue DEF Inv, TypeOK, RowInv, Withdrawn, Present, Claimable, Saved, Exists
    <2>3. CASE QueueUnwritten /\ queue' = Release(tick.item) /\ started' = started \ {tick.item}
      <3>1. UNCHANGED <<queueFile, runs, runFile, disp, attention, added>>
        BY <2>3 DEF Withdrawn, QueueUnwritten
      <3>2. CASE n = tick.item
        <4>1. queue'[n] = QueuedRow
          BY <2>1, <2>3, <3>2, RowWrites DEF Inv
        <4> QED
          BY <2>1, <2>3, <3>1, <3>2, <4>1, Shapes DEF Inv, RowInv, Present, Claimable, Saved, Exists,
             Withdrawing
      <3>3. CASE n # tick.item
        <4>1. queue'[n] = queue[n]
          BY <2>1, <2>3, <3>3, RowWrites DEF Inv
        <4> QED
          BY <2>1, <2>3, <3>1, <3>3, <4>1 DEF Inv, RowInv, Present, Claimable, Saved, Exists, Withdrawing
      <3> QED
        BY <3>2, <3>3
    <2> QED
      BY <2>2, <2>3 DEF Withdrawn, ComesBack
  <1>6. RunsInv' /\ (\A x \in Replay : ReplayInv(x)')
    BY DEF Inv, RunsInv, ReplayInv, Exists, Saved, IsLive, Withdrawn
  <1> QED
    BY <1>1, <1>2, <1>3, <1>4, <1>5, <1>6 DEF Inv

\* The withdrawal is recorded only when the row is in neither the memory nor the file.
LEMMA CommitDependentKeeps ==
  ASSUME QueueAssumption, Inv, CommitDependent
  PROVE  Inv'
  <1>1. TypeOK'
    <2>1. tick.item \in Item
      BY Numbers DEF Inv, TypeOK, Tick, TickInv, CommitDependent
    <2>2. tick' \in Tick
      BY Moves DEF Inv, CommitDependent, TickEnds
    <2>3. /\ queue' \in [Item -> Row]
          /\ \A i \in Item : queue'[i].status # "dispatching" =>
               queue'[i].holder = "none" /\ queue'[i].run = 0
      BY <2>1, RowWrites, Shapes DEF Inv, TypeOK, CommitDependent, ComesBack
    <2>4. attention' \subseteq Item /\ started' \subseteq Item
      BY <2>1 DEF Inv, TypeOK, CommitDependent, ComesBack
    <2> QED
      BY <2>2, <2>3, <2>4 DEF Inv, TypeOK, CommitDependent
  <1>2. OneRow'
    <2>1. tick.item \in Item /\ (\A i \in Item : ~Present(i)) /\ tick'.pc = "idle"
      BY Numbers DEF Inv, TypeOK, Tick, TickInv, OneRow, CommitDependent, TickEnds
    <2>2. \A i \in Item : Present(i)' => i = tick.item
      BY <2>1, RowWrites DEF Inv, CommitDependent, ComesBack, Present
    <2> QED
      BY <2>1, <2>2 DEF Inv, OneRow, CommitDependent
  <1>3. CycleInv'
    BY Numbers, Shapes DEF Inv, TypeOK, RunsInv, OneRow, CycleInv, TickInv, RowInv, ReplayInv,
       CommitDependent, Row, RunRecord, Cycle, Attempt, Tick, Exists, Saved, IsLive, Present, Going,
       Withdrawing, Claimable, ComesBack, TickEnds, Holder, Release, With
  <1>4. TickInv'
    BY DEF Inv, TickInv, CommitDependent, ComesBack, TickEnds, Release
  <1>5. ASSUME NEW n \in Item PROVE RowInv(n)'
    <2>1. /\ tick.item \in Item /\ tick.item <= added /\ (\A i \in Item : ~Present(i)) /\ tick'.pc = "idle"
          /\ queueFile[tick.item].status = "none" /\ tick.item \notin attention
      BY Numbers DEF Inv, TypeOK, Tick, TickInv, OneRow, CommitDependent, TickEnds
    <2>2. CASE attention' = attention \cup {tick.item} /\ queue' = queue /\ started' = started
      BY <2>1, <2>2 DEF Inv, RowInv, CommitDependent, Present, Claimable, Saved, Exists, Withdrawing
    <2>3. CASE queue' = Release(tick.item) /\ started' = started \ {tick.item} /\ attention' = attention
      <3>1. UNCHANGED <<queueFile, runs, runFile, disp, added>>
        BY DEF CommitDependent
      <3>2. CASE n = tick.item
        <4>1. queue'[n] = QueuedRow
          BY <2>1, <2>3, <3>2, RowWrites DEF Inv
        <4> QED
          BY <2>1, <2>3, <3>1, <3>2, <4>1, Shapes DEF Inv, RowInv, Present, Claimable, Saved, Exists,
             Withdrawing
      <3>3. CASE n # tick.item
        <4>1. queue'[n] = queue[n]
          BY <2>1, <2>3, <3>3, RowWrites DEF Inv
        <4> QED
          BY <2>1, <2>3, <3>1, <3>3, <4>1 DEF Inv, RowInv, Present, Claimable, Saved, Exists, Withdrawing
      <3> QED
        BY <3>2, <3>3
    <2> QED
      BY <2>2, <2>3 DEF CommitDependent, ComesBack
  <1>6. RunsInv' /\ (\A x \in Replay : ReplayInv(x)')
    BY DEF Inv, RunsInv, ReplayInv, Exists, Saved, IsLive, CommitDependent
  <1> QED
    BY <1>1, <1>2, <1>3, <1>4, <1>5, <1>6 DEF Inv

\* A restart reads back one row and one live run, as the files have them.
LEMMA RestartKeeps ==
  ASSUME QueueAssumption, Inv, Restart
  PROVE  Inv'
  <1>1. TypeOK'
    <2>1. \A i \in Item : /\ Loaded(queueFile[i]) \in Row
                          /\ Loaded(queueFile[i]).status # "dispatching"
                          /\ Loaded(queueFile[i]).holder = "none" /\ Loaded(queueFile[i]).run = 0
      BY Shapes DEF Inv, TypeOK, RowInv, Loaded, Row
    <2>2. /\ queue' \in [Item -> Row]
          /\ \A j \in Item : queue'[j].status # "dispatching" =>
               queue'[j].holder = "none" /\ queue'[j].run = 0
      BY <2>1 DEF Restart
    <2>3. tick' \in Tick /\ rep' \in [Replay -> Attempt] /\ disp' \in Cycle
      BY Shapes, Moves DEF Inv, Restart, TickEnds, Tick
    <2> QED
      BY <2>2, <2>3 DEF Inv, TypeOK, Restart, work
  <1>2. RunsInv'
    BY DEF Inv, RunsInv, Restart, Exists, Saved, IsLive, Loaded, TickEnds, work, LiveOwner
  <1>3. OneRow'
    BY Numbers, Shapes DEF Inv, OneRow, Restart, Saved, Present, Loaded, TickEnds, work, LiveOwner
  <1>4. CycleInv'
    BY Numbers, Shapes DEF Inv, CycleInv, Restart, Exists, Saved, Going, Loaded, TickEnds, work,
       LiveOwner
  <1>5. TickInv'
    BY DEF Inv, TickInv, Restart, Saved, Loaded, TickEnds, work, LiveOwner
  <1>6. ASSUME NEW n \in Item PROVE RowInv(n)'
    BY Numbers, Shapes DEF Inv, RowInv, Restart, Exists, Saved, Present, Going, Withdrawing, Claimable,
       Loaded, TickEnds, work, LiveOwner
  <1>7. ASSUME NEW x \in Replay PROVE ReplayInv(x)'
    BY Numbers, Shapes DEF Inv, ReplayInv, Restart, Saved, Loaded, TickEnds, work, LiveOwner
  <1> QED
    BY <1>1, <1>2, <1>3, <1>4, <1>5, <1>6, <1>7 DEF Inv

\* The cycle claims a row that names no live run of its own.
LEMMA ClaimRowKeeps ==
  ASSUME QueueAssumption, Inv, NEW i \in Item, ClaimRow(i)
  PROVE  Inv'
  <1>1. TypeOK'
    <2>1. disp' \in Cycle
      BY DEF Cycle, NoCycle, ClaimRow
    <2>2. /\ queue' \in [Item -> Row]
          /\ \A j \in Item : queue'[j].status # "dispatching" =>
               queue'[j].holder = "none" /\ queue'[j].run = 0
      BY RowWrites DEF Inv, TypeOK, ClaimRow, Holder
    <2> QED
      BY <2>1, <2>2 DEF Inv, TypeOK, ClaimRow, work
  <1>2. OneRow'
    BY DEF Inv, OneRow, ClaimRow, Present, Claim, work, With
  <1>3. CycleInv'
    BY Numbers, Shapes DEF Inv, TypeOK, OneRow, CycleInv, TickInv, RowInv, ClaimRow, Row, Tick, Exists,
       Saved, Present, Going, Withdrawing, Claimable, Claim, work, With
  <1>4. ASSUME NEW n \in Item PROVE RowInv(n)'
    BY DEF Inv, RowInv, ClaimRow, Exists, Saved, Present, Going, Withdrawing, Claimable, Claim, work,
       With
  <1>5. RunsInv' /\ TickInv' /\ (\A x \in Replay : ReplayInv(x)')
    BY DEF Inv, RunsInv, TickInv, ReplayInv, Exists, Saved, IsLive, ClaimRow, work
  <1> QED
    BY <1>1, <1>2, <1>3, <1>4, <1>5 DEF Inv

\* A stale row is taken out only while the tick is not busy with one.
LEMMA PurgeKeeps ==
  ASSUME QueueAssumption, Inv, NEW i \in Item, Purge(i)
  PROVE  Inv'
  <1>1. TypeOK'
    BY Numbers, Shapes DEF Inv, TypeOK, Purge, Row, RunRecord, Cycle, Attempt, Tick, Exists, Present,
       Open, Remove, work, Holder, With
  <1>2. OneRow'
    BY DEF Inv, OneRow, Purge, Exists, Present, Open, Remove, work, With
  <1>3. CycleInv'
    BY Numbers, Shapes DEF Inv, CycleInv, Purge, Exists, Saved, Present, Going, Open, Remove, work,
       With
  <1>4. ASSUME NEW n \in Item PROVE RowInv(n)'
    BY Numbers, Shapes DEF Inv, RowInv, Purge, Exists, Saved, Present, Going, Withdrawing, Claimable,
       Open, Remove, work, With
  <1>5. RunsInv' /\ TickInv' /\ (\A x \in Replay : ReplayInv(x)')
    BY DEF Inv, RunsInv, TickInv, ReplayInv, Exists, Saved, IsLive, Purge, work
  <1> QED
    BY <1>1, <1>2, <1>3, <1>4, <1>5 DEF Inv

\* The tick takes out a queued row and remembers it.
LEMMA WithdrawKeeps ==
  ASSUME QueueAssumption, Inv, NEW i \in Item, Withdraw(i)
  PROVE  Inv'
  <1>1. TypeOK'
    BY Numbers, Shapes DEF Inv, TypeOK, Withdraw, Row, RunRecord, Cycle, Attempt, Tick, Claimable,
       HandedTo, Remove, work, Holder, With
  <1>2. OneRow'
    BY Numbers, Shapes DEF Inv, TypeOK, OneRow, Withdraw, Present, Claimable, HandedTo, Remove, work,
       With
  <1>3. CycleInv'
    BY Numbers, Shapes DEF Inv, CycleInv, Withdraw, Exists, Saved, Going, Claimable, HandedTo, Remove,
       work, With
  <1>4. TickInv'
    BY Numbers, Shapes DEF Inv, OneRow, TickInv, RowInv, Withdraw, Row, Tick, Present, Withdrawing,
       Claimable, HandedTo, Remove, work, With
  <1>5. ASSUME NEW n \in Item PROVE RowInv(n)'
    BY Numbers, Shapes DEF Inv, RowInv, Withdraw, Exists, Saved, Present, Going, Withdrawing,
       Claimable, HandedTo, Remove, work, With
  <1>6. RunsInv' /\ (\A x \in Replay : ReplayInv(x)')
    BY DEF Inv, RunsInv, ReplayInv, Exists, Saved, IsLive, Withdraw, work
  <1> QED
    BY <1>1, <1>2, <1>3, <1>4, <1>5, <1>6 DEF Inv

\* A run comes into being for the claimed row only, when no other one lives.
LEMMA CreateKeeps ==
  ASSUME QueueAssumption, Inv, NEW r \in Run, Create(r)
  PROVE  Inv'
  <1>1. TypeOK'
    <2>1. disp.item \in Item
      BY Numbers DEF Inv, TypeOK, Cycle, CycleInv, Create
    <2>2. disp' \in Cycle
      BY DEF Inv, TypeOK, Cycle, Create
    <2>3. [status |-> "live", of |-> disp.item] \in RunRecord
      BY <2>1 DEF RunRecord
    <2>4. runs' \in [Run -> RunRecord]
      BY <2>3 DEF Inv, TypeOK, Create
    <2>5. /\ [queue[disp.item] EXCEPT !.run = r] \in Row
          /\ [queue[disp.item] EXCEPT !.run = r].status = "dispatching"
      BY ZenonT(30), <2>1 DEF Inv, TypeOK, Row, Create, Holds
    <2>6. /\ queue' \in [Item -> Row]
          /\ \A i \in Item : queue'[i].status # "dispatching" =>
               queue'[i].holder = "none" /\ queue'[i].run = 0
      BY <2>1, <2>5 DEF Inv, TypeOK, Create, With
    <2> QED
      BY <2>2, <2>4, <2>6 DEF Inv, TypeOK, Create, work
  <1>2. RunsInv'
    BY Numbers, Shapes DEF Inv, RunsInv, Create, Exists, Saved, IsLive, Holds, AnyLive, With, work
  <1>3. OneRow'
    BY DEF Inv, OneRow, Create, Exists, IsLive, Present, Holds, AnyLive, With, work
  <1>4. CycleInv'
    BY Numbers, Shapes DEF Inv, TypeOK, CycleInv, Create, Exists, Saved, IsLive, Going, Holds, AnyLive,
       With, work
  <1>5. ASSUME NEW n \in Item PROVE RowInv(n)'
    BY DEF Inv, TypeOK, OneRow, CycleInv, TickInv, RowInv, Create, Row, Cycle, Tick, Exists, Saved,
       IsLive, Present, Going, Withdrawing, Claimable, Holds, AnyLive, With, work
  <1>6. TickInv' /\ (\A x \in Replay : ReplayInv(x)')
    BY DEF Inv, TickInv, ReplayInv, Saved, Create, work
  <1> QED
    BY <1>1, <1>2, <1>3, <1>4, <1>5, <1>6 DEF Inv

\* A cancelled run no longer lives; its file follows.
LEMMA CancelRunKeeps ==
  ASSUME QueueAssumption, Inv, NEW r \in Run, CancelRun(r)
  PROVE  Inv'
  <1>1. TypeOK'
    BY DEF Inv, TypeOK, CancelRun, Row, RunRecord, Cycle, Attempt, Tick, IsLive, work, Holder
  <1>2. RunsInv'
    BY DEF Inv, RunsInv, CancelRun, Exists, Saved, IsLive, work
  <1>3. CycleInv'
    BY DEF Inv, CycleInv, CancelRun, Exists, Saved, IsLive, Going, work
  <1>4. ASSUME NEW n \in Item PROVE RowInv(n)'
    BY DEF Inv, RowInv, CancelRun, Exists, Saved, IsLive, Present, Going, Withdrawing, Claimable, work
  <1>5. OneRow' /\ TickInv' /\ (\A x \in Replay : ReplayInv(x)')
    BY DEF Inv, OneRow, TickInv, ReplayInv, Present, Saved, CancelRun, work
  <1> QED
    BY <1>1, <1>2, <1>3, <1>4, <1>5 DEF Inv

\* A finished run no longer lives; its file follows.
LEMMA FinishRunKeeps ==
  ASSUME QueueAssumption, Inv, NEW r \in Run, FinishRun(r)
  PROVE  Inv'
  <1>1. TypeOK'
    BY Numbers, Shapes DEF Inv, TypeOK, FinishRun, Row, RunRecord, Cycle, Attempt, Tick, IsLive,
       Driven, work, Holder
  <1>2. RunsInv'
    BY DEF Inv, RunsInv, FinishRun, Exists, Saved, IsLive, Driven, work
  <1>3. CycleInv'
    BY DEF Inv, CycleInv, FinishRun, Exists, Saved, IsLive, Going, Driven, work
  <1>4. ASSUME NEW n \in Item PROVE RowInv(n)'
    BY DEF Inv, RowInv, FinishRun, Exists, Saved, IsLive, Present, Going, Withdrawing, Claimable,
       Driven, work
  <1>5. OneRow' /\ TickInv' /\ (\A x \in Replay : ReplayInv(x)')
    BY DEF Inv, OneRow, TickInv, ReplayInv, Present, Saved, FinishRun, work
  <1> QED
    BY <1>1, <1>2, <1>3, <1>4, <1>5 DEF Inv

\* A replay locks the node's row before it waits, and takes a run that is on disk.
LEMMA BeginReplayKeeps ==
  ASSUME QueueAssumption, Inv, NEW p \in Replay, NEW r \in Run, BeginReplay(p, r)
  PROVE  Inv'
  <1>1. TypeOK'
    <2>1. p \in Holder /\ p # "none"
      BY QueueAssumption DEF QueueAssumption, Holder
    <2>2. CASE UNCHANGED queue /\ rep' = [rep EXCEPT ![p] = [pc |-> "preparing", run |-> r, lock |-> 0]]
      <3>1. rep' \in [Replay -> Attempt]
        BY <2>2 DEF Inv, TypeOK, Attempt
      <3> QED
        BY <2>2, <3>1 DEF Inv, TypeOK, BeginReplay, work
    <2>3. ASSUME NEW i \in Item, Claimable(i), queue' = Claim(i, p),
                 rep' = [rep EXCEPT ![p] = [pc |-> "locking", run |-> r, lock |-> i]]
          PROVE  TypeOK'
      <3>1. rep' \in [Replay -> Attempt]
        BY <2>3 DEF Inv, TypeOK, Attempt
      <3>2. /\ queue' \in [Item -> Row]
            /\ \A j \in Item : queue'[j].status # "dispatching" =>
                 queue'[j].holder = "none" /\ queue'[j].run = 0
        BY <2>1, <2>3, RowWrites, ClaimsKeepRows DEF Inv
      <3> QED
        BY <3>1, <3>2 DEF Inv, TypeOK, BeginReplay, work
    <2> QED
      BY <2>2, <2>3 DEF BeginReplay
  <1>2. OneRow'
    <2>1. p \in Holder /\ p # "none"
      BY QueueAssumption DEF QueueAssumption, Holder
    <2>2. \A i \in Item : Present(i)' => Present(i)
      BY <2>1, ClaimsKeepRows DEF Inv, BeginReplay, Claimable, Present
    <2> QED
      BY <2>2 DEF Inv, OneRow, BeginReplay
  <1>3. CycleInv'
    <2>1. p \in Holder /\ p # "none"
      BY QueueAssumption DEF QueueAssumption, Holder
    <2>2. \A i \in Item : queue'[i].run = queue[i].run
      BY <2>1, ClaimsKeepRows DEF Inv, BeginReplay
    <2>3. disp.pc # "idle" => disp.item \in Item
      BY Numbers DEF Inv, TypeOK, Cycle, CycleInv
    <2> QED
      BY <2>2, <2>3 DEF Inv, CycleInv, BeginReplay, work, Going, Exists, Saved
  <1>4. ASSUME NEW n \in Item PROVE RowInv(n)'
    <2>1. p \in Holder /\ p # "none"
      BY QueueAssumption DEF QueueAssumption, Holder
    <2>2. queue'[n].run = queue[n].run /\ (Present(n)' <=> Present(n)) /\ (Claimable(n)' => Claimable(n))
      BY <2>1, ClaimsKeepRows DEF Inv, BeginReplay, Present, Claimable
    <2> QED
      BY <2>2 DEF Inv, RowInv, BeginReplay, work, Exists, Saved, Withdrawing
  <1>5. ASSUME NEW x \in Replay PROVE ReplayInv(x)'
    <2>1. Saved(r)
      BY DEF Inv, RunsInv, BeginReplay
    <2>2. rep' = [rep EXCEPT ![p] = rep'[p]] /\ rep'[p].run = r
      BY DEF Inv, TypeOK, BeginReplay
    <2> QED
      BY <2>1, <2>2, Numbers DEF Inv, TypeOK, ReplayInv, BeginReplay, Saved
  <1>6. RunsInv' /\ TickInv'
    BY DEF Inv, RunsInv, TickInv, Exists, Saved, IsLive, BeginReplay, work
  <1> QED
    BY <1>1, <1>2, <1>3, <1>4, <1>5, <1>6 DEF Inv

\* A locked row goes on naming the run it named.
LEMMA LockedKeeps ==
  ASSUME QueueAssumption, Inv, NEW p \in Replay, Locked(p)
  PROVE  Inv'
  <1>1. TypeOK'
    <2>1. rep' \in [Replay -> Attempt]
      BY Moves DEF Inv, Locked
    <2>2. queueFile' \in [Item -> Row]
      BY FileOfQueue DEF Inv, Locked
    <2> QED
      BY <2>1, <2>2 DEF Inv, TypeOK, Locked, work
  <1>2. OneRow'
    BY DEF Inv, TypeOK, OneRow, Locked, Row, RunRecord, Cycle, Attempt, Tick, Present, QueueWritten,
       work
  <1>3. CycleInv'
    BY DEF Inv, TypeOK, CycleInv, Locked, Row, RunRecord, Cycle, Attempt, Tick, Exists, Saved, Going,
       QueueWritten, work
  <1>4. TickInv'
    BY DEF Inv, TypeOK, OneRow, CycleInv, TickInv, Locked, Row, Cycle, Tick, Present, Going,
       QueueWritten, work
  <1>5. ASSUME NEW n \in Item PROVE RowInv(n)'
    BY DEF Inv, TypeOK, RowInv, Locked, Row, RunRecord, Cycle, Attempt, Tick, Exists, Saved, Present,
       Going, Withdrawing, Claimable, QueueWritten, work
  <1>6. ASSUME NEW x \in Replay PROVE ReplayInv(x)'
    BY DEF Inv, ReplayInv, Locked, Saved, QueueWritten, work
  <1>7. RunsInv'
    BY DEF Inv, RunsInv, Exists, Saved, IsLive, Locked, work
  <1> QED
    BY <1>1, <1>2, <1>3, <1>4, <1>5, <1>6, <1>7 DEF Inv

\* A replay that fails gives back its lock only, and takes back only its own revival.
LEMMA ReplayFailsKeeps ==
  ASSUME QueueAssumption, Inv, NEW p \in Replay, ReplayFails(p)
  PROVE  Inv'
  <1>1. TypeOK'
    <2>1. rep' \in [Replay -> Attempt]
      BY Shapes DEF Inv, TypeOK, ReplayFails, EndReplay
    <2>2. CASE rep[p].lock # 0 /\ Holds(rep[p].lock, p)
      <3>1. rep[p].lock \in Item
        BY <2>2 DEF Inv, TypeOK, Attempt
      <3>2. /\ queue' \in [Item -> Row]
            /\ \A j \in Item : queue'[j].status # "dispatching" =>
                 queue'[j].holder = "none" /\ queue'[j].run = 0
        BY <2>2, <3>1, RowWrites, Shapes DEF Inv, TypeOK, ReplayFails, EndReplay, ComesBack
      <3>3. started' \subseteq Item
        BY <2>2 DEF Inv, TypeOK, ReplayFails, EndReplay, ComesBack
      <3> QED
        BY <2>1, <3>2, <3>3 DEF Inv, TypeOK, ReplayFails
    <2>3. CASE ~(rep[p].lock # 0 /\ Holds(rep[p].lock, p))
      BY <2>1, <2>3 DEF Inv, TypeOK, ReplayFails, EndReplay
    <2> QED
      BY <2>2, <2>3
  <1>2. OneRow'
    <2>1. CASE rep[p].lock # 0 /\ Holds(rep[p].lock, p)
      <3>1. rep[p].lock \in Item /\ Present(rep[p].lock)
        BY <2>1 DEF Inv, TypeOK, Attempt, Holds, Present
      <3>2. queue' = Release(rep[p].lock)
        BY <2>1 DEF ReplayFails, EndReplay, ComesBack
      <3>3. \A i \in Item : Present(i)' => Present(i)
        BY <3>1, <3>2, ReleasesAddNoRow DEF Inv, Present
      <3> QED
        BY <3>3 DEF Inv, OneRow, ReplayFails
    <2>2. CASE ~(rep[p].lock # 0 /\ Holds(rep[p].lock, p))
      BY <2>2 DEF Inv, OneRow, ReplayFails, EndReplay, Present
    <2> QED
      BY <2>1, <2>2
  <1>3. CycleInv'
    <2>1. CASE rep[p].lock # 0 /\ Holds(rep[p].lock, p)
      <3>1. rep[p].lock \in Item
        BY <2>1 DEF Inv, TypeOK, Attempt
      <3>2. queue' = Release(rep[p].lock) /\ started' \subseteq started
        BY <2>1 DEF ReplayFails, EndReplay, ComesBack
      <3>3. \A i \in Item : queue'[i] \in {queue[i], QueuedRow}
        BY <3>1, <3>2, RowWrites DEF Inv
      <3>4. disp.pc # "idle" => disp.item \in Item
        BY Numbers DEF Inv, TypeOK, Cycle, CycleInv
      <3> QED
        BY <3>2, <3>3, <3>4, Shapes DEF Inv, CycleInv, ReplayFails, Going, Exists, Saved
    <2>2. CASE ~(rep[p].lock # 0 /\ Holds(rep[p].lock, p))
      BY <2>2 DEF Inv, CycleInv, ReplayFails, EndReplay, Going, Exists, Saved
    <2> QED
      BY <2>1, <2>2
  <1>4. ASSUME NEW n \in Item PROVE RowInv(n)'
    <2>1. CASE rep[p].lock # 0 /\ Holds(rep[p].lock, p)
      <3>1. rep[p].lock \in Item
        BY <2>1 DEF Inv, TypeOK, Attempt
      <3>2. queue' = Release(rep[p].lock) /\ started' = started \ {rep[p].lock}
        BY <2>1 DEF ReplayFails, EndReplay, ComesBack
      <3>3. CASE n = rep[p].lock
        <4>1. queue'[n] = QueuedRow /\ n \notin started' /\ Present(n)
          BY <2>1, <3>1, <3>2, <3>3, RowWrites DEF Inv, Holds, Present
        <4> QED
          BY <4>1, Shapes DEF Inv, RowInv, ReplayFails, Present, Exists, Saved, Withdrawing
      <3>4. CASE n # rep[p].lock
        <4>1. queue'[n] = queue[n] /\ (n \in started' <=> n \in started)
          BY <3>1, <3>2, <3>4, RowWrites DEF Inv
        <4> QED
          BY <4>1 DEF Inv, RowInv, ReplayFails, Present, Claimable, Exists, Saved, Withdrawing
      <3> QED
        BY <3>3, <3>4
    <2>2. CASE ~(rep[p].lock # 0 /\ Holds(rep[p].lock, p))
      BY <2>2 DEF Inv, RowInv, ReplayFails, EndReplay, Present, Claimable, Exists, Saved, Withdrawing
    <2> QED
      BY <2>1, <2>2
  <1>5. ASSUME NEW x \in Replay PROVE ReplayInv(x)'
    <2>1. runFile' = runFile /\ rep' = [rep EXCEPT ![p] = NoReplay]
      BY DEF ReplayFails, EndReplay
    <2>2. rep'[x] = rep[x] \/ rep'[x] = NoReplay
      BY <2>1 DEF Inv, TypeOK
    <2> QED
      BY <2>1, <2>2, Shapes DEF Inv, ReplayInv, Saved
  <1>6. RunsInv' /\ TickInv'
    BY DEF Inv, RunsInv, TickInv, Exists, Saved, IsLive, ReplayFails
  <1> QED
    BY <1>1, <1>2, <1>3, <1>4, <1>5, <1>6 DEF Inv

\* A replay makes its run live only when no other one lives.
LEMMA ReviveKeeps ==
  ASSUME QueueAssumption, Inv, NEW p \in Replay, Revive(p)
  PROVE  Inv'
  <1>1. TypeOK'
    <2>1. rep' \in [Replay -> Attempt]
      BY Moves DEF Inv, Revive
    <2>2. rep[p].run \in Run
      BY DEF Inv, TypeOK, Attempt, ReplayInv, Revive
    <2>3. runs' \in [Run -> RunRecord] /\ unsaved' \subseteq Run
      BY <2>2, Moves DEF Inv, TypeOK, Revive, Resurrect
    <2> QED
      BY <2>1, <2>3 DEF Inv, TypeOK, Revive, work
  <1>2. RunsInv'
    BY DEF Inv, RunsInv, Revive, Exists, Saved, IsLive, Available, Holds, Resurrect, work
  <1>3. CycleInv'
    BY DEF Inv, CycleInv, Revive, Exists, Saved, IsLive, Going, Available, Holds, Resurrect, work
  <1>4. ASSUME NEW n \in Item PROVE RowInv(n)'
    BY DEF Inv, RowInv, Revive, Exists, Saved, IsLive, Present, Going, Withdrawing, Claimable,
       Available, Holds, Resurrect, work
  <1>5. ASSUME NEW x \in Replay PROVE ReplayInv(x)'
    BY DEF Inv, ReplayInv, Revive, Saved, IsLive, Available, Holds, Resurrect, work
  <1>6. OneRow' /\ TickInv'
    BY DEF Inv, OneRow, TickInv, Present, Revive, work
  <1> QED
    BY <1>1, <1>2, <1>3, <1>4, <1>5, <1>6 DEF Inv

\* A revived run is written before its replay goes on.
LEMMA RevivedKeeps ==
  ASSUME QueueAssumption, Inv, NEW p \in Replay, Revived(p)
  PROVE  Inv'
  <1>1. TypeOK'
    <2>1. rep' \in [Replay -> Attempt]
      BY Moves DEF Inv, Revived
    <2>2. runFile' \in [Run -> RunRecord] /\ unsaved' \subseteq Run
      BY DEF Inv, TypeOK, Revived, RunWritten, RunsWritten
    <2> QED
      BY <2>1, <2>2 DEF Inv, TypeOK, Revived, work
  <1>2. RunsInv'
    BY DEF Inv, RunsInv, Revived, Exists, Saved, IsLive, RunWritten, work, RunsWritten
  <1>3. CycleInv'
    BY DEF Inv, TypeOK, CycleInv, Revived, Row, RunRecord, Cycle, Attempt, Tick, Exists, Saved, Going,
       RunWritten, work, RunsWritten
  <1>4. ASSUME NEW n \in Item PROVE RowInv(n)'
    BY Numbers, Shapes DEF Inv, TypeOK, RunsInv, OneRow, CycleInv, TickInv, RowInv, ReplayInv, Revived,
       Row, RunRecord, Cycle, Attempt, Tick, Exists, Saved, IsLive, Present, Going, Withdrawing,
       Claimable, RunWritten, work, Holder, RunsWritten
  <1>5. ASSUME NEW x \in Replay PROVE ReplayInv(x)'
    BY Numbers, Shapes DEF Inv, TypeOK, RunsInv, OneRow, CycleInv, TickInv, RowInv, ReplayInv, Revived,
       Row, RunRecord, Cycle, Attempt, Tick, Exists, Saved, IsLive, Present, Going, Withdrawing,
       Claimable, RunWritten, work, Holder, RunsWritten
  <1>6. OneRow' /\ TickInv'
    BY DEF Inv, OneRow, TickInv, Present, Revived, work
  <1> QED
    BY <1>1, <1>2, <1>3, <1>4, <1>5, <1>6 DEF Inv

\* The replaced row goes, and no other.
LEMMA DropLockKeeps ==
  ASSUME QueueAssumption, Inv, NEW p \in Replay, DropLock(p)
  PROVE  Inv'
  <1>1. TypeOK'
    BY Numbers, Shapes DEF Inv, TypeOK, DropLock, Row, RunRecord, Cycle, Attempt, Tick, Remove, work,
       Holder, With
  <1>2. OneRow'
    BY Numbers, Shapes DEF Inv, OneRow, DropLock, Present, Remove, work, With
  <1>3. CycleInv'
    BY Numbers, Shapes DEF Inv, CycleInv, DropLock, Exists, Saved, Going, Remove, work, With
  <1>4. ASSUME NEW n \in Item PROVE RowInv(n)'
    BY Numbers, Shapes DEF Inv, RowInv, DropLock, Exists, Saved, Present, Going, Withdrawing,
       Claimable, Remove, work, With
  <1>5. ASSUME NEW x \in Replay PROVE ReplayInv(x)'
    BY Numbers, Shapes DEF Inv, ReplayInv, DropLock, Saved, Remove, work, With
  <1>6. RunsInv' /\ TickInv'
    BY DEF Inv, RunsInv, TickInv, Exists, Saved, IsLive, DropLock, work
  <1> QED
    BY <1>1, <1>2, <1>3, <1>4, <1>5, <1>6 DEF Inv

\* The invariant holds before the first row.
LEMMA InitInv ==
  ASSUME QueueAssumption, Init
  PROVE  Inv
  <1>1. TypeOK
    BY QueueAssumption, Shapes DEF QueueAssumption, Init, TypeOK, Tick
  <1>2. RunsInv /\ OneRow /\ CycleInv /\ TickInv
    BY Shapes DEF Init, RunsInv, OneRow, CycleInv, TickInv, Exists, IsLive, Saved, Present, Going
  <1>3. ASSUME NEW i \in Item PROVE RowInv(i)
    BY Shapes DEF Init, RowInv, Present, Claimable
  <1>4. ASSUME NEW p \in Replay PROVE ReplayInv(p)
    BY Shapes DEF Init, ReplayInv
  <1> QED
    BY <1>1, <1>2, <1>3, <1>4 DEF Inv

\* A step that changes nothing keeps the invariant.
LEMMA StutterKeeps ==
  ASSUME Inv, UNCHANGED vars
  PROVE  Inv'
  <1>1. TypeOK' /\ RunsInv' /\ OneRow' /\ CycleInv' /\ TickInv'
    BY DEF Inv, TypeOK, RunsInv, OneRow, CycleInv, TickInv, vars, work, Exists, IsLive, Saved, Present, Going
  <1>2. ASSUME NEW i \in Item PROVE RowInv(i)'
    BY DEF Inv, RowInv, vars, work, Exists, Saved, Present, Claimable, Withdrawing, Going
  <1>3. ASSUME NEW p \in Replay PROVE ReplayInv(p)'
    BY DEF Inv, ReplayInv, vars, Saved
  <1> QED
    BY <1>1, <1>2, <1>3 DEF Inv

\* Every step keeps the invariant.
LEMMA NextKeeps ==
  ASSUME QueueAssumption, Inv, [Next]_vars
  PROVE  Inv'
  <1>1. ASSUME SaveQueue \/ SaveRuns \/ Reclaim \/ Restart
       PROVE Inv'
    BY <1>1, QueueAssumption, SaveQueueKeeps, SaveRunsKeeps, ReclaimKeeps, RestartKeeps
  <1>2. ASSUME NotCreated \/ Stamp \/ Record \/ Start \/ Link \/ Drop \/ CreateFailed \/ Discarded
       PROVE Inv'
    BY <1>2, QueueAssumption, NotCreatedKeeps, StampKeeps, RecordKeeps, StartKeeps, LinkKeeps,
       DropKeeps, CreateFailedKeeps, DiscardedKeeps
  <1>3. ASSUME NEW i \in Item, ClaimRow(i) \/ Purge(i) \/ Withdraw(i)
       PROVE Inv'
    BY <1>3, QueueAssumption, ClaimRowKeeps, PurgeKeeps, WithdrawKeeps
  <1>4. ASSUME NEW r \in Run, Create(r) \/ CancelRun(r) \/ FinishRun(r)
       PROVE Inv'
    BY <1>4, QueueAssumption, CreateKeeps, CancelRunKeeps, FinishRunKeeps
  <1>5. ASSUME Reopen \/ Unlock \/ Enqueue \/ NotEnqueued \/ Enqueued \/ Withdrawn \/ CommitDependent
       PROVE Inv'
    BY <1>5, QueueAssumption, ReopenKeeps, UnlockKeeps, EnqueueKeeps, NotEnqueuedKeeps,
       EnqueuedKeeps, WithdrawnKeeps, CommitDependentKeeps
  <1>6. ASSUME NEW p \in Replay, NEW r \in Run, BeginReplay(p, r)
       PROVE Inv'
    BY <1>6, QueueAssumption, BeginReplayKeeps
  <1>7. ASSUME NEW p \in Replay, Locked(p) \/ ReplayFails(p) \/ Revive(p) \/ Revived(p) \/ DropLock(p)
       PROVE Inv'
    BY <1>7, QueueAssumption, LockedKeeps, ReplayFailsKeeps, ReviveKeeps, RevivedKeeps,
       DropLockKeeps
  <1> QED
    BY <1>1, <1>2, <1>3, <1>4, <1>5, <1>6, <1>7, StutterKeeps DEF Next

-----------------------------------------------------------------------------
(* What a step may do *)

\* Runs come into being by a cycle that holds its row; a restart and a replay only bring back what
\* had a file.
LEMMA OnlyTheCycleCreates ==
  ASSUME QueueAssumption, Inv, [Next]_vars, NEW r \in Run, Creates(r)
  PROVE  /\ disp.pc = "creating" /\ disp.item \in Item /\ Holds(disp.item, "dispatcher")
         /\ runs'[r].of = disp.item
  <1>1. runs' # runs
    BY DEF Creates, Exists
  <1>2. ASSUME NEW s \in Run, Create(s)
        PROVE  /\ disp.pc = "creating" /\ disp.item \in Item /\ Holds(disp.item, "dispatcher")
               /\ runs'[r].of = disp.item
    <2>1. disp.item \in Item
      BY <1>2, Numbers DEF Inv, TypeOK, Cycle, CycleInv, Create
    <2>2. r = s
      BY <1>2 DEF Inv, TypeOK, Create, Creates, Exists
    <2> QED
      BY <1>2, <2>1, <2>2 DEF Inv, TypeOK, Create
  <1>3. ASSUME NEW s \in Run, CancelRun(s) \/ FinishRun(s) PROVE FALSE
    BY <1>3 DEF Inv, TypeOK, CancelRun, FinishRun, IsLive, Creates, Exists
  <1>4. ASSUME CreateFailed PROVE FALSE
    <2>1. Stamped \in Run
      BY <1>1, <1>4, Numbers DEF Inv, TypeOK, Row, Cycle, CycleInv, Going, CreateFailed, Stamped
    <2>2. runs' = [runs EXCEPT ![Stamped] = NoRun]
      BY <1>1, <1>4 DEF CreateFailed
    <2> QED
      BY <2>1, <2>2, Shapes DEF Inv, TypeOK, Creates, Exists
  <1>5. ASSUME NEW p \in Replay, Revive(p) PROVE FALSE
    <2>1. rep[p].run \in Run /\ Exists(rep[p].run)
      BY <1>5, SavedRunsExist DEF Inv, TypeOK, Attempt, ReplayInv, Revive
    <2> QED
      BY <1>5, <2>1 DEF Inv, TypeOK, Revive, Resurrect, Creates, Exists
  <1>6. ASSUME Restart PROVE FALSE
    BY <1>6, SavedRunsExist DEF Inv, Restart, Creates, Saved
  <1> QED
    BY <1>1, <1>2, <1>3, <1>4, <1>5, <1>6
    DEF Next, vars, SaveQueue, SaveRuns, Reclaim, NotCreated, Stamp, Record, Start, Link, Drop, Discarded,
        ClaimRow, Purge, Withdraw, Reopen, Unlock, Enqueue, NotEnqueued, Enqueued, Withdrawn, CommitDependent,
        BeginReplay, Locked, ReplayFails, Revived, DropLock

\* How a row that was still to be dispatched goes.
Accounted(i) ==
  \/ \E r \in Run : Saved(r) /\ (runs[r].of = i \/ runFile[r].status = "live")
  \/ \E p \in Replay : rep[p].pc = "revived" /\ rep[p].lock = i /\ Saved(rep[p].run)
  \/ tick'.pc = "withdrawing" /\ tick'.item = i
  \/ ready
  \/ queueFile[i].status \in {"none", "cancelled"}

\* The run of a row, once it has a file, stands for the row.
LEMMA SavedRunStands ==
  ASSUME QueueAssumption, Inv, NEW i \in Item, queue[i].run # 0, Saved(queue[i].run)
  PROVE  Accounted(i)
  <1>1. queue[i].run \in Run
    BY DEF Inv, TypeOK, Row
  <1> QED
    BY <1>1, SavedRunsExist DEF Inv, RowInv, Accounted

\* A row that could be claimed leaves the queue only in a way that WorkIsKept allows.
LEMMA WorkIsAccounted ==
  ASSUME QueueAssumption, Inv, [Next]_vars, NEW i \in Item, Claimable(i), queue'[i].status = "none"
  PROVE  Accounted(i)
  <1>1. queue' # queue
    BY DEF Claimable
  <1>2. ASSUME NEW j \in Item, queue' = Remove(j) PROVE i = j
    BY <1>2, RowWrites DEF Inv, Claimable
  <1>3. ASSUME NEW j \in Item, queue' = Release(j) PROVE FALSE
    BY <1>3, RowWrites, Shapes DEF Inv, Claimable
  <1>4. ASSUME NEW j \in Item, NEW h \in Holder, queue' = Claim(j, h) PROVE FALSE
    BY <1>4, RowWrites DEF Inv, Claimable
  <1>5. disp.pc # "idle" => disp.item \in Item
    BY Numbers DEF Inv, TypeOK, Cycle, CycleInv
  <1>6. CASE Reclaim
    <2>1. queue[i].run # 0 /\ disp.pc = "idle"
      BY <1>6, Shapes DEF Inv, TypeOK, Reclaim, Claimable
    <2> QED
      BY <2>1, SavedRunStands DEF Inv, RowInv, Going
  <1>7. CASE NotCreated
    BY <1>3, <1>5, <1>7, Shapes DEF Inv, TypeOK, NotCreated, ReleaseIfHeld, With, NoRow, Claimable
  <1>8. CASE Link
    <2>1. i = disp.item /\ disp.run \in Run
      BY <1>2, <1>5, <1>8 DEF Inv, TypeOK, Cycle, CycleInv, Link
    <2> QED
      BY <1>8, <2>1 DEF Inv, CycleInv, Link, Accounted
  <1>9. CASE CreateFailed
    <2>1. queue' = Remove(disp.item) /\ Stamped # 0 /\ Saved(Stamped)
      BY <1>1, <1>3, <1>5, <1>9 DEF CreateFailed, ReleaseIfHeld
    <2>2. i = disp.item /\ Stamped = queue[i].run
      BY <1>2, <1>5, <1>9, <2>1 DEF CreateFailed, Stamped, Claimable, Present
    <2> QED
      BY <2>1, <2>2, SavedRunStands
  <1>10. CASE Discarded
    BY <1>1, <1>3, <1>5, <1>10 DEF Discarded
  <1>11. ASSUME NEW j \in Item, ClaimRow(j) \/ Purge(j) \/ Withdraw(j) PROVE Accounted(i)
    BY <1>2, <1>4, <1>11 DEF ClaimRow, Purge, Withdraw, Accounted, Holder
  <1>12. ASSUME NEW r \in Run, Create(r) PROVE FALSE
    BY <1>5, <1>12 DEF Inv, TypeOK, Row, Create, Holds, With, Claimable
  <1>13. CASE Enqueue
    BY <1>13, Shapes DEF Inv, TypeOK, Enqueue, With, Claimable
  <1>14. CASE Withdrawn \/ CommitDependent
    <2>1. tick.item \in Item
      BY <1>14, Numbers DEF Inv, TypeOK, Tick, TickInv, Withdrawn, CommitDependent
    <2> QED
      BY <1>1, <1>3, <1>14, <2>1 DEF Withdrawn, CommitDependent, ComesBack
  <1>15. ASSUME NEW p \in Replay, NEW r \in Run, BeginReplay(p, r) PROVE FALSE
    BY <1>1, <1>4, <1>15 DEF BeginReplay, Holder
  <1>16. ASSUME NEW p \in Replay, ReplayFails(p) PROVE FALSE
    BY <1>1, <1>3, <1>16 DEF Inv, TypeOK, Attempt, ReplayFails, EndReplay, ComesBack
  <1>17. ASSUME NEW p \in Replay, DropLock(p) PROVE Accounted(i)
    <2>1. i = rep[p].lock
      BY <1>1, <1>2, <1>17 DEF Inv, TypeOK, Attempt, DropLock
    <2> QED
      BY <1>17, <2>1 DEF Inv, ReplayInv, DropLock, Accounted
  <1>18. CASE Restart
    <2>1. Loaded(queueFile[i]).status = "none"
      BY <1>18 DEF Restart
    <2>2. CASE LiveOwner
      BY <2>2 DEF LiveOwner, Accounted, Saved
    <2>3. CASE queueFile[i].run # 0 /\ Saved(queueFile[i].run)
      <3>1. queueFile[i].run \in Run /\ Present(i)
        BY <2>3 DEF Inv, TypeOK, Row, Claimable, Present
      <3> QED
        BY <2>3, <3>1, SavedRunsExist DEF Inv, RowInv, Accounted
    <2>4. CASE queueFile[i].status \in {"none", "cancelled"}
      BY <2>4 DEF Accounted
    <2> QED
      BY <2>1, <2>2, <2>3, <2>4, Shapes DEF Inv, TypeOK, Row, Loaded
  <1> QED
    BY <1>1, <1>6, <1>7, <1>8, <1>9, <1>10, <1>11, <1>12, <1>13, <1>14, <1>15, <1>16, <1>17, <1>18
    DEF Next, vars, SaveQueue, SaveRuns, Stamp, Record, Start, Drop, CancelRun, FinishRun, Reopen, Unlock,
        NotEnqueued, Enqueued, Locked, Revive, Revived

-----------------------------------------------------------------------------
(* Theorems *)

\* The inductive invariant holds in every reachable state, for any number of rows, runs and replays.
THEOREM InvHolds == Spec => []Inv
  <1>1. Init => Inv
    BY QueueAssumption, InitInv
  <1>2. Inv /\ [Next]_vars => Inv'
    BY QueueAssumption, NextKeeps
  <1> QED
    BY <1>1, <1>2, PTL DEF Spec

\* The node never has two live runs: neither a cycle and a replay, nor two replays, nor what a restart
\* reads back, for any number of rows, runs and replays.
THEOREM OneLiveRun == Spec => []SingleOwner
  <1>1. Inv => SingleOwner
    BY DEF Inv, RunsInv, SingleOwner
  <1> QED
    BY <1>1, InvHolds, PTL

\* A row that names its run when the cycle starts it makes no second one, through any restart.
THEOREM StartedMakesNoOther == Spec => NotDispatchedAgain
  <1>1. Inv /\ [Next]_vars => [\A r \in Run : Creates(r) => runs'[r].of \notin started]_vars
    BY QueueAssumption, OnlyTheCycleCreates DEF Inv, CycleInv
  <1> QED
    BY <1>1, InvHolds, PTL DEF Spec, NotDispatchedAgain

\* A row whose withdrawal the backlog has recorded makes no run.
THEOREM WithdrawnMakesNone == Spec => WithdrawnForGood
  <1>1. Inv /\ [Next]_vars => [\A r \in Run : Creates(r) => runs'[r].of \notin attention]_vars
    BY QueueAssumption, OnlyTheCycleCreates DEF Inv, RowInv, Holds, Present
  <1> QED
    BY <1>1, InvHolds, PTL DEF Spec, WithdrawnForGood

\* A queued row goes only when a run with a file stands for it, or the scheduler takes it back.
THEOREM QueuedWorkIsKept == Spec => WorkIsKept
  <1>1. Inv /\ [Next]_vars =>
          [\A i \in Item : Claimable(i) /\ queue'[i].status = "none" =>
             \/ \E r \in Run : Saved(r) /\ (runs[r].of = i \/ runFile[r].status = "live")
             \/ \E p \in Replay : rep[p].pc = "revived" /\ rep[p].lock = i /\ Saved(rep[p].run)
             \/ tick'.pc = "withdrawing" /\ tick'.item = i
             \/ ready
             \/ queueFile[i].status \in {"none", "cancelled"}]_vars
    BY QueueAssumption, WorkIsAccounted DEF Accounted
  <1> QED
    BY <1>1, InvHolds, PTL DEF Spec, WorkIsKept
=============================================================================
