---------------------------- MODULE SlotOwnership ----------------------------
(***************************************************************************)
(* Who may use a slot (services/gateway/src): the row of one slot in the   *)
(* fleet's status file, the find-slot claims of runs, the teardowns that   *)
(* give the slot back (slot.release, a run's own cleanup), the reclaim of  *)
(* a cancelled run's slot, replays, and the reconciler.                    *)
(*                                                                         *)
(* Every write of the row is one step of a serialized chain and tests its  *)
(* predicate there; only a claim's write is split in two, because the code *)
(* deals with what happens while it is renamed into place.                 *)
(***************************************************************************)
EXTENDS Naturals, FiniteSets

CONSTANTS Run, None, MaxReleases, MaxCrashes, MaxReplays

SlotAssumption ==
  /\ None \notin Run /\ IsFiniteSet(Run)
  /\ {MaxReleases, MaxCrashes, MaxReplays} \subseteq Nat

VARIABLES
  row,       \* the slot's row; durable
  status,    \* run -> its status, coarsely; durable
  reclaimed, \* runs whose slotReclaimed is set; durable
  claim,     \* run -> its find-slot claim: stage, epoch it wrote, superseded since?
  rel,       \* the slot.release in flight
  cl,        \* run -> its own slot cleanup
  rp,        \* run -> its replay
  rec,       \* what the reconciler has observed and is about to act on
  stray,     \* the fence of a command that outlives its teardown, or 0
  releases, crashes, replays, \* counters, for the bounds
  given,     \* history: runs whose slot a reclaim has given to a successor
  adrift,    \* history: replayed runs that had lost the slot when they revived
  unheeded   \* history: has a run's own cleanup taken over a slot whose command may still go on?

memory == <<claim, rel, cl, rp, rec>>
counters == <<releases, crashes, replays>>
history == <<given, adrift, unheeded>>
vars == <<row, status, reclaimed, memory, stray, counters, history>>

NoClaim == [at |-> "idle", epoch |-> 0, ended |-> FALSE]
NoRelease == [at |-> "idle", owner |-> None, cleanup |-> None, epoch |-> 0, fence |-> 0, prior |-> "ready", stamp |-> 0]
NoCleanup == [at |-> "idle", keep |-> FALSE, registered |-> FALSE, epoch |-> 0, fence |-> 0]
NoObservation == [at |-> "idle", owner |-> None, fence |-> 0]

Init ==
  /\ row = [mode |-> "ready", owner |-> None, cleanup |-> None, fence |-> 0, old |-> FALSE,
            unsure |-> FALSE, epoch |-> 0]
  /\ status = [r \in Run |-> "new"] /\ reclaimed = {}
  /\ claim = [r \in Run |-> NoClaim] /\ rel = NoRelease
  /\ cl = [r \in Run |-> NoCleanup] /\ rp = [r \in Run |-> "idle"]
  /\ rec = NoObservation /\ stray = 0
  /\ releases = 0 /\ crashes = 0 /\ replays = 0
  /\ given = {} /\ adrift = {} /\ unheeded = FALSE

-----------------------------------------------------------------------------
(* The row and what is read of it *)

Dead(r) == r \in Run /\ status[r] \in {"failed", "refused", "cancelled", "closed"}

\* A completion whose prerequisite was refused fails its run and keeps its workers and its slot for
\* a replay; a run with a closed output keeps the slot until its cleanup has succeeded.
Refused(r) == r \in Run /\ status[r] = "refused"
Kept(r) == Refused(r) \/ (r \in Run /\ status[r] = "closed")

\* Mutant: a cancelled run still occupies its slot.
BoundMissesCancelled == {r \in Run : status[r] \in {"finding", "working", "cancelled"}}

\* Runs with this slot as their slotId that have not ended: the reconciler leaves such a slot alone.
Bound == {r \in Run : status[r] \in {"finding", "working"}}

\* One write of the status file at a time: a claim's rename holds up the others.
ChainFree == \A r \in Run : claim[r].at # "writing"

Owns(r) == row.owner = r \/ (row.owner = None /\ row.cleanup = r)
Holds(r) == row.owner = r /\ row.mode = "busy"
Releasing == row.mode = "releasing"

\* Epochs count up and fences are time stamps, and only their equality is ever asked for: one that
\* nobody remembers is used again.
Tag == 0..(2 * Cardinality(Run) + 6)
Fresh(used) == CHOOSE n \in Tag : n \notin used
NextEpoch == Fresh({0, row.epoch, rel.epoch} \cup {claim[r].epoch : r \in Run} \cup {cl[r].epoch : r \in Run})
NextFence == Fresh({0, row.fence, rel.fence, rel.stamp, rec.fence, stray} \cup {cl[r].fence : r \in Run})

Reset == [row EXCEPT !.mode = "ready", !.owner = None, !.cleanup = None, !.fence = 0, !.old = FALSE, !.unsure = FALSE]
Fenced == [row EXCEPT !.mode = "releasing", !.fence = NextFence, !.old = FALSE]
Held == [row EXCEPT !.mode = "occupied", !.fence = 0, !.old = FALSE]

\* A newer owner ends cleanup bookkeeping that nobody acts on.
Superseded(r) == row.cleanup \notin {None, r} /\ ~row.unsure /\ row.fence = 0

ClaimedBy(r, epoch) ==
  [row EXCEPT !.mode = "busy", !.owner = r, !.epoch = epoch,
              !.cleanup = IF Superseded(r) THEN None ELSE row.cleanup]

\* The terminal-teardown registry, of this process only.
InFlight == rel.at \notin {"idle", "timedout"} \/ \E r \in Run : cl[r].registered

\* The run's transition lock: cancel, reclaim, a cancelled run's whole replay, and a failed run's
\* replay from its claim on.
Locked(r) ==
  \/ cl[r].at # "idle" /\ ~cl[r].registered
  \/ rp[r] = "claimed" \/ (rp[r] = "planned" /\ status[r] = "cancelled")

-----------------------------------------------------------------------------
(* Claims and the ends of runs *)

\* The selection binds the slot to the run just before it claims it.
Find(r) ==
  /\ status[r] = "new" /\ status' = [status EXCEPT ![r] = "finding"]
  /\ UNCHANGED <<row, reclaimed, memory, stray, counters, history>>

LiveOwner(r) == row.owner \notin {None, r} /\ ~Dead(row.owner)
Claimable(r) == row.mode \notin {"releasing", "occupied"} /\ ~LiveOwner(r)

\* The predicate has passed in the chain; the new file is written and renamed.
Claim(r) ==
  /\ status[r] = "finding" /\ claim[r].at = "idle" /\ ChainFree
  /\ Claimable(r)
  /\ claim' = [claim EXCEPT ![r] = [at |-> "writing", epoch |-> NextEpoch, ended |-> FALSE]]
  /\ UNCHANGED <<row, status, reclaimed, rel, cl, rp, rec, stray, counters, history>>

\* An attempt that a cancel ended while it was being written has to undo its claim.
LandClaim(r) ==
  /\ claim[r].at = "writing"
  /\ row' = ClaimedBy(r, claim[r].epoch)
  /\ IF claim[r].ended
     THEN claim' = [claim EXCEPT ![r].at = "undo"] /\ UNCHANGED status
     ELSE claim' = [claim EXCEPT ![r] = NoClaim] /\ status' = [status EXCEPT ![r] = "working"]
  /\ UNCHANGED <<reclaimed, rel, cl, rp, rec, stray, counters, history>>

\* Mutant: the undo trusts the owner and ignores which claim wrote it.
UndoAnyEpoch(r) ==
  /\ claim[r].at = "undo" /\ ChainFree
  /\ claim' = [claim EXCEPT ![r] = NoClaim]
  /\ row' = IF row.owner = r /\ ~Releasing THEN Reset ELSE row
  /\ UNCHANGED <<status, reclaimed, rel, cl, rp, rec, stray, counters, history>>

UndoClaim(r) ==
  /\ claim[r].at = "undo" /\ ChainFree
  /\ claim' = [claim EXCEPT ![r] = NoClaim]
  /\ row' = IF row.epoch = claim[r].epoch /\ row.owner = r /\ ~Releasing THEN Reset ELSE row
  /\ UNCHANGED <<status, reclaimed, rel, cl, rp, rec, stray, counters, history>>

\* find-slot was refused, or gave up waiting for a release: it owns nothing to clean up.
FailFinding(r) ==
  /\ status[r] = "finding" /\ claim[r].at = "idle"
  /\ status' = [status EXCEPT ![r] = "failed"]
  /\ UNCHANGED <<row, reclaimed, memory, stray, counters, history>>

StartCleanup(r, keep, registered) ==
  cl' = [cl EXCEPT ![r] = [at |-> "stop", keep |-> keep, registered |-> registered, epoch |-> 0, fence |-> 0]]

\* A cancel publishes the status and then cleans up under the run's lock; it keeps the slot for a
\* replay and is not in the registry.
Cancel(r) ==
  /\ r \in Bound /\ cl[r].at = "idle" /\ ~Locked(r)
  /\ status' = [status EXCEPT ![r] = "cancelled"]
  /\ claim' = [claim EXCEPT ![r].ended = TRUE]
  /\ StartCleanup(r, TRUE, FALSE)
  /\ UNCHANGED <<row, reclaimed, rel, rp, rec, stray, counters, history>>

\* A failure is registered as a teardown from the moment its status is published.
Fail(r) ==
  /\ status[r] = "working" /\ cl[r].at = "idle" /\ ~Locked(r)
  /\ status' = [status EXCEPT ![r] = "failed"]
  /\ StartCleanup(r, FALSE, TRUE)
  /\ UNCHANGED <<row, reclaimed, claim, rel, rp, rec, stray, counters, history>>

\* A refused completion starts no cleanup.
RefuseCompletion(r) ==
  /\ status[r] = "working" /\ cl[r].at = "idle" /\ ~Locked(r)
  /\ status' = [status EXCEPT ![r] = "refused"]
  /\ UNCHANGED <<row, reclaimed, memory, stray, counters, history>>

\* An operator closes a run's output, or retries the cleanup of one that still has the slot; behind
\* another's fence a retry does nothing.
CloseOutput(r) ==
  /\ status[r] \in {"working", "failed", "refused", "closed"} /\ cl[r].at = "idle" /\ ~Locked(r)
  /\ status[r] = "closed" => row.owner = r /\ ~Releasing
  /\ status' = [status EXCEPT ![r] = "closed"]
  /\ StartCleanup(r, FALSE, TRUE)
  /\ UNCHANGED <<row, reclaimed, claim, rel, rp, rec, stray, counters, history>>

-----------------------------------------------------------------------------
(* A run's own cleanup *)

\* The cleanup's right to the row: of the same epoch, and behind its own fence if it has one.
Current(r) ==
  /\ Owns(r) /\ row.epoch = cl[r].epoch
  /\ IF cl[r].fence # 0 THEN Releasing /\ row.fence = cl[r].fence ELSE ~Releasing

\* The workers are stopped before the fence; then ownership and the epoch are read again.
\* Whoever does not own the row, or could not stop what runs, only settles.
StopWorkers(r) ==
  /\ cl[r].at = "stop"
  /\ \E stopped \in IF cl[r].keep THEN {TRUE} ELSE BOOLEAN :
       cl' = [cl EXCEPT ![r].at = IF Owns(r) /\ ~Releasing /\ stopped THEN "fence" ELSE "settle",
                        ![r].epoch = row.epoch]
  /\ UNCHANGED <<row, status, reclaimed, claim, rel, rp, rec, stray, counters, history>>

\* Nothing here looks at the mark of a teardown whose command was not confirmed to have stopped.
Overruns(r) == Current(r) /\ row.unsure /\ stray # 0

\* A refused fence ends a failure's cleanup; a cancel goes on without one.
FenceCleanup(r) ==
  /\ cl[r].at = "fence" /\ ChainFree
  /\ IF Current(r)
     THEN row' = Fenced /\ cl' = [cl EXCEPT ![r].at = "check", ![r].fence = NextFence]
     ELSE /\ cl' = [cl EXCEPT ![r].at = IF cl[r].registered THEN "settle" ELSE "check"]
          /\ UNCHANGED row
  /\ unheeded' = (unheeded \/ Overruns(r))
  /\ UNCHANGED <<status, reclaimed, claim, rel, rp, rec, stray, counters, given, adrift>>

\* assertOwned() before every destructive command.
CheckCleanup(r) ==
  /\ cl[r].at = "check"
  /\ cl' = [cl EXCEPT ![r].at = IF Current(r) THEN "acting" ELSE "settle"]
  /\ UNCHANGED <<row, status, reclaimed, claim, rel, rp, rec, stray, counters, history>>

\* The last command has ended: kept for a replay, or free again.
FinishCleanup(r) ==
  /\ cl[r].at = "acting" /\ ChainFree
  /\ row' = IF ~Current(r) THEN row ELSE IF cl[r].keep THEN Held ELSE Reset
  /\ given' = IF Current(r) /\ ~cl[r].keep /\ (~cl[r].registered \/ r \in reclaimed)
              THEN given \cup {r} ELSE given
  /\ unheeded' = (unheeded \/ Overruns(r))
  /\ cl' = [cl EXCEPT ![r] = NoCleanup]
  /\ UNCHANGED <<status, reclaimed, claim, rel, rp, rec, stray, counters, adrift>>

\* Something failed: the slot is held for a later cleanup, which no longer makes the run its occupant.  A shutdown
\* hook that did not confirm its stop keeps automatic retries away.
SettleCleanup(r) ==
  /\ cl[r].at \in {"acting", "settle"} /\ ChainFree
  /\ \E unsure \in IF cl[r].registered /\ cl[r].fence = 0 THEN BOOLEAN ELSE {FALSE} :
       row' = IF Current(r)
              THEN [Held EXCEPT !.owner = None, !.cleanup = r, !.unsure = row.unsure \/ unsure]
              ELSE row
  /\ cl' = [cl EXCEPT ![r] = NoCleanup]
  /\ UNCHANGED <<status, reclaimed, claim, rel, rp, rec, stray, counters, history>>

\* Mutant: a reclaim leaves no refusal of later replays behind.
ReclaimUnrecorded(q, r) ==
  /\ status[q] \in {"new", "finding"} /\ claim[q].at = "idle"
  /\ row.owner = r /\ r # q /\ status[r] = "cancelled" /\ ~Locked(r) /\ ~Releasing
  /\ StartCleanup(r, FALSE, FALSE)
  /\ UNCHANGED <<row, status, reclaimed, claim, rel, rp, rec, stray, counters, history>>

\* A selection that needs the slot of a cancelled run: the refusal of its replays is durable before
\* the cleanup begins.
Reclaim(q, r) ==
  /\ status[q] \in {"new", "finding"} /\ claim[q].at = "idle"
  /\ row.owner = r /\ r # q /\ status[r] = "cancelled" /\ ~Locked(r) /\ ~Releasing
  /\ reclaimed' = reclaimed \cup {r}
  /\ StartCleanup(r, FALSE, FALSE)
  /\ UNCHANGED <<row, status, claim, rel, rp, rec, stray, counters, history>>
-----------------------------------------------------------------------------
(* slot.release *)

\* A run that is not over keeps its slot, and so does one with a refused completion.
Releasable(owner) == owner = None \/ (Dead(owner) /\ ~Refused(owner))

\* Mutant: the marker is written over the fence of another teardown.
ReleaseOverFence ==
  /\ rel.at = "idle" /\ ChainFree /\ releases < MaxReleases
  /\ Releasable(row.owner)
  /\ row.unsure => stray = 0
  /\ rel' = [at |-> "check", owner |-> row.owner, cleanup |-> row.cleanup, epoch |-> row.epoch,
             fence |-> NextFence, prior |-> row.mode, stamp |-> row.fence]
  /\ row' = Fenced /\ releases' = releases + 1
  /\ UNCHANGED <<status, reclaimed, claim, cl, rp, rec, stray, crashes, replays, history>>

\* The marker: one write checks the owner, fences the slot and takes the epoch.  A live owner keeps
\* its slot.  An operator releases a slot with an unconfirmed stop when the command is gone.
StartRelease ==
  /\ rel.at = "idle" /\ ChainFree /\ releases < MaxReleases
  /\ ~Releasing /\ Releasable(row.owner)
  /\ row.unsure => stray = 0
  /\ rel' = [at |-> "check", owner |-> row.owner, cleanup |-> row.cleanup, epoch |-> row.epoch,
             fence |-> NextFence, prior |-> row.mode, stamp |-> row.fence]
  /\ row' = Fenced /\ releases' = releases + 1
  /\ UNCHANGED <<status, reclaimed, claim, cl, rp, rec, stray, crashes, replays, history>>

Claimed == row.epoch = rel.epoch /\ Releasing /\ row.owner = rel.owner
MayRelease == Claimed /\ Releasable(rel.owner)

\* assertReleaseClaim(): between two destructive steps.
ReleaseGoesOn ==
  /\ rel.at = "check" /\ MayRelease
  /\ \E next \in {"acting", "clear"} : rel' = [rel EXCEPT !.at = next]
  /\ UNCHANGED <<row, status, reclaimed, claim, cl, rp, rec, stray, counters, history>>

\* The right to go on is lost: the fence is taken back if it still stands.
ReleaseLost ==
  /\ rel.at = "check" /\ ~MayRelease /\ ChainFree
  /\ row' = IF Claimed THEN [row EXCEPT !.mode = rel.prior, !.fence = rel.stamp, !.old = FALSE] ELSE row
  /\ rel' = NoRelease
  /\ UNCHANGED <<status, reclaimed, claim, cl, rp, rec, stray, counters, history>>

ReleaseStepEnds ==
  /\ rel.at = "acting" /\ rel' = [rel EXCEPT !.at = "check"]
  /\ UNCHANGED <<row, status, reclaimed, claim, cl, rp, rec, stray, counters, history>>

\* A failed step leaves the slot held with its owner.
HoldRelease ==
  /\ rel.at = "acting" /\ MayRelease /\ ChainFree
  /\ row' = Held /\ rel' = NoRelease
  /\ UNCHANGED <<status, reclaimed, claim, cl, rp, rec, stray, counters, history>>

\* The step that looks for unmerged work finds some: the slot is busy again, without any condition.
RefuseRelease ==
  /\ rel.at = "acting" /\ ChainFree
  /\ row' = [row EXCEPT !.mode = "busy"] /\ rel' = NoRelease
  /\ UNCHANGED <<status, reclaimed, claim, cl, rp, rec, stray, counters, history>>

\* The last writes are guarded by the epoch alone.
ClearRelease ==
  /\ rel.at = "clear" /\ ChainFree
  /\ IF row.epoch = rel.epoch
     THEN row' = [row EXCEPT !.owner = None] /\ rel' = [rel EXCEPT !.at = "reset"]
     ELSE UNCHANGED row /\ rel' = NoRelease
  /\ UNCHANGED <<status, reclaimed, claim, cl, rp, rec, stray, counters, history>>

FinishRelease ==
  /\ rel.at = "reset" /\ ChainFree
  /\ row' = IF row.epoch = rel.epoch THEN Reset ELSE row
  /\ rel' = NoRelease
  /\ UNCHANGED <<status, reclaimed, claim, cl, rp, rec, stray, counters, history>>

\* After five minutes the operation is cut off and leaves the registry; a command that was running
\* is drained, or its stop stays unconfirmed.
TimeOut ==
  /\ rel.at \notin {"idle", "timedout"}
  /\ rel' = [rel EXCEPT !.at = "timedout"]
  /\ stray' \in IF rel.at = "acting" THEN {0, rel.fence} ELSE {stray}
  /\ UNCHANGED <<row, status, reclaimed, claim, cl, rp, rec, counters, history>>

\* Whoever timed out settles its own fence.
Recover ==
  /\ rel.at = "timedout" /\ ChainFree
  /\ LET mine == /\ Releasing /\ row.epoch = rel.epoch /\ row.fence = rel.fence
                 /\ row.owner \in {rel.owner, None} /\ row.cleanup \in {rel.cleanup, None}
     IN  row' = IF ~mine THEN row
                ELSE IF stray = rel.fence THEN [Held EXCEPT !.owner = None, !.cleanup = rel.owner, !.unsure = TRUE]
                ELSE [Held EXCEPT !.owner = rel.owner]
  /\ rel' = NoRelease
  /\ UNCHANGED <<status, reclaimed, claim, cl, rp, rec, stray, counters, history>>

-----------------------------------------------------------------------------
(* Replays *)

\* Refused while a teardown is registered, for a cancelled run whose slot was reclaimed and for a
\* run with a closed output.
BeginReplay(r) ==
  /\ Dead(r) /\ status[r] # "closed" /\ rp[r] = "idle" /\ replays < MaxReplays /\ ~InFlight
  /\ status[r] = "cancelled" => r \notin reclaimed /\ ~Locked(r)
  /\ rp' = [rp EXCEPT ![r] = "planned"] /\ replays' = replays + 1
  /\ UNCHANGED <<row, status, reclaimed, claim, rel, cl, rec, stray, releases, crashes, history>>

Replayable(r) == ~Releasing /\ (row.owner = r \/ (row.owner = None /\ row.mode = "ready"))

ClaimReplay(r) ==
  /\ rp[r] = "planned" /\ ChainFree /\ (status[r] # "cancelled" => ~Locked(r))
  /\ IF Replayable(r) /\ status[r] # "closed"
     THEN row' = ClaimedBy(r, NextEpoch) /\ rp' = [rp EXCEPT ![r] = "claimed"]
     ELSE UNCHANGED row /\ rp' = [rp EXCEPT ![r] = "idle"]
  /\ UNCHANGED <<status, reclaimed, claim, rel, cl, rec, stray, counters, history>>

\* The run works again.  Nothing looks at the slot any more.
Revive(r) ==
  /\ rp[r] = "claimed" /\ rp' = [rp EXCEPT ![r] = "idle"]
  /\ status' = [status EXCEPT ![r] = "working"]
  /\ adrift' = IF Holds(r) /\ ~InFlight /\ ChainFree THEN adrift \ {r} ELSE adrift \cup {r}
  /\ UNCHANGED <<row, reclaimed, claim, rel, cl, rec, stray, counters, given, unheeded>>

-----------------------------------------------------------------------------
(* The reconciler *)

\* A hold is retried through the cleanup that created it.
RetryOccupied(r) ==
  /\ rec.at = "idle" /\ Bound = {} /\ row.mode = "occupied" /\ ~row.unsure
  /\ ~InFlight /\ Owns(r) /\ Dead(r) /\ ~Refused(r) /\ ~(status[r] = "cancelled" /\ row.owner = r)
  /\ cl[r].at = "idle"
  /\ StartCleanup(r, FALSE, TRUE)
  /\ UNCHANGED <<row, status, reclaimed, claim, rel, rp, rec, stray, counters, history>>

\* What it sees of the slot before it acts on it.
Observe ==
  /\ rec.at = "idle" /\ Bound = {} /\ ~InFlight
  /\ \/ Releasing /\ row.old /\ rec' = [at |-> "fence", owner |-> None, fence |-> row.fence]
     \/ row.mode = "busy" /\ ~Kept(row.owner) /\ rec' = [at |-> "orphan", owner |-> row.owner, fence |-> 0]
  /\ UNCHANGED <<row, status, reclaimed, claim, rel, cl, rp, stray, counters, history>>

\* Mutant: the reclaim goes through the reset that leaves every releasing slot alone.
ResetUnlessReleasing ==
  /\ rec.at = "fence" /\ ChainFree
  /\ row' = IF ~Releasing /\ row.fence = rec.fence /\ ~InFlight THEN Reset ELSE row
  /\ rec' = NoObservation
  /\ UNCHANGED <<status, reclaimed, claim, rel, cl, rp, stray, counters, history>>

ReclaimFence ==
  /\ rec.at = "fence" /\ ChainFree
  /\ row' = IF Releasing /\ row.fence = rec.fence /\ ~InFlight THEN Reset ELSE row
  /\ rec' = NoObservation
  /\ UNCHANGED <<status, reclaimed, claim, rel, cl, rp, stray, counters, history>>

\* Under the owner's lock, and only if nothing has changed, nobody uses the slot meanwhile and the
\* owner has not come to keep it.
ResetOrphan ==
  /\ rec.at = "orphan" /\ ChainFree /\ (rec.owner # None => ~Locked(rec.owner))
  /\ row' = IF row.mode = "busy" /\ row.owner = rec.owner /\ ~InFlight /\ Bound = {} /\ ~Kept(rec.owner)
            THEN Reset ELSE row
  /\ rec' = NoObservation
  /\ UNCHANGED <<status, reclaimed, claim, rel, cl, rp, stray, counters, history>>

\* STALE_RELEASE_RECLAIM_MS: six times the limit of a registered teardown; what has no limit is
\* taken to have ended by then, too.
Age ==
  /\ Releasing /\ ~row.old
  /\ row.fence \notin {stray} \cup {cl[r].fence : r \in Run} \cup (IF rel.at = "idle" THEN {} ELSE {rel.fence})
  /\ row' = [row EXCEPT !.old = TRUE]
  /\ UNCHANGED <<status, reclaimed, memory, stray, counters, history>>

-----------------------------------------------------------------------------
(* The environment *)

\* The gateway dies: a claim's rename has happened or not, and a command may go on without it.
Crash ==
  /\ crashes < MaxCrashes /\ crashes' = crashes + 1
  /\ row' \in {row} \cup {ClaimedBy(r, claim[r].epoch) : r \in {q \in Run : claim[q].at = "writing"}}
  /\ LET acting == (IF rel.at = "acting" THEN {rel.fence} ELSE {})
                     \cup {cl[r].fence : r \in {q \in Run : cl[q].at = "acting"}}
     IN  stray' \in {stray} \cup (acting \ {0})
  /\ claim' = [r \in Run |-> NoClaim] /\ rel' = NoRelease
  /\ cl' = [r \in Run |-> NoCleanup] /\ rp' = [r \in Run |-> "idle"]
  /\ rec' = NoObservation
  /\ UNCHANGED <<status, reclaimed, releases, replays, history>>

StrayEnds ==
  /\ stray # 0 /\ stray' = 0
  /\ UNCHANGED <<row, status, reclaimed, memory, counters, history>>

-----------------------------------------------------------------------------
CleanupStep(r) ==
  StopWorkers(r) \/ FenceCleanup(r) \/ CheckCleanup(r) \/ FinishCleanup(r) \/ SettleCleanup(r)

ReleaseStep ==
  ReleaseGoesOn \/ ReleaseLost \/ ReleaseStepEnds \/ HoldRelease \/ RefuseRelease \/ ClearRelease
    \/ FinishRelease \/ Recover

Reconcile == Observe \/ ReclaimFence \/ ResetOrphan

Next ==
  \/ \E r \in Run : Find(r) \/ Claim(r) \/ LandClaim(r) \/ UndoClaim(r) \/ FailFinding(r) \/ Cancel(r) \/ Fail(r)
         \/ RefuseCompletion(r) \/ CloseOutput(r)
  \/ \E r \in Run : CleanupStep(r) \/ RetryOccupied(r) \/ BeginReplay(r) \/ ClaimReplay(r) \/ Revive(r)
  \/ \E q, r \in Run : Reclaim(q, r)
  \/ StartRelease \/ ReleaseStep \/ TimeOut
  \/ Reconcile \/ Age \/ Crash \/ StrayEnds

Spec == Init /\ [][Next]_vars

\* find-slot ends by itself unless it waits for a live run.
EndFinding(r) == ~LiveOwner(r) /\ (Claim(r) \/ FailFinding(r))

Fairness ==
  /\ \A r \in Run : /\ WF_vars(LandClaim(r)) /\ WF_vars(UndoClaim(r)) /\ WF_vars(EndFinding(r))
                    /\ WF_vars(CleanupStep(r)) /\ WF_vars(ClaimReplay(r)) /\ WF_vars(Revive(r))
  /\ WF_vars(ReleaseStep) /\ WF_vars(TimeOut) /\ WF_vars(Reconcile) /\ WF_vars(Age) /\ WF_vars(StrayEnds)

FairSpec == Spec /\ Fairness

-----------------------------------------------------------------------------
(* Properties *)

TypeOK ==
  /\ row \in [mode: {"ready", "busy", "releasing", "occupied"}, owner: Run \cup {None},
              cleanup: Run \cup {None}, fence: Tag, old: BOOLEAN, unsure: BOOLEAN, epoch: Tag]
  /\ row.mode = "ready" => row.owner = None /\ row.cleanup = None /\ row.fence = 0 /\ ~row.unsure
  /\ Releasing => row.fence # 0
  /\ status \in [Run -> {"new", "finding", "working", "failed", "refused", "cancelled", "closed"}]
  /\ reclaimed \subseteq Run
  /\ \A r \in Run : claim[r].at \in {"idle", "writing", "undo"} /\ rp[r] \in {"idle", "planned", "claimed"}
  /\ stray \in Tag

\* A working run has the slot: no teardown, undo, reconciliation or selection takes it away.  A run
\* that a replay revives after its claim was overtaken is the exception: Revive does
\* not look at the slot.
WorkingHolds == TypeOK /\ \A r \in Run \ adrift : status[r] = "working" => Holds(r)

\* While a destructive command of a teardown runs, the slot is behind that teardown's own fence, and
\* one that outlives its teardown leaves the slot fenced or marked as unconfirmed, until a run's own
\* cleanup, which does not heed the mark, takes the slot over.
CommandsAreFenced ==
  LET behind(f) == Releasing /\ row.fence = f
  IN  /\ rel.at = "acting" => behind(rel.fence)
      /\ \A r \in Run : cl[r].at = "acting" /\ cl[r].fence # 0 => behind(cl[r].fence)
      /\ stray # 0 => behind(stray) \/ row.unsure \/ unheeded

\* A cancelled run whose slot was given to a successor never works again.
LostForGood == \A r \in given : status[r] = "cancelled"

\* No fence stands for ever, whatever dies behind it.
FencesEnd == Releasing ~> ~Releasing \/ adrift # {}

\* No slot stays busy under a run that has ended, unless that run keeps it for an operator: one
\* with a refused completion until it is replayed, one with a closed output until its cleanup is
\* retried.
Orphaned == row.mode = "busy" /\ Dead(row.owner) /\ ~Kept(row.owner)
OrphansEnd == Orphaned ~> ~Orphaned \/ adrift # {}

=============================================================================
