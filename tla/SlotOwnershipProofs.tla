------------------------- MODULE SlotOwnershipProofs -------------------------
(***************************************************************************)
(* What holds of SlotOwnership for all sets of runs and any number of      *)
(* releases, replays and crashes: a run that works holds its slot, the     *)
(* commands of a teardown run behind its own fence, and a slot that was    *)
(* given to a successor is lost for good.                                  *)
(***************************************************************************)
EXTENDS SlotOwnership, FiniteSetTheorems, TLAPS

-----------------------------------------------------------------------------
(* The inductive invariant *)

Owner == Run \cup {None}
Modes == {"ready", "busy", "releasing", "occupied"}
Claims == [at : {"idle", "writing", "undo"}, epoch : Tag, ended : BOOLEAN]
Releases ==
  [at : {"idle", "check", "acting", "clear", "reset", "timedout"}, owner : Owner, cleanup : Owner,
   epoch : Tag, fence : Tag, prior : Modes \ {"releasing"}, stamp : Tag]
Cleanups ==
  [at : {"idle", "stop", "fence", "check", "acting", "settle"}, keep : BOOLEAN, registered : BOOLEAN,
   epoch : Tag, fence : Tag]
Observations == [at : {"idle", "fence", "orphan"}, owner : Owner, fence : Tag]

Rows ==
  [mode : Modes, owner : Owner, cleanup : Owner, fence : Tag, old : BOOLEAN, unsure : BOOLEAN, epoch : Tag]

Shape ==
  /\ row \in Rows
  /\ status \in [Run -> {"new", "finding", "working", "failed", "refused", "cancelled", "closed"}]
  /\ claim \in [Run -> Claims] /\ rel \in Releases /\ cl \in [Run -> Cleanups]
  /\ rp \in [Run -> {"idle", "planned", "claimed"}]
  /\ rec \in Observations
  /\ stray \in Tag /\ unheeded \in BOOLEAN
  /\ reclaimed \subseteq Run /\ given \subseteq Run /\ adrift \subseteq Run

\* A free slot is nobody's, and a fence has a stamp.
RowInv ==
  /\ row.mode = "ready" => row.owner = None /\ row.cleanup = None /\ row.fence = 0 /\ ~row.unsure
  /\ Releasing => row.fence # 0

Behind(f) == Releasing /\ row.fence = f

\* A release under way stands behind its own fence, over the row it found; it began only when no
\* unconfirmed command was left.
ReleaseInv ==
  rel.at # "idle" =>
    /\ Behind(rel.fence) /\ ~row.old
    /\ row.owner \in {rel.owner, None} /\ (rel.at \in {"check", "acting", "clear"} => row.owner = rel.owner)
    /\ row.cleanup = rel.cleanup /\ row.epoch = rel.epoch
    /\ rel.prior = "ready" => rel.owner = None
    /\ rel.at # "timedout" => rel.fence # stray /\ (row.unsure => stray = 0)

\* A fence that is old, or that the reconciler is about to take back, protects no command.
StaleInv ==
  /\ row.old /\ Releasing => row.fence # stray
  /\ rec.at = "fence" =>
       rec.fence # stray /\ rec.fence # 0 /\ (rel.at # "idle" => rec.fence # rel.fence)

\* A command that outlives its teardown keeps the slot away from automatic use.
StrayInv ==
  stray # 0 => Behind(stray) \/ unheeded \/ (row.mode = "occupied" /\ row.unsure /\ row.owner = None)

\* A cleanup's fence is its own, and stands while it acts.
CleanupInv(r) ==
  /\ cl[r].fence # 0 =>
       /\ cl[r].fence # stray
       /\ rel.at # "idle" => cl[r].fence # rel.fence
       /\ rec.at = "fence" => cl[r].fence # rec.fence
       /\ row.old /\ Releasing => cl[r].fence # row.fence
       /\ \A q \in Run \ {r} : cl[q].fence # cl[r].fence
  /\ cl[r].at \in {"idle", "stop", "fence"} => cl[r].fence = 0
  /\ cl[r].at = "acting" /\ cl[r].fence # 0 => Behind(cl[r].fence)
  /\ cl[r].at # "idle" => status[r] \notin {"new", "finding"}
  /\ cl[r].at # "idle" /\ ~cl[r].keep /\ ~cl[r].registered => r \in reclaimed
  /\ cl[r].at = "idle" => ~cl[r].registered

\* While a claim is being written nobody else has the slot or can get it, and a cancelled run's own
\* cleanup waits for it; the claim it has to undo is not the one its replay made.
ClaimInv(r) ==
  /\ claim[r].at = "writing" =>
       /\ row.mode \notin {"releasing", "occupied"} /\ claim[r].epoch # row.epoch
       /\ \A q \in Run \ {r} :
            claim[q].at # "writing" /\ (claim[q].at # "idle" => claim[q].epoch # claim[r].epoch)
       /\ \A q \in Run : status[q] = "working" => q \in adrift
       /\ \/ ~claim[r].ended /\ status[r] = "finding"
          \/ /\ claim[r].ended /\ status[r] = "cancelled" /\ rp[r] = "idle"
             /\ cl[r].at # "idle" /\ ~cl[r].registered
  /\ claim[r].at = "undo" =>
       /\ status[r] \notin {"new", "finding"}
       /\ status[r] = "working" \/ rp[r] = "claimed" => row.epoch # claim[r].epoch
  /\ status[r] = "new" => claim[r].at = "idle"

\* A run that works holds the slot and has nothing of its own left to clean up.
RunInv(r) ==
  /\ rp[r] # "idle" => Dead(r)
  /\ rp[r] = "claimed" \/ (rp[r] = "planned" /\ status[r] = "cancelled") =>
       cl[r].at = "idle" \/ cl[r].registered
  /\ status[r] = "working" /\ r \notin adrift => Holds(r) /\ cl[r].at = "idle"
  /\ r \in reclaimed => status[r] = "cancelled" /\ rp[r] = "idle"
  /\ r \in given => r \in reclaimed

Inv ==
  /\ Shape /\ RowInv /\ ReleaseInv /\ StaleInv /\ StrayInv
  /\ \A r \in Run : CleanupInv(r) /\ ClaimInv(r) /\ RunInv(r)

-----------------------------------------------------------------------------
(* Tags that nobody remembers *)

Small(U, n) == IsFiniteSet(U) /\ Cardinality(U) <= n

\* A function on runs has at most as many values as there are runs.
LEMMA SmallRange ==
  ASSUME SlotAssumption, NEW f, f \in [Run -> Tag]
  PROVE  Small({f[r] : r \in Run}, Cardinality(Run))
  <1> DEFINE U == {f[r] : r \in Run}
             g == [r \in Run |-> f[r]]
  <1>1. g \in Surjection(Run, U)
    BY DEF Surjection
  <1> QED
    BY <1>1, FS_Surjection DEF SlotAssumption, Small

\* The sizes of two small sets add up.
LEMMA SmallUnion ==
  ASSUME NEW U, NEW V, NEW m \in Nat, NEW n \in Nat, Small(U, m), Small(V, n)
  PROVE  Small(U \cup V, m + n)
  <1>1. IsFiniteSet(U \cap V)
    BY FS_Subset DEF Small
  <1>2. Cardinality(U) \in Nat /\ Cardinality(V) \in Nat /\ Cardinality(U \cap V) \in Nat
    BY <1>1, FS_CardinalityType DEF Small
  <1>3. /\ IsFiniteSet(U \cup V)
        /\ Cardinality(U \cup V) = Cardinality(U) + Cardinality(V) - Cardinality(U \cap V)
    BY FS_Union DEF Small
  <1> QED
    BY <1>2, <1>3 DEF Small

\* One more value makes a set larger by at most one.
LEMMA SmallAdd ==
  ASSUME NEW U, NEW x, NEW n \in Nat, Small(U, n)
  PROVE  Small(U \cup {x}, n + 1)
  <1>1. IsFiniteSet({x}) /\ Cardinality({x}) = 1
    BY FS_Singleton
  <1>2. Small({x}, 1)
    BY <1>1 DEF Small
  <1> QED
    BY <1>2, SmallUnion

\* Three values are at most three.
LEMMA SmallThree ==
  ASSUME NEW x, NEW y, NEW z
  PROVE  Small({x, y, z}, 3)
  <1>1. IsFiniteSet({x}) /\ Cardinality({x}) = 1
    BY FS_Singleton
  <1>2. Small({x}, 1)
    BY <1>1 DEF Small
  <1>3. Small({x} \cup {y}, 1 + 1)
    BY <1>2, SmallAdd
  <1>4. Small({x} \cup {y}, 2)
    BY <1>3
  <1>5. Small(({x} \cup {y}) \cup {z}, 2 + 1)
    BY <1>4, SmallAdd
  <1>6. {x, y, z} = ({x} \cup {y}) \cup {z}
    OBVIOUS
  <1> QED
    BY <1>5, <1>6

\* A bound may be loosened.
LEMMA SmallMore ==
  ASSUME NEW U, NEW m \in Nat, NEW n \in Nat, m <= n, Small(U, m)
  PROVE  Small(U, n)
  BY FS_CardinalityType DEF Small

\* There are more tags than a set of the size the code can remember has.
LEMMA FreshTag ==
  ASSUME SlotAssumption, NEW U, Small(U, 2 * Cardinality(Run) + 6)
  PROVE  Fresh(U) \in Tag /\ Fresh(U) \notin U
  <1> DEFINE N == Cardinality(Run)
  <1>1. N \in Nat
    BY FS_CardinalityType DEF SlotAssumption
  <1>2. Cardinality(Tag) = 2 * N + 7
    BY <1>1, FS_Interval DEF Tag
  <1>3. \E n \in Tag : n \notin U
    <2> SUFFICES ASSUME Tag \subseteq U PROVE FALSE
      OBVIOUS
    <2>1. Cardinality(Tag) <= Cardinality(U) /\ Cardinality(U) \in Nat
      BY FS_Subset, FS_CardinalityType DEF Small
    <2> QED
      BY <1>1, <1>2, <2>1 DEF Small
  <1> QED
    BY <1>3 DEF Fresh

\* The epoch of a new claim is none that the row, a claim, a release or a cleanup remembers.
LEMMA EpochIsFresh ==
  ASSUME SlotAssumption, Shape
  PROVE  /\ NextEpoch \in Tag \ {0, row.epoch, rel.epoch}
         /\ \A r \in Run : NextEpoch \notin {claim[r].epoch, cl[r].epoch}
  <1> DEFINE N == Cardinality(Run)
             f == [r \in Run |-> claim[r].epoch]
             g == [r \in Run |-> cl[r].epoch]
             U == {0, row.epoch, rel.epoch} \cup {claim[r].epoch : r \in Run} \cup {cl[r].epoch : r \in Run}
  <1>1. N \in Nat
    BY FS_CardinalityType DEF SlotAssumption
  <1>2. f \in [Run -> Tag] /\ g \in [Run -> Tag]
    BY DEF Shape, Claims, Cleanups
  <1>3. Small({f[r] : r \in Run}, N) /\ Small({g[r] : r \in Run}, N)
    BY <1>2, SmallRange
  <1>4. Small({0, row.epoch, rel.epoch}, 3)
    BY SmallThree
  <1> DEFINE F == {f[r] : r \in Run}
             G == {g[r] : r \in Run}
             V == {0, row.epoch, rel.epoch}
  <1> HIDE DEF N, F, G, V
  <1>5. Small(V \cup F, 3 + N)
    BY <1>1, <1>3, <1>4, SmallUnion DEF F, V
  <1>6. Small((V \cup F) \cup G, (3 + N) + N)
    BY <1>1, <1>3, <1>5, SmallUnion DEF G
  <1>7. Small(U, 2 * N + 6)
    <2>1. U = (V \cup F) \cup G
      BY DEF V, F, G
    <2>2. (3 + N) + N \in Nat /\ 2 * N + 6 \in Nat /\ (3 + N) + N <= 2 * N + 6
      BY <1>1
    <2> HIDE DEF U
    <2> QED
      BY <1>6, <2>1, <2>2, SmallMore
  <1>8. Fresh(U) \in Tag /\ Fresh(U) \notin U
    BY <1>7, FreshTag DEF N
  <1> QED
    BY <1>8 DEF NextEpoch

\* The stamp of a new fence is none that anybody remembers.
LEMMA FenceIsFresh ==
  ASSUME SlotAssumption, Shape
  PROVE  /\ NextFence \in Tag \ {0, row.fence, rel.fence, rel.stamp, rec.fence, stray}
         /\ \A r \in Run : NextFence # cl[r].fence
  <1> DEFINE N == Cardinality(Run)
             g == [r \in Run |-> cl[r].fence]
             U == {0, row.fence, rel.fence, rel.stamp, rec.fence, stray} \cup {cl[r].fence : r \in Run}
  <1>1. N \in Nat
    BY FS_CardinalityType DEF SlotAssumption
  <1>2. g \in [Run -> Tag]
    BY DEF Shape, Cleanups
  <1>3. Small({g[r] : r \in Run}, N)
    BY <1>2, SmallRange
  <1>4. Small({0, row.fence, rel.fence}, 3) /\ Small({rel.stamp, rec.fence, stray}, 3)
    BY SmallThree
  <1> DEFINE F == {0, row.fence, rel.fence}
             G == {g[r] : r \in Run}
             V == {rel.stamp, rec.fence, stray}
  <1> HIDE DEF N, F, G, V
  <1>5. Small(F \cup V, 3 + 3)
    BY <1>4, SmallUnion DEF F, V
  <1>6. Small((F \cup V) \cup G, (3 + 3) + N)
    BY <1>1, <1>3, <1>5, SmallUnion DEF G
  <1>7. Small(U, 2 * N + 6)
    <2>1. U = (F \cup V) \cup G
      BY DEF V, F, G
    <2>2. (3 + 3) + N \in Nat /\ 2 * N + 6 \in Nat /\ (3 + 3) + N <= 2 * N + 6
      BY <1>1
    <2> HIDE DEF U
    <2> QED
      BY <1>6, <2>1, <2>2, SmallMore
  <1>8. Fresh(U) \in Tag /\ Fresh(U) \notin U
    BY <1>7, FreshTag DEF N
  <1> QED
    BY <1>8 DEF NextFence

-----------------------------------------------------------------------------
(* One lemma for each action *)

\* Zero, which stands for no stamp and no epoch, is a tag.
LEMMA TagZero ==
  ASSUME SlotAssumption
  PROVE  0 \in Tag /\ None \notin Run
  BY FS_CardinalityType DEF SlotAssumption, Tag

\* What the writes of the row make of it.
LEMMA RowUpdates ==
  ASSUME SlotAssumption, Shape
  PROVE  /\ Reset \in Rows /\ Held \in Rows /\ Fenced \in Rows
         /\ [Held EXCEPT !.owner = None] \in Rows
         /\ \A r \in Run, e \in Tag : ClaimedBy(r, e) \in Rows
  <1>1. NextFence \in Tag
    BY FenceIsFresh
  <1> QED
    BY <1>1, TagZero DEF Shape, Rows, Owner, Modes, Reset, Held, Fenced, ClaimedBy

\* What is idle.
LEMMA IdleRecords ==
  ASSUME SlotAssumption
  PROVE  /\ NoClaim \in Claims /\ NoRelease \in Releases
         /\ NoCleanup \in Cleanups /\ NoObservation \in Observations
  BY TagZero DEF Claims, Releases, Cleanups, Observations, Owner, Modes, NoClaim, NoRelease, NoCleanup,
     NoObservation

\* A selection that binds its slot has claimed nothing yet.
LEMMA FindKeeps ==
  ASSUME SlotAssumption, Inv, NEW r \in Run, Find(r)
  PROVE  Inv'
  <1>1. Shape'
    BY RowUpdates DEF Inv, Shape, Find, Rows, Claims, Releases, Cleanups, Observations, memory,
       counters, history, Modes, Owner
  <1>2. ASSUME NEW p \in Run PROVE CleanupInv(p)'
    BY DEF Inv, CleanupInv, Find, Releasing, Behind, memory, counters, history
  <1>3. ASSUME NEW p \in Run PROVE ClaimInv(p)'
    BY DEF Inv, ClaimInv, Find, memory, counters, history
  <1>4. ASSUME NEW p \in Run PROVE RunInv(p)'
    BY DEF Inv, RunInv, Find, Dead, Holds, memory, counters, history
  <1>5. RowInv' /\ ReleaseInv' /\ StaleInv' /\ StrayInv'
    BY DEF Inv, RowInv, ReleaseInv, StaleInv, StrayInv, Releasing, Behind, Find, memory, counters,
       history
  <1> QED
    BY <1>1, <1>2, <1>3, <1>4, <1>5 DEF Inv

\* A claim is written only for a row without an owner that lives, and with an epoch of its own.
LEMMA ClaimKeeps ==
  ASSUME SlotAssumption, Inv, NEW r \in Run, Claim(r)
  PROVE  Inv'
  <1>1. Shape'
    BY RowUpdates, EpochIsFresh DEF Inv, Shape, Claim, Rows, Claims, Releases, Cleanups, Observations,
       ChainFree, counters, history, Modes, Owner, Dead
  <1>2. \A p \in Run : ClaimInv(p)'
    <2>1. PICK e \in Tag \ {0, row.epoch} :
            /\ claim' = [claim EXCEPT ![r] = [at |-> "writing", epoch |-> e, ended |-> FALSE]]
            /\ \A q \in Run : e # claim[q].epoch
      BY EpochIsFresh DEF Inv, Claim
    <2>2. \A q \in Run : status[q] = "working" => q \in adrift
      BY TagZero DEF Inv, RunInv, Claim, Claimable, LiveOwner, Dead, Holds
    <2> QED
      BY <2>1, <2>2 DEF Inv, Shape, Claims, ClaimInv, Claim, Claimable, ChainFree, history
  <1>3. RowInv' /\ ReleaseInv' /\ StaleInv' /\ StrayInv' /\ (\A p \in Run : CleanupInv(p)' /\ RunInv(p)')
    BY DEF Inv, RowInv, ReleaseInv, StaleInv, StrayInv, CleanupInv, RunInv, Releasing, Behind, Dead,
       Holds, Claim, counters, history
  <1> QED
    BY <1>1, <1>2, <1>3 DEF Inv

\* A landed claim makes its run the holder, or leaves it to be undone if a cancel ended it meanwhile.
LEMMA LandClaimKeeps ==
  ASSUME SlotAssumption, Inv, NEW r \in Run, LandClaim(r)
  PROVE  Inv'
  <1>1. Shape'
    <2>1. row' \in Rows
      BY RowUpdates DEF Inv, Shape, Claims, LandClaim
    <2>2. claim' \in [Run -> Claims]
      <3>1. NoClaim \in Claims
        BY TagZero DEF Claims, NoClaim
      <3>2. [claim[r] EXCEPT !.at = "undo"] \in Claims
        BY DEF Inv, Shape, Claims
      <3> QED
        BY <3>1, <3>2 DEF Inv, Shape, LandClaim
    <2> QED
      BY <2>1, <2>2 DEF Inv, Shape, LandClaim, counters, history
  <1>2. RowInv'
    BY DEF Inv, RowInv, LandClaim, Releasing, ClaimedBy, counters, history
  <1>3. ReleaseInv'
    BY DEF Inv, ReleaseInv, ClaimInv, LandClaim, Behind, counters, history, Releasing
  <1>4. StaleInv'
    BY DEF Inv, StaleInv, LandClaim, Releasing, ClaimedBy, counters, history
  <1>5. StrayInv'
    BY DEF Inv, StrayInv, ClaimInv, LandClaim, Behind, counters, history, Releasing
  <1>6. ASSUME NEW p \in Run PROVE CleanupInv(p)'
    BY DEF Inv, Shape, CleanupInv, ClaimInv, LandClaim, Rows, Claims, Releases, Cleanups, Observations,
       Releasing, Behind, ClaimedBy, counters, history, Modes, Owner
  <1>7. ASSUME NEW p \in Run PROVE ClaimInv(p)'
    BY DEF Inv, Shape, RowInv, ReleaseInv, StaleInv, ClaimInv, RunInv, LandClaim, Rows, Claims,
       Releases, Cleanups, Observations, Releasing, Behind, Dead, ClaimedBy, NoClaim, counters,
       history, Modes, Owner
  <1>8. ASSUME NEW p \in Run PROVE RunInv(p)'
    BY DEF Inv, Shape, CleanupInv, ClaimInv, RunInv, LandClaim, Rows, Claims, Releases, Cleanups,
       Observations, Releasing, Behind, Dead, Holds, ClaimedBy, counters, history, Modes, Owner
  <1> QED
    BY <1>1, <1>2, <1>3, <1>4, <1>5, <1>6, <1>7, <1>8 DEF Inv

\* Undoing a claim resets a row only if that claim's epoch is still there.
LEMMA UndoClaimKeeps ==
  ASSUME SlotAssumption, Inv, NEW r \in Run, UndoClaim(r)
  PROVE  Inv'
  <1>1. Shape'
    BY TagZero, RowUpdates, IdleRecords DEF Inv, Shape, UndoClaim, Rows, Claims, Releases, Cleanups,
       Observations, ChainFree, Releasing, counters, history, Modes, Owner
  <1>2. RowInv'
    BY DEF Inv, RowInv, UndoClaim, Releasing, ChainFree, Reset, counters, history
  <1>3. ReleaseInv'
    BY DEF Inv, ReleaseInv, UndoClaim, Behind, ChainFree, Releasing, counters, history
  <1>4. StaleInv'
    BY DEF Inv, StaleInv, UndoClaim, Releasing, ChainFree, Reset, counters, history
  <1>5. StrayInv'
    <2>1. row' # row => row.owner = r /\ ~Releasing
      BY DEF UndoClaim
    <2> QED
      BY <2>1, TagZero DEF Inv, StrayInv, UndoClaim, counters, history, Releasing, Behind
  <1>6. ASSUME NEW p \in Run PROVE CleanupInv(p)'
    BY DEF Inv, CleanupInv, UndoClaim, Releasing, Behind, ChainFree, Reset, counters, history
  <1>7. ASSUME NEW p \in Run PROVE ClaimInv(p)'
    BY DEF Inv, ClaimInv, UndoClaim, ChainFree, NoClaim, Releasing, Reset, counters, history
  <1>8. ASSUME NEW p \in Run PROVE RunInv(p)'
    BY DEF Inv, ClaimInv, RunInv, UndoClaim, Dead, Holds, ChainFree, Releasing, counters, history
  <1> QED
    BY <1>1, <1>2, <1>3, <1>4, <1>5, <1>6, <1>7, <1>8 DEF Inv

\* A selection that gives up has no claim under way.
LEMMA FailFindingKeeps ==
  ASSUME SlotAssumption, Inv, NEW r \in Run, FailFinding(r)
  PROVE  Inv'
  <1>1. Shape'
    BY RowUpdates DEF Inv, Shape, FailFinding, Rows, Claims, Releases, Cleanups, Observations, memory,
       counters, history, Modes, Owner
  <1>2. ASSUME NEW p \in Run PROVE CleanupInv(p)'
    BY DEF Inv, CleanupInv, FailFinding, Releasing, Behind, memory, counters, history
  <1>3. ASSUME NEW p \in Run PROVE ClaimInv(p)'
    BY DEF Inv, ClaimInv, FailFinding, memory, counters, history
  <1>4. ASSUME NEW p \in Run PROVE RunInv(p)'
    BY DEF Inv, RunInv, FailFinding, Dead, Holds, memory, counters, history
  <1>5. RowInv' /\ ReleaseInv' /\ StaleInv' /\ StrayInv'
    BY DEF Inv, RowInv, ReleaseInv, StaleInv, StrayInv, Releasing, Behind, FailFinding, memory,
       counters, history
  <1> QED
    BY <1>1, <1>2, <1>3, <1>4, <1>5 DEF Inv

\* A cancelled run stops being the one that works, and its cleanup begins.
LEMMA CancelKeeps ==
  ASSUME SlotAssumption, Inv, NEW r \in Run, Cancel(r)
  PROVE  Inv'
  <1>1. Shape'
    <2>1. cl' \in [Run -> Cleanups]
      BY TagZero DEF Inv, Shape, Cleanups, Cancel, StartCleanup
    <2>2. claim' \in [Run -> Claims]
      BY DEF Inv, Shape, Claims, Cancel
    <2> QED
      BY <2>1, <2>2 DEF Inv, Shape, Cancel, counters, history
  <1>2. ASSUME NEW p \in Run PROVE CleanupInv(p)'
    BY DEF Inv, Shape, CleanupInv, Cancel, Rows, Claims, Releases, Cleanups, Observations, Releasing,
       Behind, StartCleanup, counters, history, Modes, Owner
  <1>3. ASSUME NEW p \in Run PROVE ClaimInv(p)'
    BY DEF Inv, Shape, ClaimInv, RunInv, Cancel, Rows, Claims, Releases, Cleanups, Observations, Dead,
       StartCleanup, counters, history, Modes, Owner
  <1>4. ASSUME NEW p \in Run PROVE RunInv(p)'
    BY DEF Inv, Shape, RunInv, Cancel, Rows, Claims, Releases, Cleanups, Observations, Dead, Holds,
       Bound, StartCleanup, counters, history, Modes, Owner
  <1>5. RowInv' /\ ReleaseInv' /\ StaleInv' /\ StrayInv'
    BY DEF Inv, RowInv, ReleaseInv, StaleInv, StrayInv, Releasing, Behind, Cancel, counters, history
  <1> QED
    BY <1>1, <1>2, <1>3, <1>4, <1>5 DEF Inv

\* A failed run's cleanup is registered before anybody can see the status.
LEMMA FailKeeps ==
  ASSUME SlotAssumption, Inv, NEW r \in Run, Fail(r)
  PROVE  Inv'
  <1>1. Shape'
    BY TagZero, RowUpdates DEF Inv, Shape, Fail, Rows, Claims, Releases, Cleanups, Observations,
       StartCleanup, counters, history, Modes, Owner
  <1>2. ASSUME NEW p \in Run PROVE CleanupInv(p)'
    BY DEF Inv, CleanupInv, Fail, Releasing, Behind, StartCleanup, counters, history
  <1>3. ASSUME NEW p \in Run PROVE ClaimInv(p)'
    BY DEF Inv, ClaimInv, Fail, StartCleanup, counters, history
  <1>4. ASSUME NEW p \in Run PROVE RunInv(p)'
    BY DEF Inv, Shape, RunInv, Fail, Rows, Claims, Releases, Cleanups, Observations, Dead, Holds,
       StartCleanup, counters, history, Modes, Owner
  <1>5. RowInv' /\ ReleaseInv' /\ StaleInv' /\ StrayInv'
    BY DEF Inv, RowInv, ReleaseInv, StaleInv, StrayInv, Releasing, Behind, Fail, counters, history
  <1> QED
    BY <1>1, <1>2, <1>3, <1>4, <1>5 DEF Inv

\* A run whose completion is refused keeps its row as it is.
LEMMA RefuseCompletionKeeps ==
  ASSUME SlotAssumption, Inv, NEW r \in Run, RefuseCompletion(r)
  PROVE  Inv'
  <1>1. Shape'
    BY DEF Inv, Shape, RefuseCompletion, memory, counters, history
  <1>2. ASSUME NEW p \in Run PROVE CleanupInv(p)'
    BY DEF Inv, CleanupInv, RefuseCompletion, Releasing, Behind, memory, counters, history
  <1>3. ASSUME NEW p \in Run PROVE ClaimInv(p)'
    BY DEF Inv, Shape, ClaimInv, RunInv, RefuseCompletion, memory, counters, history
  <1>4. ASSUME NEW p \in Run PROVE RunInv(p)'
    BY DEF Inv, Shape, RunInv, RefuseCompletion, Dead, Holds, memory, counters, history
  <1>5. RowInv' /\ ReleaseInv' /\ StaleInv' /\ StrayInv'
    BY DEF Inv, RowInv, ReleaseInv, StaleInv, StrayInv, Releasing, Behind, RefuseCompletion, memory,
       counters, history
  <1> QED
    BY <1>1, <1>2, <1>3, <1>4, <1>5 DEF Inv

\* A closed output's cleanup is registered, and its run is never revived.
LEMMA CloseOutputKeeps ==
  ASSUME SlotAssumption, Inv, NEW r \in Run, CloseOutput(r)
  PROVE  Inv'
  <1>1. Shape'
    BY TagZero DEF Inv, Shape, CloseOutput, Cleanups, StartCleanup, counters, history
  <1>2. ASSUME NEW p \in Run PROVE CleanupInv(p)'
    BY DEF Inv, Shape, CleanupInv, CloseOutput, Releasing, Behind, StartCleanup, counters, history
  <1>3. ASSUME NEW p \in Run PROVE ClaimInv(p)'
    BY DEF Inv, Shape, ClaimInv, RunInv, CloseOutput, StartCleanup, counters, history
  <1>4. ASSUME NEW p \in Run PROVE RunInv(p)'
    BY DEF Inv, Shape, RunInv, CloseOutput, Cleanups, Dead, Holds, StartCleanup, counters, history
  <1>5. RowInv' /\ ReleaseInv' /\ StaleInv' /\ StrayInv'
    BY DEF Inv, RowInv, ReleaseInv, StaleInv, StrayInv, Releasing, Behind, CloseOutput, counters, history
  <1> QED
    BY <1>1, <1>2, <1>3, <1>4, <1>5 DEF Inv

\* Stopping the workers changes no row.
LEMMA StopWorkersKeeps ==
  ASSUME SlotAssumption, Inv, NEW r \in Run, StopWorkers(r)
  PROVE  Inv'
  <1>1. Shape'
    <2>1. PICK at \in {"fence", "settle"} : cl' = [cl EXCEPT ![r].at = at, ![r].epoch = row.epoch]
      BY DEF StopWorkers
    <2>2. [cl[r] EXCEPT !.at = at, !.epoch = row.epoch] \in Cleanups
      <3>1. cl[r] \in Cleanups /\ row.epoch \in Tag
        BY DEF Inv, Shape, Rows
      <3> QED
        BY <3>1 DEF Cleanups
    <2>3. cl' \in [Run -> Cleanups]
      BY <2>1, <2>2 DEF Inv, Shape
    <2> QED
      BY <2>3 DEF Inv, Shape, StopWorkers, counters, history
  <1>2. ASSUME NEW p \in Run PROVE CleanupInv(p)'
    BY DEF Inv, Shape, CleanupInv, StopWorkers, Rows, Claims, Releases, Cleanups, Observations,
       Releasing, Behind, counters, history, Modes, Owner
  <1>3. ASSUME NEW p \in Run PROVE ClaimInv(p)'
    BY DEF Inv, Shape, ClaimInv, StopWorkers, Rows, Claims, Releases, Cleanups, Observations,
       Releasing, counters, history, Modes, Owner
  <1>4. ASSUME NEW p \in Run PROVE RunInv(p)'
    BY DEF Inv, Shape, RunInv, StopWorkers, Rows, Claims, Releases, Cleanups, Observations, Dead,
       Holds, Releasing, counters, history, Modes, Owner
  <1>5. RowInv' /\ ReleaseInv' /\ StaleInv' /\ StrayInv'
    BY DEF Inv, RowInv, ReleaseInv, StaleInv, StrayInv, Releasing, Behind, StopWorkers, counters,
       history
  <1> QED
    BY <1>1, <1>2, <1>3, <1>4, <1>5 DEF Inv

\* A cleanup that fences gets a stamp of its own; what a marked row's command then does is recorded.
LEMMA FenceCleanupKeeps ==
  ASSUME SlotAssumption, Inv, NEW r \in Run, FenceCleanup(r)
  PROVE  Inv'
  <1>1. Shape'
    <2>1. row' \in Rows
      BY RowUpdates DEF Inv, Shape, FenceCleanup
    <2>2. cl' \in [Run -> Cleanups]
      BY FenceIsFresh DEF Inv, Shape, Cleanups, FenceCleanup
    <2> QED
      BY <2>1, <2>2 DEF Inv, Shape, FenceCleanup, counters, history, Overruns
  <1>2. RowInv'
    BY FenceIsFresh DEF Inv, Shape, RowInv, FenceCleanup, Rows, Claims, Releases, Cleanups,
       Observations, Releasing, ChainFree, counters, Modes, Owner
  <1>3. ReleaseInv'
    BY FenceIsFresh DEF Inv, Shape, ReleaseInv, FenceCleanup, Rows, Claims, Releases, Cleanups,
       Observations, Behind, ChainFree, counters, Modes, Owner, Releasing
  <1>4. StaleInv'
    BY ZenonT(30) DEF Inv, Shape, StaleInv, FenceCleanup, Rows, Claims, Releases, Cleanups, Observations,
       Releasing, ChainFree, Fenced, counters, Modes, Owner
  <1>5. StrayInv'
    BY FenceIsFresh DEF Inv, Shape, StrayInv, FenceCleanup, Rows, Claims, Releases, Cleanups,
       Observations, Behind, ChainFree, counters, Modes, Owner, Releasing
  <1>6. \A p \in Run : CleanupInv(p)'
    <2>1. CASE Current(r)
      <3>1. PICK f \in Tag \ {0, row.fence, rel.fence, rec.fence, stray} :
              /\ row' = [row EXCEPT !.mode = "releasing", !.fence = f, !.old = FALSE]
              /\ cl' = [cl EXCEPT ![r].at = "check", ![r].fence = f]
              /\ \A q \in Run : f # cl[q].fence
        BY <2>1, FenceIsFresh DEF Inv, FenceCleanup, Fenced
      <3>2. ~Releasing /\ cl[r].fence = 0
        BY <2>1 DEF Inv, CleanupInv, FenceCleanup, Current
      <3> QED
        BY <2>1, <3>1, <3>2 DEF Inv, Shape, Rows, Cleanups, CleanupInv, FenceCleanup, Releasing, Behind
    <2>2. CASE ~Current(r)
      <3>1. PICK at \in {"check", "settle"} : cl' = [cl EXCEPT ![r].at = at]
        BY <2>2 DEF FenceCleanup
      <3> QED
        BY <2>2, <3>1 DEF Inv, Shape, Cleanups, CleanupInv, FenceCleanup, Releasing, Behind
    <2> QED
      BY <2>1, <2>2
  <1>7. ASSUME NEW p \in Run PROVE ClaimInv(p)'
    BY FenceIsFresh DEF Inv, Shape, ClaimInv, FenceCleanup, Rows, Claims, Releases, Cleanups,
       Observations, ChainFree, counters, Modes, Owner, Releasing
  <1>8. ASSUME NEW p \in Run PROVE RunInv(p)'
    BY FenceIsFresh, SMTT(60) DEF Inv, Shape, RowInv, ReleaseInv, CleanupInv, ClaimInv, RunInv,
       FenceCleanup, Rows, Claims, Releases, Cleanups, Observations, Releasing, Behind, Dead, Holds,
       ChainFree, Overruns, counters, Modes, Owner
  <1> QED
    BY <1>1, <1>2, <1>3, <1>4, <1>5, <1>6, <1>7, <1>8 DEF Inv

\* A cleanup acts only while the row is still its own.
LEMMA CheckCleanupKeeps ==
  ASSUME SlotAssumption, Inv, NEW r \in Run, CheckCleanup(r)
  PROVE  Inv'
  <1>1. Shape'
    BY SMTT(20), TagZero, RowUpdates DEF Inv, Shape, ReleaseInv, CleanupInv, ClaimInv, RunInv, CheckCleanup,
       Rows, Claims, Releases, Cleanups, Observations, Behind, Releasing, Dead, Holds, Current,
       counters, history, Modes, Owner, Owns
  <1>2. ASSUME NEW p \in Run PROVE CleanupInv(p)'
    BY DEF Inv, CleanupInv, CheckCleanup, Releasing, Behind, Current, counters, history
  <1>3. ASSUME NEW p \in Run PROVE ClaimInv(p)'
    BY DEF Inv, ClaimInv, CheckCleanup, counters, history, Releasing
  <1>4. ASSUME NEW p \in Run PROVE RunInv(p)'
    BY DEF Inv, RunInv, CheckCleanup, Dead, Holds, counters, history, Releasing
  <1>5. RowInv' /\ ReleaseInv' /\ StaleInv' /\ StrayInv'
    BY DEF Inv, RowInv, ReleaseInv, StaleInv, StrayInv, Releasing, Behind, CheckCleanup, counters,
       history
  <1> QED
    BY <1>1, <1>2, <1>3, <1>4, <1>5 DEF Inv

\* The end of a cleanup frees the row that stands behind its fence, and no other.
LEMMA FinishCleanupKeeps ==
  ASSUME SlotAssumption, Inv, NEW r \in Run, FinishCleanup(r)
  PROVE  Inv'
  <1>1. Shape'
    BY TagZero, RowUpdates, IdleRecords DEF Inv, Shape, FinishCleanup, Rows, Claims, Releases,
       Cleanups, Observations, ChainFree, counters, Modes, Owner, Releasing
  <1>2. RowInv'
    BY DEF Inv, RowInv, FinishCleanup, Releasing, ChainFree, Held, Reset, counters
  <1>3. ReleaseInv'
    BY DEF Inv, ReleaseInv, CleanupInv, FinishCleanup, Behind, Releasing, ChainFree, Current, counters
  <1>4. StaleInv'
    BY DEF Inv, StaleInv, FinishCleanup, Releasing, ChainFree, Held, Reset, counters
  <1>5. StrayInv'
    BY DEF Inv, StrayInv, CleanupInv, FinishCleanup, Behind, Releasing, ChainFree, Current, Overruns,
       counters
  <1>6. ASSUME NEW p \in Run PROVE CleanupInv(p)'
    BY DEF Inv, Shape, CleanupInv, FinishCleanup, Rows, Claims, Releases, Cleanups, Observations,
       Releasing, Behind, ChainFree, Current, Held, Reset, NoCleanup, counters, Modes, Owner
  <1>7. ASSUME NEW p \in Run PROVE ClaimInv(p)'
    BY DEF Inv, ClaimInv, FinishCleanup, ChainFree, Held, Reset, counters, Releasing
  <1>8. \A p \in Run : RunInv(p)'
    <2>1. cl' = [cl EXCEPT ![r] = NoCleanup]
      BY DEF FinishCleanup
    <2>2. ASSUME NEW p \in Run, status[p] = "working", p \notin adrift PROVE row' = row
      BY <2>2, TagZero DEF Inv, RunInv, FinishCleanup, Current, Owns, Holds
    <2>3. \A p \in given' : p \in given \/ p \in reclaimed
      BY DEF Inv, CleanupInv, FinishCleanup
    <2> QED
      BY <2>1, <2>2, <2>3 DEF Inv, Shape, RunInv, FinishCleanup, NoCleanup, counters, history, Dead, Holds
  <1> QED
    BY <1>1, <1>2, <1>3, <1>4, <1>5, <1>6, <1>7, <1>8 DEF Inv

\* A cleanup that failed holds the slot, with the mark if a stop was not confirmed.
LEMMA SettleCleanupKeeps ==
  ASSUME SlotAssumption, Inv, NEW r \in Run, SettleCleanup(r)
  PROVE  Inv'
  <1>1. Shape'
    <2>1. row' \in Rows
      <3>1. row \in Rows /\ Held \in Rows
        BY RowUpdates DEF Inv, Shape
      <3>2. \A u \in BOOLEAN :
              [Held EXCEPT !.owner = None, !.cleanup = r, !.unsure = row.unsure \/ u] \in Rows
        BY <3>1 DEF Rows, Owner
      <3> QED
        BY <3>1, <3>2 DEF SettleCleanup
    <2>2. cl' \in [Run -> Cleanups]
      BY TagZero DEF Inv, Shape, Cleanups, SettleCleanup, NoCleanup
    <2> QED
      BY <2>1, <2>2 DEF Inv, Shape, SettleCleanup, counters, history
  <1>2. RowInv'
    BY DEF Inv, RowInv, SettleCleanup, Releasing, ChainFree, Held, counters, history
  <1>3. ReleaseInv'
    BY DEF Inv, ReleaseInv, CleanupInv, SettleCleanup, Behind, Releasing, ChainFree, Current, counters,
       history
  <1>4. StaleInv'
    BY DEF Inv, StaleInv, SettleCleanup, Releasing, ChainFree, Held, counters, history
  <1>5. StrayInv'
    BY DEF Inv, Shape, StrayInv, CleanupInv, SettleCleanup, Rows, Claims, Releases, Cleanups,
       Observations, Behind, Releasing, ChainFree, Current, Held, counters, history, Modes, Owner
  <1>6. ASSUME NEW p \in Run PROVE CleanupInv(p)'
    BY DEF Inv, Shape, CleanupInv, SettleCleanup, Rows, Claims, Releases, Cleanups, Observations,
       Releasing, Behind, ChainFree, Current, Held, NoCleanup, counters, history, Modes, Owner
  <1>7. ASSUME NEW p \in Run PROVE ClaimInv(p)'
    BY DEF Inv, ClaimInv, SettleCleanup, ChainFree, Held, counters, history, Releasing
  <1>8. \A p \in Run : RunInv(p)'
    <2>1. cl' = [cl EXCEPT ![r] = NoCleanup]
      BY DEF SettleCleanup
    <2>2. ASSUME NEW p \in Run, status[p] = "working", p \notin adrift PROVE row' = row
      BY <2>2, TagZero DEF Inv, RunInv, SettleCleanup, Current, Owns, Holds
    <2>3. status' = status /\ adrift' = adrift /\ rp' = rp /\ reclaimed' = reclaimed /\ given' = given
      BY DEF SettleCleanup, history
    <2> QED
      BY <2>1, <2>2, <2>3 DEF Inv, Shape, RunInv, NoCleanup, Dead, Holds
  <1> QED
    BY <1>1, <1>2, <1>3, <1>4, <1>5, <1>6, <1>7, <1>8 DEF Inv

\* A reclaim starts the cleanup of the cancelled owner only, which is then never revived.
LEMMA ReclaimKeeps ==
  ASSUME SlotAssumption, Inv, NEW q \in Run, NEW r \in Run, Reclaim(q, r)
  PROVE  Inv'
  <1>1. Shape'
    BY TagZero, RowUpdates DEF Inv, Shape, Reclaim, Rows, Claims, Releases, Cleanups, Observations,
       Releasing, StartCleanup, counters, history, Modes, Owner
  <1>2. ASSUME NEW p \in Run PROVE CleanupInv(p)'
    BY DEF Inv, CleanupInv, Reclaim, Releasing, Behind, StartCleanup, counters, history
  <1>3. ASSUME NEW p \in Run PROVE ClaimInv(p)'
    BY DEF Inv, ClaimInv, Reclaim, Releasing, StartCleanup, counters, history
  <1>4. ASSUME NEW p \in Run PROVE RunInv(p)'
    BY DEF Inv, Shape, RunInv, Reclaim, Rows, Claims, Releases, Cleanups, Observations, Dead, Holds,
       Locked, Releasing, StartCleanup, counters, history, Modes, Owner
  <1>5. RowInv' /\ ReleaseInv' /\ StaleInv' /\ StrayInv'
    BY DEF Inv, RowInv, ReleaseInv, StaleInv, StrayInv, Releasing, Behind, Reclaim, counters, history
  <1> QED
    BY <1>1, <1>2, <1>3, <1>4, <1>5 DEF Inv

\* A release begins behind a fence of its own, once no unconfirmed command is left.
LEMMA StartReleaseKeeps ==
  ASSUME SlotAssumption, Inv, StartRelease
  PROVE  Inv'
  <1>1. Shape'
    BY RowUpdates, FenceIsFresh DEF Inv, Shape, StartRelease, Rows, Claims, Releases, Cleanups,
       Observations, ChainFree, Releasing, Dead, history, Modes, Owner
  <1>2. RowInv'
    BY FenceIsFresh DEF Inv, RowInv, StartRelease, Releasing, ChainFree, Dead, Fenced, history
  <1>3. ReleaseInv'
    BY FenceIsFresh DEF Inv, RowInv, ReleaseInv, StartRelease, Releasing, Behind, ChainFree, Dead,
       Fenced, history
  <1>4. StaleInv'
    BY FenceIsFresh DEF Inv, StaleInv, StartRelease, Releasing, ChainFree, Dead, Fenced, history
  <1>5. StrayInv'
    BY DEF Inv, StrayInv, StartRelease, Behind, ChainFree, Releasing, Dead, history
  <1>6. ASSUME NEW p \in Run PROVE CleanupInv(p)'
    BY FenceIsFresh DEF Inv, CleanupInv, StartRelease, Releasing, Behind, ChainFree, Dead, Fenced,
       history
  <1>7. ASSUME NEW p \in Run PROVE ClaimInv(p)'
    BY DEF Inv, ClaimInv, StartRelease, ChainFree, Releasing, Dead, Fenced, history
  <1>8. \A p \in Run : RunInv(p)'
    <2>1. \A p \in Run : status[p] = "working" /\ p \notin adrift => Holds(p) /\ p # None /\ ~Dead(p)
      BY TagZero DEF Inv, RunInv, Dead
    <2>2. \A p \in Run : status[p] = "working" => p \in adrift
      BY <2>1 DEF StartRelease, Releasable, Holds
    <2> QED
      BY <2>2 DEF Inv, RunInv, StartRelease, history, Dead, Holds
  <1> QED
    BY <1>1, <1>2, <1>3, <1>4, <1>5, <1>6, <1>7, <1>8 DEF Inv

\* The next step of a release changes nothing but how far it is.
LEMMA ReleaseGoesOnKeeps ==
  ASSUME SlotAssumption, Inv, ReleaseGoesOn
  PROVE  Inv'
  <1>1. Shape'
    BY RowUpdates DEF Inv, Shape, ReleaseInv, ReleaseGoesOn, Rows, Claims, Releases, Cleanups,
       Observations, Behind, counters, history, Modes, Owner, Releasing, Dead
  <1>2. ReleaseInv'
    BY DEF Inv, ReleaseInv, ReleaseGoesOn, Behind, counters, history, Releasing, Dead
  <1>3. StaleInv'
    BY DEF Inv, StaleInv, ReleaseGoesOn, Releasing, counters, history, Dead
  <1>4. ASSUME NEW p \in Run PROVE CleanupInv(p)'
    BY DEF Inv, CleanupInv, ReleaseGoesOn, Releasing, Behind, counters, history, Dead
  <1>5. RowInv' /\ StrayInv' /\ (\A p \in Run : ClaimInv(p)' /\ RunInv(p)')
    BY DEF Inv, RowInv, StrayInv, ClaimInv, RunInv, Releasing, Behind, Dead, Holds, ReleaseGoesOn,
       counters, history
  <1> QED
    BY <1>1, <1>2, <1>3, <1>4, <1>5 DEF Inv

\* A release that may not go on gives back a row that still carries its fence.
LEMMA ReleaseLostKeeps ==
  ASSUME SlotAssumption, Inv, ReleaseLost
  PROVE  Inv'
  <1>1. Shape'
    <2>1. row' \in Rows
      BY DEF Inv, Shape, Rows, Releases, Modes, ReleaseLost
    <2> QED
      BY <2>1, IdleRecords DEF Inv, Shape, ReleaseLost, counters, history
  <1>2. RowInv'
    BY DEF Inv, Shape, RowInv, ReleaseInv, ReleaseLost, Rows, Claims, Releases, Cleanups, Observations,
       Releasing, Behind, MayRelease, Releasable, ChainFree, NoRelease, counters, history, Modes, Owner, Dead
  <1>3. ReleaseInv'
    BY DEF Inv, ReleaseInv, ReleaseLost, Behind, ChainFree, NoRelease, counters, history, Releasing,
       Dead
  <1>4. StaleInv'
    BY DEF Inv, StaleInv, ReleaseLost, Releasing, ChainFree, NoRelease, counters, history, Dead
  <1>5. StrayInv'
    BY DEF Inv, ReleaseInv, StrayInv, ReleaseLost, Behind, ChainFree, NoRelease, counters, history,
       Releasing, Dead
  <1>6. ASSUME NEW p \in Run PROVE CleanupInv(p)'
    BY DEF Inv, ReleaseInv, CleanupInv, ReleaseLost, Behind, Releasing, ChainFree, NoRelease, counters,
       history, Dead
  <1>7. ASSUME NEW p \in Run PROVE ClaimInv(p)'
    BY DEF Inv, ClaimInv, ReleaseLost, ChainFree, NoRelease, counters, history, Dead, Releasing
  <1>8. ASSUME NEW p \in Run PROVE RunInv(p)'
    BY DEF Inv, RunInv, ReleaseLost, Dead, Holds, ChainFree, Claimed, NoRelease, counters, history,
       Releasing
  <1> QED
    BY <1>1, <1>2, <1>3, <1>4, <1>5, <1>6, <1>7, <1>8 DEF Inv

\* A command of a release that ended leaves the row to the next one.
LEMMA ReleaseStepEndsKeeps ==
  ASSUME SlotAssumption, Inv, ReleaseStepEnds
  PROVE  Inv'
  <1>1. Shape'
    BY SMTT(20), RowUpdates DEF Inv, Shape, RowInv, ReleaseStepEnds, Rows, Claims, Releases, Cleanups,
       Observations, Releasing, counters, history, Modes, Owner
  <1>2. ReleaseInv'
    BY DEF Inv, ReleaseInv, ReleaseStepEnds, Behind, counters, history, Releasing
  <1>3. StaleInv'
    BY DEF Inv, StaleInv, ReleaseStepEnds, Releasing, counters, history
  <1>4. ASSUME NEW p \in Run PROVE CleanupInv(p)'
    BY DEF Inv, CleanupInv, ReleaseStepEnds, Releasing, Behind, counters, history
  <1>5. RowInv' /\ StrayInv' /\ (\A p \in Run : ClaimInv(p)' /\ RunInv(p)')
    BY DEF Inv, RowInv, StrayInv, ClaimInv, RunInv, Releasing, Behind, Dead, Holds, ReleaseStepEnds,
       counters, history
  <1> QED
    BY <1>1, <1>2, <1>3, <1>4, <1>5 DEF Inv

\* A release that failed holds the slot, which it alone may settle.
LEMMA HoldReleaseKeeps ==
  ASSUME SlotAssumption, Inv, HoldRelease
  PROVE  Inv'
  <1>1. Shape'
    BY RowUpdates, IdleRecords DEF Inv, Shape, HoldRelease, Rows, Claims, Releases, Cleanups,
       Observations, ChainFree, counters, history, Modes, Owner, Dead, Releasing
  <1>2. RowInv'
    BY DEF Inv, RowInv, HoldRelease, Releasing, ChainFree, Held, NoRelease, counters, history, Dead
  <1>3. ReleaseInv'
    BY DEF Inv, ReleaseInv, HoldRelease, Behind, ChainFree, NoRelease, counters, history, Releasing,
       Dead
  <1>4. StaleInv'
    BY DEF Inv, StaleInv, HoldRelease, Releasing, ChainFree, Held, NoRelease, counters, history, Dead
  <1>5. StrayInv'
    BY DEF Inv, ReleaseInv, StrayInv, HoldRelease, Behind, ChainFree, NoRelease, counters, history,
       Releasing, Dead
  <1>6. ASSUME NEW p \in Run PROVE CleanupInv(p)'
    BY DEF Inv, ReleaseInv, CleanupInv, HoldRelease, Behind, Releasing, ChainFree, Held, NoRelease,
       counters, history, Dead
  <1>7. ASSUME NEW p \in Run PROVE ClaimInv(p)'
    BY DEF Inv, ClaimInv, HoldRelease, ChainFree, Held, NoRelease, counters, history, Dead, Releasing
  <1>8. ASSUME NEW p \in Run PROVE RunInv(p)'
    BY DEF Inv, RunInv, HoldRelease, Dead, Holds, MayRelease, ChainFree, NoRelease, counters, history,
       Claimed, Releasing
  <1> QED
    BY <1>1, <1>2, <1>3, <1>4, <1>5, <1>6, <1>7, <1>8 DEF Inv

\* A release that is refused behind its fence makes the row busy again.
LEMMA RefuseReleaseKeeps ==
  ASSUME SlotAssumption, Inv, RefuseRelease
  PROVE  Inv'
  <1>1. Shape'
    <2>1. row' \in Rows
      BY DEF Inv, Shape, Rows, Modes, RefuseRelease
    <2> QED
      BY <2>1, IdleRecords DEF Inv, Shape, RefuseRelease, counters, history
  <1>2. RowInv'
    BY DEF Inv, RowInv, RefuseRelease, Releasing, ChainFree, NoRelease, counters, history
  <1>3. ReleaseInv'
    BY DEF Inv, ReleaseInv, RefuseRelease, Behind, ChainFree, NoRelease, counters, history, Releasing
  <1>4. StaleInv'
    BY DEF Inv, StaleInv, RefuseRelease, Releasing, ChainFree, NoRelease, counters, history
  <1>5. StrayInv'
    BY DEF Inv, ReleaseInv, StrayInv, RefuseRelease, Behind, ChainFree, NoRelease, counters, history,
       Releasing
  <1>6. ASSUME NEW p \in Run PROVE CleanupInv(p)'
    BY DEF Inv, ReleaseInv, CleanupInv, RefuseRelease, Behind, Releasing, ChainFree, NoRelease,
       counters, history
  <1>7. ASSUME NEW p \in Run PROVE ClaimInv(p)'
    BY DEF Inv, ClaimInv, RefuseRelease, ChainFree, NoRelease, counters, history
  <1>8. ASSUME NEW p \in Run PROVE RunInv(p)'
    BY DEF Inv, RunInv, RefuseRelease, Dead, Holds, ChainFree, NoRelease, counters, history
  <1> QED
    BY <1>1, <1>2, <1>3, <1>4, <1>5, <1>6, <1>7, <1>8 DEF Inv

\* A release clears the owner behind its fence.
LEMMA ClearReleaseKeeps ==
  ASSUME SlotAssumption, Inv, ClearRelease
  PROVE  Inv'
  <1>1. Shape'
    BY TagZero, RowUpdates, IdleRecords, SMTT(60) DEF Inv, Shape, RowInv, ReleaseInv, ClaimInv,
       ClearRelease, Rows, Claims, Releases, Cleanups, Observations, Releasing, Behind, Dead,
       ChainFree, counters, history, Modes, Owner
  <1>2. RowInv'
    BY DEF Inv, Shape, RowInv, ClearRelease, Rows, Claims, Releases, Cleanups, Observations, Releasing,
       ChainFree, NoRelease, counters, history, Modes, Owner
  <1>3. ReleaseInv'
    BY DEF Inv, Shape, ReleaseInv, ClearRelease, Rows, Claims, Releases, Cleanups, Observations,
       Behind, ChainFree, NoRelease, counters, history, Modes, Owner, Releasing
  <1>4. StaleInv'
    BY DEF Inv, Shape, ReleaseInv, StaleInv, ClearRelease, Rows, Claims, Releases, Cleanups,
       Observations, Behind, Releasing, ChainFree, NoRelease, counters, history, Modes, Owner
  <1>5. StrayInv'
    BY DEF Inv, Shape, StrayInv, ClearRelease, Rows, Claims, Releases, Cleanups, Observations, Behind,
       ChainFree, NoRelease, counters, history, Modes, Owner, Releasing
  <1>6. ASSUME NEW p \in Run PROVE CleanupInv(p)'
    BY DEF Inv, Shape, ReleaseInv, CleanupInv, ClearRelease, Rows, Claims, Releases, Cleanups,
       Observations, Behind, Releasing, ChainFree, NoRelease, counters, history, Modes, Owner
  <1>7. ASSUME NEW p \in Run PROVE ClaimInv(p)'
    BY DEF Inv, Shape, ClaimInv, ClearRelease, Rows, Claims, Releases, Cleanups, Observations,
       ChainFree, NoRelease, counters, history, Modes, Owner
  <1>8. ASSUME NEW p \in Run PROVE RunInv(p)'
    BY DEF Inv, ReleaseInv, RunInv, ClearRelease, Behind, Dead, Holds, ChainFree, NoRelease, counters,
       history, Releasing
  <1> QED
    BY <1>1, <1>2, <1>3, <1>4, <1>5, <1>6, <1>7, <1>8 DEF Inv

\* A finished release frees the slot that stands behind its fence.
LEMMA FinishReleaseKeeps ==
  ASSUME SlotAssumption, Inv, FinishRelease
  PROVE  Inv'
  <1>1. Shape'
    BY RowUpdates, IdleRecords DEF Inv, Shape, FinishRelease, Rows, Claims, Releases, Cleanups,
       Observations, ChainFree, counters, history, Modes, Owner
  <1>2. RowInv'
    BY DEF Inv, RowInv, FinishRelease, Releasing, ChainFree, Reset, NoRelease, counters, history
  <1>3. ReleaseInv'
    BY DEF Inv, ReleaseInv, FinishRelease, Behind, ChainFree, NoRelease, counters, history, Releasing
  <1>4. StaleInv'
    BY DEF Inv, StaleInv, FinishRelease, Releasing, ChainFree, Reset, NoRelease, counters, history
  <1>5. StrayInv'
    BY DEF Inv, ReleaseInv, StrayInv, FinishRelease, Behind, ChainFree, NoRelease, counters, history,
       Releasing
  <1>6. ASSUME NEW p \in Run PROVE CleanupInv(p)'
    BY DEF Inv, ReleaseInv, CleanupInv, FinishRelease, Behind, Releasing, ChainFree, Reset, NoRelease,
       counters, history
  <1>7. ASSUME NEW p \in Run PROVE ClaimInv(p)'
    BY DEF Inv, ClaimInv, FinishRelease, ChainFree, Reset, NoRelease, counters, history
  <1>8. ASSUME NEW p \in Run PROVE RunInv(p)'
    BY DEF Inv, ReleaseInv, RunInv, FinishRelease, Behind, Dead, Holds, ChainFree, NoRelease, counters,
       history, Releasing
  <1> QED
    BY <1>1, <1>2, <1>3, <1>4, <1>5, <1>6, <1>7, <1>8 DEF Inv

\* A release that is cut off leaves at most its own command behind its fence.
LEMMA TimeOutKeeps ==
  ASSUME SlotAssumption, Inv, TimeOut
  PROVE  Inv'
  <1>1. Shape'
    BY SMTT(20), TagZero, RowUpdates
       DEF Inv, Shape, RowInv, ReleaseInv, CleanupInv, ClaimInv, RunInv, TimeOut,
       Rows, Claims, Releases, Cleanups, Observations, Releasing, Behind, Dead, counters, history,
       Modes, Owner
  <1>2. ReleaseInv'
    BY DEF Inv, ReleaseInv, TimeOut, Behind, counters, history, Releasing
  <1>3. StaleInv'
    BY DEF Inv, ReleaseInv, StaleInv, TimeOut, Behind, Releasing, counters, history
  <1>4. StrayInv'
    BY DEF Inv, ReleaseInv, StrayInv, TimeOut, Behind, counters, history, Releasing
  <1>5. ASSUME NEW p \in Run PROVE CleanupInv(p)'
    BY DEF Inv, CleanupInv, TimeOut, Releasing, Behind, counters, history
  <1>6. RowInv' /\ (\A p \in Run : ClaimInv(p)' /\ RunInv(p)')
    BY DEF Inv, RowInv, ClaimInv, RunInv, Releasing, Dead, Holds, TimeOut, counters, history
  <1> QED
    BY <1>1, <1>2, <1>3, <1>4, <1>5, <1>6 DEF Inv

\* What a timed-out release leaves is held, with the mark if its command may go on.
LEMMA RecoverKeeps ==
  ASSUME SlotAssumption, Inv, Recover
  PROVE  Inv'
  <1>1. Shape'
    <2>1. row' \in Rows
      BY TagZero DEF Inv, Shape, Rows, Releases, Owner, Modes, Recover, Held
    <2>2. rel' \in Releases
      BY TagZero DEF Inv, Shape, Owner, Modes, Recover, NoRelease, Releases
    <2> QED
      BY <2>1, <2>2 DEF Inv, Shape, Recover, counters, history
  <1>2. RowInv'
    BY DEF Inv, RowInv, Recover, Releasing, ChainFree, Held, NoRelease, counters, history
  <1>3. ReleaseInv'
    BY DEF Inv, ReleaseInv, Recover, Behind, ChainFree, Releasing, NoRelease, counters, history
  <1>4. StaleInv'
    BY DEF Inv, StaleInv, Recover, Releasing, ChainFree, Held, NoRelease, counters, history
  <1>5. StrayInv'
    BY DEF Inv, StrayInv, Recover, Behind, ChainFree, Releasing, Held, NoRelease, counters, history
  <1>6. ASSUME NEW p \in Run PROVE CleanupInv(p)'
    BY DEF Inv, CleanupInv, Recover, Releasing, Behind, ChainFree, Held, NoRelease, counters, history
  <1>7. ASSUME NEW p \in Run PROVE ClaimInv(p)'
    BY DEF Inv, ClaimInv, Recover, ChainFree, Releasing, Held, NoRelease, counters, history
  <1>8. ASSUME NEW p \in Run PROVE RunInv(p)'
    BY DEF Inv, RunInv, Recover, Dead, Holds, ChainFree, Releasing, NoRelease, counters, history
  <1> QED
    BY <1>1, <1>2, <1>3, <1>4, <1>5, <1>6, <1>7, <1>8 DEF Inv

\* A replay begins for a run that has ended, a cancelled one under its lock and not given away.
LEMMA BeginReplayKeeps ==
  ASSUME SlotAssumption, Inv, NEW r \in Run, BeginReplay(r)
  PROVE  Inv'
  <1>1. Shape'
    BY RowUpdates DEF Inv, Shape, BeginReplay, Rows, Claims, Releases, Cleanups, Observations, Dead,
       history, Modes, Owner
  <1>2. ASSUME NEW p \in Run PROVE ClaimInv(p)'
    BY DEF Inv, ClaimInv, BeginReplay, Dead, Locked, history
  <1>3. ASSUME NEW p \in Run PROVE RunInv(p)'
    BY DEF Inv, RunInv, BeginReplay, Dead, Holds, Locked, history
  <1>4. RowInv' /\ ReleaseInv' /\ StaleInv' /\ StrayInv' /\ (\A p \in Run : CleanupInv(p)')
    BY DEF Inv, RowInv, ReleaseInv, StaleInv, StrayInv, CleanupInv, Releasing, Behind, BeginReplay,
       history
  <1> QED
    BY <1>1, <1>2, <1>3, <1>4 DEF Inv

\* A replay's claim gives it the slot, with an epoch that no claim to be undone has.
LEMMA ClaimReplayKeeps ==
  ASSUME SlotAssumption, Inv, NEW r \in Run, ClaimReplay(r)
  PROVE  Inv'
  <1>1. CASE ~Replayable(r) \/ status[r] = "closed"
    <2>1. row' = row /\ rp' = [rp EXCEPT ![r] = "idle"]
      BY <1>1 DEF ClaimReplay
    <2>2. Shape' /\ RowInv' /\ ReleaseInv' /\ StaleInv' /\ StrayInv'
      BY <2>1 DEF Inv, Shape, RowInv, ReleaseInv, StaleInv, StrayInv, ClaimReplay, counters, history,
         Releasing, Behind
    <2>3. ASSUME NEW p \in Run PROVE CleanupInv(p)' /\ ClaimInv(p)' /\ RunInv(p)'
      BY <2>1 DEF Inv, Shape, CleanupInv, ClaimInv, RunInv, ClaimReplay, counters, history, Releasing,
         Behind, Dead, Holds
    <2> QED
      BY <2>2, <2>3 DEF Inv
  <1>2. CASE Replayable(r) /\ status[r] # "closed"
    <2>1. PICK e \in Tag : /\ row' = ClaimedBy(r, e) /\ rp' = [rp EXCEPT ![r] = "claimed"]
                           /\ \A p \in Run : e # claim[p].epoch
      BY <1>2, EpochIsFresh DEF ClaimReplay, Inv
    <2>2. /\ row'.mode = "busy" /\ row'.owner = r /\ row'.epoch = e /\ row'.fence = row.fence
          /\ row'.unsure = row.unsure
      BY <2>1 DEF Inv, Shape, Rows, ClaimedBy
    <2>3. row' \in Rows
      BY <2>1, RowUpdates DEF Inv
    <2>4. Shape'
      BY <2>1, <2>3 DEF Inv, Shape, ClaimReplay, counters, history
    <2>5. RowInv'
      BY <2>2 DEF RowInv, Releasing
    <2>6. rel.at = "idle"
      BY <1>2 DEF Inv, ReleaseInv, Replayable, Behind
    <2>7. ReleaseInv' /\ StaleInv'
      BY <2>6, <2>2 DEF Inv, ReleaseInv, StaleInv, ClaimReplay, counters, history, Releasing, Behind
    <2>8. StrayInv'
      BY <1>2, <2>2, TagZero DEF Inv, StrayInv, ClaimReplay, Replayable, counters, history, Releasing, Behind
    <2>9. ASSUME NEW p \in Run PROVE CleanupInv(p)'
      BY <1>2, <2>2 DEF Inv, CleanupInv, ClaimReplay, Replayable, counters, history, Releasing, Behind
    <2>10. ASSUME NEW p \in Run PROVE ClaimInv(p)'
      BY <1>2, <2>1, <2>2 DEF Inv, Shape, ClaimInv, RunInv, ClaimReplay, Replayable, ChainFree,
         counters, history, Dead
    <2>11. ASSUME NEW p \in Run PROVE RunInv(p)'
      BY <1>2, <2>1, <2>2 DEF Inv, Shape, RunInv, ClaimReplay, Replayable, Locked, counters, history,
         Dead, Holds
    <2> QED
      BY <2>4, <2>5, <2>7, <2>8, <2>9, <2>10, <2>11 DEF Inv
  <1> QED
    BY <1>1, <1>2

\* A revived run works with the slot its replay claimed, or is counted as adrift.
LEMMA ReviveKeeps ==
  ASSUME SlotAssumption, Inv, NEW r \in Run, Revive(r)
  PROVE  Inv'
  <1>1. Shape'
    BY RowUpdates DEF Inv, Shape, Revive, Rows, Claims, Releases, Cleanups, Observations, ChainFree,
       counters, Modes, Owner
  <1>2. ASSUME NEW p \in Run PROVE CleanupInv(p)'
    BY DEF Inv, CleanupInv, Revive, Releasing, Behind, ChainFree, counters
  <1>3. ASSUME NEW p \in Run PROVE ClaimInv(p)'
    BY DEF Inv, ClaimInv, RunInv, Revive, Dead, ChainFree, counters
  <1>4. ASSUME NEW p \in Run PROVE RunInv(p)'
    BY DEF Inv, Shape, RunInv, Revive, Rows, Claims, Releases, Cleanups, Observations, Dead, Holds,
       InFlight, ChainFree, counters, Modes, Owner
  <1>5. RowInv' /\ ReleaseInv' /\ StaleInv' /\ StrayInv'
    BY DEF Inv, RowInv, ReleaseInv, StaleInv, StrayInv, Releasing, Behind, Revive, counters
  <1> QED
    BY <1>1, <1>2, <1>3, <1>4, <1>5 DEF Inv

\* A held slot's cleanup is tried again by its own run only.
LEMMA RetryOccupiedKeeps ==
  ASSUME SlotAssumption, Inv, NEW r \in Run, RetryOccupied(r)
  PROVE  Inv'
  <1>1. Shape'
    BY TagZero, RowUpdates DEF Inv, Shape, RetryOccupied, Rows, Claims, Releases, Cleanups,
       Observations, Dead, StartCleanup, counters, history, Modes, Owner
  <1>2. ASSUME NEW p \in Run PROVE CleanupInv(p)'
    BY DEF Inv, CleanupInv, RetryOccupied, Releasing, Behind, Dead, StartCleanup, counters, history
  <1>3. ASSUME NEW p \in Run PROVE ClaimInv(p)'
    BY DEF Inv, ClaimInv, RetryOccupied, Dead, counters, history
  <1>4. ASSUME NEW p \in Run PROVE RunInv(p)'
    BY DEF Inv, RunInv, RetryOccupied, Dead, Holds, StartCleanup, counters, history
  <1>5. RowInv' /\ ReleaseInv' /\ StaleInv' /\ StrayInv'
    BY DEF Inv, RowInv, ReleaseInv, StaleInv, StrayInv, Releasing, Behind, RetryOccupied, counters,
       history
  <1> QED
    BY <1>1, <1>2, <1>3, <1>4, <1>5 DEF Inv

\* The reconciler reads the row of a fence that is old, or of an orphan.
LEMMA ObserveKeeps ==
  ASSUME SlotAssumption, Inv, Observe
  PROVE  Inv'
  <1>1. Shape'
    BY TagZero, RowUpdates DEF Inv, Shape, Observe, Rows, Claims, Releases, Cleanups, Observations,
       Releasing, counters, history, Modes, Owner
  <1>2. StaleInv'
    BY DEF Inv, RowInv, ReleaseInv, StaleInv, Observe, Releasing, Behind, counters, history
  <1>3. ASSUME NEW p \in Run PROVE CleanupInv(p)'
    BY DEF Inv, CleanupInv, Observe, Releasing, Behind, counters, history
  <1>4. RowInv' /\ ReleaseInv' /\ StrayInv' /\ (\A p \in Run : ClaimInv(p)' /\ RunInv(p)')
    BY DEF Inv, RowInv, ReleaseInv, StrayInv, ClaimInv, RunInv, Releasing, Behind, Dead, Holds,
       Observe, counters, history
  <1> QED
    BY <1>1, <1>2, <1>3, <1>4 DEF Inv

\* The reconciler takes back the fence it read, whose command has ended.
LEMMA ReclaimFenceKeeps ==
  ASSUME SlotAssumption, Inv, ReclaimFence
  PROVE  Inv'
  <1>1. Shape'
    BY RowUpdates, IdleRecords DEF Inv, Shape, ReclaimFence, Rows, Claims, Releases, Cleanups,
       Observations, ChainFree, Releasing, counters, history, Modes, Owner
  <1>2. RowInv'
    BY DEF Inv, RowInv, ReclaimFence, Releasing, ChainFree, Reset, counters, history
  <1>3. ReleaseInv'
    BY DEF Inv, ReleaseInv, StaleInv, ReclaimFence, Behind, Releasing, ChainFree, counters, history
  <1>4. StaleInv'
    BY DEF Inv, StaleInv, ReclaimFence, Releasing, ChainFree, Reset, NoObservation, counters, history
  <1>5. StrayInv'
    BY DEF Inv, StaleInv, StrayInv, ReclaimFence, Releasing, Behind, ChainFree, counters, history
  <1>6. ASSUME NEW p \in Run PROVE CleanupInv(p)'
    BY DEF Inv, CleanupInv, ReclaimFence, Releasing, Behind, ChainFree, Reset, NoObservation, counters,
       history
  <1>7. ASSUME NEW p \in Run PROVE ClaimInv(p)'
    BY DEF Inv, ClaimInv, ReclaimFence, ChainFree, Releasing, Reset, counters, history
  <1>8. ASSUME NEW p \in Run PROVE RunInv(p)'
    BY DEF Inv, RunInv, ReclaimFence, Dead, Holds, ChainFree, Releasing, counters, history
  <1> QED
    BY <1>1, <1>2, <1>3, <1>4, <1>5, <1>6, <1>7, <1>8 DEF Inv

\* The reconciler frees the orphan it read unless the row changed.
LEMMA ResetOrphanKeeps ==
  ASSUME SlotAssumption, Inv, ResetOrphan
  PROVE  Inv'
  <1>1. Shape'
    BY RowUpdates, IdleRecords DEF Inv, Shape, ResetOrphan, Rows, Claims, Releases, Cleanups,
       Observations, ChainFree, counters, history, Modes, Owner
  <1>2. RowInv'
    BY DEF Inv, RowInv, ResetOrphan, Releasing, ChainFree, Reset, counters, history
  <1>3. ReleaseInv'
    BY DEF Inv, ReleaseInv, ResetOrphan, Behind, ChainFree, counters, history, Releasing
  <1>4. StaleInv'
    BY DEF Inv, StaleInv, ResetOrphan, Releasing, ChainFree, Reset, NoObservation, counters, history
  <1>5. StrayInv'
    BY DEF Inv, StrayInv, ResetOrphan, Behind, ChainFree, counters, history, Releasing
  <1>6. ASSUME NEW p \in Run PROVE CleanupInv(p)'
    BY DEF Inv, CleanupInv, ResetOrphan, Releasing, Behind, ChainFree, Reset, NoObservation, counters,
       history
  <1>7. ASSUME NEW p \in Run PROVE ClaimInv(p)'
    BY DEF Inv, ClaimInv, ResetOrphan, ChainFree, Reset, counters, history
  <1>8. ASSUME NEW p \in Run PROVE RunInv(p)'
    BY DEF Inv, RunInv, ResetOrphan, Dead, Holds, ChainFree, Bound, counters, history
  <1> QED
    BY <1>1, <1>2, <1>3, <1>4, <1>5, <1>6, <1>7, <1>8 DEF Inv

\* A fence grows old only after the commands behind it have ended.
LEMMA AgeKeeps ==
  ASSUME SlotAssumption, Inv, Age
  PROVE  Inv'
  <1>1. Shape'
    <2>1. row' \in Rows
      BY DEF Inv, Shape, Rows, Age
    <2> QED
      BY <2>1 DEF Inv, Shape, Age, memory, counters, history
  <1>2. RowInv'
    BY DEF Inv, RowInv, Age, Releasing, counters, history
  <1>3. ReleaseInv'
    BY DEF Inv, ReleaseInv, Age, Behind, Releasing, memory, counters, history
  <1>4. StaleInv'
    BY DEF Inv, StaleInv, Age, Releasing, memory, counters, history
  <1>5. StrayInv'
    BY DEF Inv, StrayInv, Age, Behind, Releasing, counters, history
  <1>6. ASSUME NEW p \in Run PROVE CleanupInv(p)'
    BY DEF Inv, CleanupInv, Age, Releasing, Behind, memory, counters, history
  <1>7. ASSUME NEW p \in Run PROVE ClaimInv(p)'
    BY DEF Inv, ClaimInv, Age, Releasing, memory, counters, history
  <1>8. ASSUME NEW p \in Run PROVE RunInv(p)'
    BY DEF Inv, RunInv, Age, Dead, Holds, Releasing, memory, counters, history
  <1> QED
    BY <1>1, <1>2, <1>3, <1>4, <1>5, <1>6, <1>7, <1>8 DEF Inv

\* A crash forgets every claim, teardown and replay, and leaves at most a command behind the fence.
LEMMA CrashKeeps ==
  ASSUME SlotAssumption, Inv, Crash
  PROVE  Inv'
  <1>1. /\ claim' = [r \in Run |-> NoClaim] /\ rel' = NoRelease /\ rec' = NoObservation
        /\ cl' = [r \in Run |-> NoCleanup] /\ rp' = [r \in Run |-> "idle"]
        /\ status' = status /\ reclaimed' = reclaimed
        /\ given' = given /\ adrift' = adrift /\ unheeded' = unheeded
    BY DEF Crash, history
  <1>2. stray' \in Tag /\ (stray' # stray => stray' # 0 /\ Behind(stray') /\ ~row.old)
    BY DEF Inv, Shape, Releases, Cleanups, ReleaseInv, CleanupInv, Crash, Behind
  <1>3. /\ NoClaim \in Claims /\ NoRelease \in Releases
        /\ NoCleanup \in Cleanups /\ NoObservation \in Observations
    BY IdleRecords
  <1>4. ASSUME row' \in Rows PROVE Shape'
    BY <1>1, <1>2, <1>3, <1>4 DEF Inv, Shape
  <1>5. ReleaseInv' /\ \A p \in Run : CleanupInv(p)'
    BY <1>1 DEF ReleaseInv, CleanupInv, NoRelease, NoCleanup
  <1>6. CASE row' = row
    <2>1. Shape' /\ RowInv'
      BY <1>4, <1>6 DEF Inv, Shape, RowInv, Releasing
    <2>2. StaleInv' /\ StrayInv'
      BY <1>1, <1>2, <1>6 DEF Inv, StaleInv, StrayInv, NoObservation, Releasing, Behind
    <2>3. ASSUME NEW p \in Run PROVE ClaimInv(p)' /\ RunInv(p)'
      BY <1>1, <1>6 DEF Inv, ClaimInv, RunInv, NoClaim, NoCleanup, Dead, Holds
    <2> QED
      BY <1>5, <2>1, <2>2, <2>3 DEF Inv
  <1>7. CASE row' # row
    <2>1. PICK r \in Run : claim[r].at = "writing" /\ row' = ClaimedBy(r, claim[r].epoch)
      BY <1>7 DEF Crash
    <2>2. row' \in Rows
      BY <2>1, RowUpdates DEF Inv, Shape, Claims
    <2>3. ~Releasing /\ row.mode # "occupied" /\ \A q \in Run : status[q] = "working" => q \in adrift
      BY <2>1 DEF Inv, ClaimInv, Releasing
    <2>4. row'.mode = "busy" /\ row'.owner = r /\ row'.old = row.old
      BY <2>1 DEF Inv, Shape, Rows, ClaimedBy
    <2>5. Shape' /\ RowInv'
      BY <1>4, <2>2, <2>4 DEF RowInv, Releasing
    <2>6. StaleInv' /\ StrayInv'
      BY <1>1, <1>2, <2>3, <2>4 DEF Inv, StaleInv, StrayInv, NoObservation, Releasing, Behind
    <2>7. ASSUME NEW p \in Run PROVE ClaimInv(p)' /\ RunInv(p)'
      BY <1>1, <2>3 DEF Inv, ClaimInv, RunInv, NoClaim, NoCleanup, Dead
    <2> QED
      BY <1>5, <2>5, <2>6, <2>7 DEF Inv
  <1> QED
    BY <1>6, <1>7

\* A command that outlived its teardown ends.
LEMMA StrayEndsKeeps ==
  ASSUME SlotAssumption, Inv, StrayEnds
  PROVE  Inv'
  <1>1. Shape'
    BY TagZero, RowUpdates DEF Inv, Shape, StrayEnds, Rows, Claims, Releases, Cleanups, Observations,
       memory, counters, history, Modes, Owner
  <1>2. ReleaseInv'
    BY DEF Inv, RowInv, ReleaseInv, StrayEnds, Releasing, Behind, memory, counters, history
  <1>3. StaleInv'
    BY DEF Inv, RowInv, StaleInv, StrayEnds, Releasing, memory, counters, history
  <1>4. StrayInv'
    BY DEF Inv, StrayInv, StrayEnds, Behind, counters, history, Releasing
  <1>5. ASSUME NEW p \in Run PROVE CleanupInv(p)'
    BY DEF Inv, CleanupInv, StrayEnds, Releasing, Behind, memory, counters, history
  <1>6. RowInv' /\ (\A p \in Run : ClaimInv(p)' /\ RunInv(p)')
    BY DEF Inv, RowInv, ClaimInv, RunInv, Releasing, Dead, Holds, StrayEnds, memory, counters, history
  <1> QED
    BY <1>1, <1>2, <1>3, <1>4, <1>5, <1>6 DEF Inv

\* The invariant holds of the free slot.
LEMMA InitInv ==
  ASSUME SlotAssumption, Init
  PROVE  Inv
  <1>1. row \in Rows
    BY TagZero DEF Init, Rows, Owner, Modes
  <1>2. Shape
    BY <1>1, IdleRecords, TagZero DEF Init, Shape
  <1>3. RowInv /\ ReleaseInv /\ StaleInv /\ StrayInv
    BY DEF Init, RowInv, ReleaseInv, StaleInv, StrayInv, Releasing, NoRelease, NoObservation
  <1>4. ASSUME NEW r \in Run PROVE CleanupInv(r) /\ ClaimInv(r) /\ RunInv(r)
    BY DEF Init, CleanupInv, ClaimInv, RunInv, NoClaim, NoCleanup, Dead
  <1> QED
    BY <1>2, <1>3, <1>4 DEF Inv

\* A step that changes nothing keeps the invariant.
LEMMA StutterKeeps ==
  ASSUME Inv, UNCHANGED vars
  PROVE  Inv'
  <1>1. Shape' /\ RowInv' /\ ReleaseInv' /\ StaleInv' /\ StrayInv'
    BY DEF Inv, Shape, RowInv, ReleaseInv, StaleInv, StrayInv, vars, memory, history, Releasing, Behind
  <1>2. ASSUME NEW r \in Run PROVE CleanupInv(r)' /\ ClaimInv(r)' /\ RunInv(r)'
    BY DEF Inv, CleanupInv, ClaimInv, RunInv, vars, memory, history, Releasing, Behind, Dead, Holds
  <1> QED
    BY <1>1, <1>2 DEF Inv

\* Every step keeps the invariant.
LEMMA NextKeeps ==
  ASSUME SlotAssumption, Inv, [Next]_vars
  PROVE  Inv'
  <1>1. ASSUME NEW r \in Run, Find(r) \/ Claim(r) \/ LandClaim(r) \/ UndoClaim(r) \/ FailFinding(r)
               \/ Cancel(r) \/ Fail(r) \/ RefuseCompletion(r) \/ CloseOutput(r)
       PROVE Inv'
    BY <1>1, FindKeeps, ClaimKeeps, LandClaimKeeps, UndoClaimKeeps, FailFindingKeeps, CancelKeeps,
       FailKeeps, RefuseCompletionKeeps, CloseOutputKeeps
  <1>2. ASSUME NEW r \in Run, CleanupStep(r)
       PROVE Inv'
    BY <1>2, StopWorkersKeeps, FenceCleanupKeeps, CheckCleanupKeeps, FinishCleanupKeeps,
       SettleCleanupKeeps DEF CleanupStep
  <1>3. ASSUME NEW r \in Run, RetryOccupied(r) \/ BeginReplay(r) \/ ClaimReplay(r) \/ Revive(r)
       PROVE Inv'
    BY <1>3, RetryOccupiedKeeps, BeginReplayKeeps, ClaimReplayKeeps, ReviveKeeps
  <1>4. ASSUME NEW q \in Run, NEW r \in Run, Reclaim(q, r)
       PROVE Inv'
    BY <1>4, ReclaimKeeps
  <1>5. ASSUME StartRelease \/ ReleaseStep \/ TimeOut
       PROVE Inv'
    BY <1>5, StartReleaseKeeps, ReleaseGoesOnKeeps, ReleaseLostKeeps, ReleaseStepEndsKeeps,
       HoldReleaseKeeps, RefuseReleaseKeeps, ClearReleaseKeeps, FinishReleaseKeeps, RecoverKeeps,
       TimeOutKeeps DEF ReleaseStep
  <1>6. ASSUME Reconcile \/ Age \/ Crash \/ StrayEnds
       PROVE Inv'
    BY <1>6, ObserveKeeps, ReclaimFenceKeeps, ResetOrphanKeeps, AgeKeeps, CrashKeeps,
       StrayEndsKeeps DEF Reconcile
  <1> QED
    BY <1>1, <1>2, <1>3, <1>4, <1>5, <1>6, StutterKeeps DEF Next

-----------------------------------------------------------------------------
(* Theorems *)

\* The inductive invariant holds in every reachable state, for all sets of runs and all bounds.
THEOREM InvHolds ==
  ASSUME SlotAssumption
  PROVE  Spec => []Inv
  <1>1. Init => Inv
    BY InitInv
  <1>2. Inv /\ [Next]_vars => Inv'
    BY NextKeeps
  <1> QED
    BY <1>1, <1>2, PTL DEF Spec

\* A run that works has its slot: slot.release, the cleanups of other runs, the undo of an older claim,
\* the reconciler and the selections all leave it alone, for all runs and in any order.
THEOREM WorkersHoldTheirSlot ==
  ASSUME SlotAssumption
  PROVE  Spec => []WorkingHolds
  <1>1. Inv => WorkingHolds
    <2> SUFFICES ASSUME Inv PROVE WorkingHolds
      OBVIOUS
    <2>1. TypeOK
      BY DEF Inv, Shape, RowInv, Rows, Owner, Modes, Claims, TypeOK
    <2> QED
      BY <2>1 DEF Inv, RunInv, WorkingHolds
  <1> QED
    BY <1>1, InvHolds, PTL

\* No destructive command of a teardown runs on a slot that a claim could take: it is fenced, or held
\* with the mark of an unconfirmed stop.
THEOREM TeardownsStayFenced ==
  ASSUME SlotAssumption
  PROVE  Spec => []CommandsAreFenced
  <1>1. Inv => CommandsAreFenced
    BY DEF Inv, ReleaseInv, CleanupInv, StrayInv, CommandsAreFenced, Behind
  <1> QED
    BY <1>1, InvHolds, PTL

\* A cancelled run whose slot a reclaim has given away is never revived.
THEOREM GivenIsGone ==
  ASSUME SlotAssumption
  PROVE  Spec => []LostForGood
  <1>1. Inv => LostForGood
    BY DEF Inv, Shape, RunInv, LostForGood
  <1> QED
    BY <1>1, InvHolds, PTL
=============================================================================
