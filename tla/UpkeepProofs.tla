---------------------------- MODULE UpkeepProofs ----------------------------
(***************************************************************************)
(* Proofs about Scratch, Worktree, ManualCarriage and SourceReconciliation,*)
(* for any processes, tasks, work files, assignments and bounds.           *)
(***************************************************************************)
EXTENDS Scratch, Worktree, ManualCarriage, SourceReconciliation, WellFoundedInduction, TLAPS

ScratchSpec == ProcsInit /\ ScratchInit /\ [][ScratchNext]_<<procVars, scratchVars>>

(* The inductive invariant of the scratch container.  First the types.     *)
Snapshots == Markers \cup {Absent, Empty, Torn}
Observations == Snapshots \cup [of : RemovalKeys, gone : BOOLEAN]
ScratchJobs == [op : ScratchOps, work : Works, policy : {0, 1}, seen : Observations]

Locked == EffectSteps \cup {"s-locked", "s-barrier", "s-done"}
ScratchSteps == Locked \cup {"idle", "s-proposed"}

ScratchTypeOK ==
    /\ pc \in [Procs -> ScratchSteps]
    /\ job \in [Procs -> ScratchJobs \cup {None}]
    /\ \A p \in Procs : pc[p] # "idle" => job[p] \in ScratchJobs
    /\ note \in [Procs -> RemovalRecords \cup RemovalKeys \cup {None}]
    /\ crashes \in Nat
    /\ container \in Containers \cup {Absent}
    /\ removal \in RemovalRecords \cup {Absent}
    /\ removalTemp \in RemovalRecords \cup {Absent, Torn}
    /\ admissions \subseteq RemovalKeys /\ spoiled \subseteq RemovalKeys
    /\ resourceLock \in Procs \cup {None}
    /\ policy \in {0, 1} /\ referenced \in BOOLEAN
    /\ stamp \in Nat /\ turns \in Nat /\ retained \in BOOLEAN

LockInv == \A p \in Procs : pc[p] \in Locked => resourceLock = p

(* The directory has a marker that can be read.                            *)
Marked == container # Absent /\ container.marker \in Markers

(* The directory is the one of the record, with the marker of the record   *)
(* or none any more.                                                       *)
AsRecorded ==
    container # Absent =>
        /\ container.made = removal.made
        /\ container.marker \in {Absent, removal.key.seen}

RemovalInv == removal # Absent => removal.key \in admissions /\ ~removal.key.seen.retain

(* What was answered to be retained has a marker, which says so unless a   *)
(* death tore it.                                                          *)
RetainedInv ==
    retained =>
        /\ removal = Absent
        /\ container # Absent /\ container.marker # Absent
        /\ Marked => container.marker.retain

(* What a process relies on under the lock.  Only the deletion itself and  *)
(* the steps before it has begun go with a record.                         *)
ScratchProcInv(p) ==
    LET e == job[p] IN
    /\ pc[p] \in ({"s-done"} \cup EffectSteps) \ {"s-delete"} => removal = Absent
    /\ pc[p] = "s-barrier" =>
          /\ e.op # "remove" => removal = Absent
          /\ e.op = "remove" /\ removal # Absent => AsRecorded
          /\ e.op \in {"remove", "prune"} /\ removal = Absent /\ Marked => ~container.marker.retain
    /\ pc[p] \in Locked \ {"s-locked", "s-barrier", "s-rewrite", "s-done"} => e.op # "retain"
    /\ pc[p] = "s-prune" => Marked /\ ~container.marker.retain
    /\ pc[p] = "s-admit" =>
          /\ e \in RemovalKeys
          /\ Marked /\ container.marker = e.seen /\ ~e.seen.retain
    /\ pc[p] \in {"s-record", "s-publish"} =>
          /\ note[p] \in RemovalRecords
          /\ note[p].key \in admissions /\ ~note[p].key.seen.retain
          /\ Marked /\ container.made = note[p].made /\ container.marker = note[p].key.seen
    /\ pc[p] = "s-delete" => removal # Absent /\ AsRecorded
    /\ pc[p] = "s-done" /\ e.op = "retain" => Marked /\ container.marker.retain

ScratchInv ==
    /\ ScratchTypeOK /\ LockInv
    /\ RemovalInv /\ RetainedInv
    /\ \A p \in Procs : ScratchProcInv(p)


-----------------------------------------------------------------------------
(* What a reader makes of the directory.                                   *)
LEMMA SnapshotFacts ==
  ASSUME ScratchTypeOK
  PROVE  /\ Snapshot \in Snapshots
         /\ Present <=> Marked
         /\ Marked => Snapshot = container.marker
<1>1. CASE container = Absent
  BY <1>1, ScratchMarksAssumption DEF Snapshot, Present, Snapshots, Marked
<1>2. CASE container # Absent /\ container.marker = Absent
  <2>1. Snapshot \in {Torn, Empty}
    BY <1>2 DEF Snapshot
  <2>2. ~Marked
    BY <1>2, ScratchMarksAssumption DEF Marked
  <2>3. QED
    BY <2>1, <2>2, ScratchMarksAssumption DEF Present, Snapshots
<1>3. CASE container # Absent /\ container.marker # Absent
  <2>1. Snapshot = container.marker
    BY <1>3 DEF Snapshot
  <2>2. container.marker \in Markers \cup {Torn}
    BY <1>3 DEF ScratchTypeOK, Containers
  <2>3. QED
    BY <1>3, <2>1, <2>2, ScratchMarksAssumption DEF Present, Snapshots, Marked
<1>4. QED
  BY <1>1, <1>2, <1>3

(* What a proposal is bound to.                                            *)
LEMMA RevisionFacts ==
  ASSUME ScratchTypeOK, NEW op \in ScratchOps, NEW work \in Works
  PROVE  Revision(op, work) \in ScratchJobs
<1>1. removal # Absent => removal.key \in RemovalKeys
  BY DEF ScratchTypeOK, RemovalRecords
<1>2. (IF removal = Absent THEN Snapshot ELSE [of |-> removal.key, gone |-> container = Absent]) \in Observations
  BY <1>1, SnapshotFacts DEF Observations
<1>3. policy \in {0, 1}
  BY DEF ScratchTypeOK
<1>4. QED
  BY <1>2, <1>3 DEF Revision, ScratchJobs

(* resources.lock admits one process.                                      *)
LEMMA LockExcludes ==
  ASSUME LockInv, NEW p \in Procs, pc[p] \in Locked, NEW q \in Procs, q # p
  PROVE  pc[q] \notin Locked
BY DEF LockInv

LEMMA LockedSteps ==
  Locked \subseteq ScratchSteps /\ {"idle", "s-proposed"} \cap Locked = {}
BY DEF Locked, ScratchSteps, EffectSteps

(* A process outside the lock relies on nothing.                           *)
LEMMA NothingReliedOn ==
  ASSUME NEW p \in Procs, pc[p] \notin Locked
  PROVE  ScratchProcInv(p)
BY DEF ScratchProcInv, Locked, EffectSteps

LEMMA InitScratchInv == ProcsInit /\ ScratchInit => ScratchInv
<1> SUFFICES ASSUME ProcsInit, ScratchInit PROVE ScratchInv
  OBVIOUS
<1>1. ScratchTypeOK
  BY DEF ProcsInit, ScratchInit, ScratchTypeOK, ScratchSteps
<1>2. \A p \in Procs : pc[p] \notin Locked
  BY LockedSteps DEF ProcsInit
<1>3. LockInv
  BY <1>2 DEF LockInv
<1>4. RemovalInv /\ RetainedInv
  BY DEF ScratchInit, RemovalInv, RetainedInv
<1>5. QED
  BY <1>1, <1>2, <1>3, <1>4, NothingReliedOn DEF ScratchInv


(* A step under the lock that keeps it concerns no other process.          *)
LEMMA UnderLock ==
  ASSUME ScratchInv, NEW p \in Procs, pc[p] \in Locked,
         NEW step, pc' = [pc EXCEPT ![p] = step],
         UNCHANGED resourceLock,
         ScratchTypeOK', RemovalInv', RetainedInv', ScratchProcInv(p)'
  PROVE  ScratchInv'
<1>1. resourceLock = p
  BY DEF ScratchInv, LockInv
<1>2. \A q \in Procs : q # p => pc'[q] \notin Locked
  BY LockExcludes DEF ScratchInv, ScratchTypeOK
<1>3. LockInv'
  BY <1>1, <1>2 DEF LockInv
<1>4. \A q \in Procs : q # p => ScratchProcInv(q)'
  BY <1>2 DEF ScratchProcInv, Locked, EffectSteps
<1>5. QED
  BY <1>3, <1>4 DEF ScratchInv

(* One that ends the invocation, or is before the lock, and changes no     *)
(* file, leaves it to whoever had it.                                      *)
LEMMA OutsideLock ==
  ASSUME ScratchInv, NEW p \in Procs, UNCHANGED scratchFiles,
         NEW step \in {"idle", "s-proposed"}, pc' = [pc EXCEPT ![p] = step],
         \A q \in Procs : q # p => job'[q] = job[q] /\ note'[q] = note[q],
         resourceLock' = resourceLock \/ resourceLock = p,
         ScratchTypeOK', RetainedInv'
  PROVE  ScratchInv'
<1>1. pc'[p] \notin Locked /\ \A q \in Procs : q # p => pc'[q] = pc[q]
  BY LockedSteps DEF ScratchInv, ScratchTypeOK
<1>2. LockInv'
  BY <1>1 DEF ScratchInv, LockInv
<1>3. RemovalInv'
  BY DEF ScratchInv, RemovalInv, scratchFiles
<1>4. ASSUME NEW q \in Procs PROVE ScratchProcInv(q)'
  <2>1. CASE q = p
    BY <1>1, <2>1 DEF ScratchProcInv, Locked, EffectSteps
  <2>2. CASE q # p
    BY <1>1, <2>2 DEF ScratchInv, ScratchProcInv, scratchFiles, Marked, AsRecorded
  <2>3. QED
    BY <2>1, <2>2
<1>5. QED
  BY <1>2, <1>3, <1>4 DEF ScratchInv

-----------------------------------------------------------------------------
(* Proposing and taking the lock.                                          *)
LEMMA ProposeInv ==
  ASSUME ScratchInv, NEW p \in Procs, NEW op \in ScratchOps, NEW work \in Works,
         ProposeScratch(p, op, work)
  PROVE  ScratchInv'
<1>1. Revision(op, work) \in ScratchJobs
  BY RevisionFacts DEF ScratchInv
<1>2. ScratchTypeOK'
  BY <1>1 DEF ScratchInv, ScratchTypeOK, ProposeScratch, Begin, At, scratchVars, scratchFiles, scratchWorld, ScratchSteps
<1>3. RetainedInv'
  BY DEF ScratchInv, RetainedInv, ProposeScratch, scratchVars, scratchFiles, Marked
<1>4. \A q \in Procs : q # p => job'[q] = job[q] /\ note'[q] = note[q]
  BY DEF ScratchInv, ScratchTypeOK, ProposeScratch, Begin
<1>5. QED
  BY <1>2, <1>3, <1>4, OutsideLock DEF ProposeScratch, Begin, scratchVars

LEMMA TakeInv ==
  ASSUME ScratchInv, NEW p \in Procs, TakeScratch(p)
  PROVE  ScratchInv'
<1>1. \A q \in Procs : pc[q] \notin Locked
  BY ScratchMarksAssumption DEF ScratchInv, LockInv, TakeScratch
<1>2. ScratchTypeOK'
  BY DEF ScratchInv, ScratchTypeOK, TakeScratch, Go, At, scratchVars, scratchFiles, scratchWorld, ScratchSteps, Locked
<1>3. \A q \in Procs : q # p => pc'[q] \notin Locked
  BY <1>1 DEF ScratchInv, ScratchTypeOK, TakeScratch, Go
<1>4. pc'[p] = "s-locked" /\ resourceLock' = p
  BY DEF ScratchInv, ScratchTypeOK, TakeScratch, Go
<1>5. LockInv'
  BY <1>3, <1>4 DEF LockInv
<1>6. RemovalInv' /\ RetainedInv'
  BY DEF ScratchInv, RemovalInv, RetainedInv, TakeScratch, scratchFiles, Marked
<1>7. \A q \in Procs : ScratchProcInv(q)'
  BY <1>3, <1>4 DEF ScratchProcInv, Locked, EffectSteps
<1>8. QED
  BY <1>2, <1>5, <1>6, <1>7 DEF ScratchInv

LEMMA ReobserveInv ==
  ASSUME ScratchInv, NEW p \in Procs, Reobserve(p)
  PROVE  ScratchInv'
<1>1. pc[p] \in Locked
  BY DEF Reobserve, At, Locked
<1>2. ScratchTypeOK'
  BY DEF ScratchInv, ScratchTypeOK, Reobserve, Go, At, scratchVars, scratchFiles, scratchWorld, ScratchSteps, Locked
<1>3. RemovalInv' /\ RetainedInv'
  BY DEF ScratchInv, RemovalInv, RetainedInv, Reobserve, scratchVars, scratchFiles, Marked
<1>4. pc'[p] = "s-barrier" /\ job'[p] = job[p] /\ UNCHANGED scratchFiles
  BY DEF ScratchInv, ScratchTypeOK, Reobserve, Go, scratchVars
<1>5. Permitted(job[p].op, job[p].work)
  BY DEF Reobserve, Current
<1>6. job[p].op # "remove" => removal = Absent
  BY <1>5 DEF Permitted
<1>7. job[p].op = "remove" /\ removal # Absent => AsRecorded
  BY <1>5 DEF Permitted, Resumable, AsRecorded
<1>8. job[p].op \in {"remove", "prune"} /\ removal = Absent /\ Marked => ~container.marker.retain
  BY <1>5, SnapshotFacts DEF Permitted, Removable, ScratchInv
<1>9. ScratchProcInv(p)'
  BY <1>4, <1>6, <1>7, <1>8 DEF ScratchProcInv, scratchFiles, AsRecorded, Marked, EffectSteps
<1>10. QED
  BY <1>1, <1>2, <1>3, <1>9, UnderLock DEF Reobserve, Go, scratchVars


-----------------------------------------------------------------------------
(* The effects.                                                            *)
LEMMA BarrierInv ==
  ASSUME ScratchInv, NEW p \in Procs, Barrier(p)
  PROVE  ScratchInv'
<1> DEFINE e == job[p]
<1>1. pc[p] \in Locked /\ pc[p] = "s-barrier" /\ ScratchProcInv(p)
  BY DEF Barrier, At, Locked, ScratchInv
<1>2. EffectOf(e.op) \in EffectSteps \cup {"s-done"}
  BY DEF EffectOf, EffectSteps
<1>3. /\ pc' = [pc EXCEPT ![p] = EffectOf(e.op)] /\ pc'[p] = EffectOf(e.op)
      /\ job'[p] = e /\ note'[p] = note[p]
      /\ UNCHANGED <<job, note, crashes, scratchVars>>
  BY DEF Barrier, Go, ScratchInv, ScratchTypeOK
<1>4. ScratchTypeOK'
  BY <1>1, <1>2, <1>3 DEF ScratchInv, ScratchTypeOK, scratchVars, scratchFiles, scratchWorld, ScratchSteps, Locked
<1>5. RemovalInv' /\ RetainedInv'
  BY <1>3 DEF ScratchInv, RemovalInv, RetainedInv, scratchVars, scratchFiles, Marked
<1>6. e \in ScratchJobs
  BY <1>1, LockedSteps DEF ScratchInv, ScratchTypeOK
<1>7. ScratchProcInv(p)'
  <2>1. pc'[p] \in ({"s-done"} \cup EffectSteps) \ {"s-delete"} => removal = Absent
    BY <1>1, <1>3, SnapshotFacts DEF EffectOf, ScratchProcInv, ScratchInv
  <2>2. pc'[p] \notin {"s-barrier", "s-record", "s-publish"}
    BY <1>3 DEF EffectOf
  <2>3. pc'[p] = "s-prune" => Marked /\ ~container.marker.retain
    BY <1>1, <1>3, SnapshotFacts DEF EffectOf, ScratchProcInv, ScratchInv
  <2>4. pc'[p] = "s-delete" => removal # Absent /\ AsRecorded
    BY <1>1, <1>3 DEF EffectOf, ScratchProcInv
  <2>5. ASSUME pc'[p] = "s-admit"
        PROVE  e \in RemovalKeys /\ Marked /\ container.marker = e.seen /\ ~e.seen.retain
    <3>1. e.op = "remove" /\ removal = Absent /\ Present
      BY <1>3, <2>5 DEF EffectOf
    <3>2. Marked /\ Snapshot = container.marker
      BY <3>1, SnapshotFacts DEF ScratchInv
    <3>3. e.seen = container.marker
      BY <3>1, <3>2 DEF Barrier, Revision
    <3>4. e.seen \in Markers /\ ~e.seen.retain
      BY <1>1, <3>1, <3>2, <3>3 DEF ScratchProcInv, Marked
    <3>5. e \in RemovalKeys
      BY <1>6, <3>1, <3>4 DEF ScratchJobs, RemovalKeys
    <3>6. QED
      BY <3>2, <3>3, <3>4, <3>5
  <2>6. e.op = "retain" => pc'[p] = "s-rewrite"
    BY <1>3 DEF EffectOf
  <2>7. QED
    BY <1>3, <2>1, <2>2, <2>3, <2>4, <2>5, <2>6
       DEF ScratchProcInv, scratchVars, scratchFiles, Marked, AsRecorded
<1>8. QED
  BY <1>1, <1>3, <1>4, <1>5, <1>7, UnderLock DEF scratchVars

LEMMA MakeDirectoryInv ==
  ASSUME ScratchInv, NEW p \in Procs, MakeDirectory(p)
  PROVE  ScratchInv'
<1>1. pc[p] \in Locked /\ pc[p] = "s-mkdir" /\ removal = Absent /\ ~retained
  BY DEF MakeDirectory, At, Locked, EffectSteps, ScratchInv, ScratchProcInv, RetainedInv
<1>2. ScratchTypeOK'
  BY DEF ScratchInv, ScratchTypeOK, MakeDirectory, Go, At, scratchWorld, ScratchSteps, Locked, EffectSteps, Containers
<1>3. RemovalInv' /\ RetainedInv'
  BY <1>1 DEF MakeDirectory, RemovalInv, RetainedInv
<1>4. pc'[p] = "s-mark" /\ removal' = Absent /\ job'[p] = job[p]
  BY <1>1 DEF ScratchInv, ScratchTypeOK, MakeDirectory, Go
<1>5. job[p].op # "retain"
  BY <1>1 DEF ScratchInv, ScratchProcInv
<1>6. ScratchProcInv(p)'
  BY <1>4, <1>5 DEF ScratchProcInv
<1>7. QED
  BY <1>1, <1>2, <1>3, <1>6, UnderLock DEF MakeDirectory, Go

LEMMA MarkInv ==
  ASSUME ScratchInv, NEW p \in Procs, Mark(p)
  PROVE  ScratchInv'
<1>1. pc[p] \in Locked /\ pc[p] = "s-mark" /\ removal = Absent /\ ~retained
  BY DEF Mark, At, Locked, EffectSteps, ScratchInv, ScratchProcInv, RetainedInv
<1>2. [retain |-> FALSE, stamp |-> stamp] \in Markers /\ stamp + 1 \in Nat
  BY DEF ScratchInv, ScratchTypeOK, Markers
<1>3. container' \in Containers
  BY <1>2 DEF ScratchInv, ScratchTypeOK, Mark, Containers
<1>4. ScratchTypeOK'
  BY <1>2, <1>3 DEF ScratchInv, ScratchTypeOK, Mark, Go, At, scratchWorld, ScratchSteps, Locked, EffectSteps
<1>5. RemovalInv' /\ RetainedInv'
  BY <1>1 DEF Mark, RemovalInv, RetainedInv
<1>6. /\ pc'[p] = "s-done" /\ removal' = Absent /\ job'[p] = job[p]
  BY <1>1 DEF ScratchInv, ScratchTypeOK, Mark, Go
<1>7. job[p].op # "retain"
  BY <1>1 DEF ScratchInv, ScratchProcInv
<1>8. ScratchProcInv(p)'
  BY <1>6, <1>7 DEF ScratchProcInv
<1>9. QED
  BY <1>1, <1>4, <1>5, <1>8, UnderLock DEF Mark, Go

LEMMA RewriteInv ==
  ASSUME ScratchInv, NEW p \in Procs, Rewrite(p)
  PROVE  ScratchInv'
<1> DEFINE m == [retain |-> job[p].op = "retain", stamp |-> stamp]
<1>1. pc[p] \in Locked /\ pc[p] = "s-rewrite" /\ removal = Absent
  BY DEF Rewrite, At, Locked, EffectSteps, ScratchInv, ScratchProcInv
<1>2. m \in Markers /\ stamp + 1 \in Nat
  BY DEF ScratchInv, ScratchTypeOK, Markers
<1>3. container' \in Containers /\ container'.marker = m
  BY <1>2 DEF ScratchInv, ScratchTypeOK, Rewrite, Containers
<1>4. ScratchTypeOK'
  BY <1>2, <1>3 DEF ScratchInv, ScratchTypeOK, Rewrite, Go, At, scratchWorld, ScratchSteps, Locked, EffectSteps
<1>5. /\ Marked'
      /\ job[p].op = "retain" => container'.marker.retain
  <2>1. job[p].op = "retain" => m.retain
    OBVIOUS
  <2> HIDE DEF m
  <2>2. Marked'
    BY <1>2, <1>3, ScratchMarksAssumption DEF Marked
  <2>3. QED
    BY <1>3, <2>1, <2>2
<1>6. RemovalInv' /\ RetainedInv'
  <2>1. removal' = Absent /\ (retained' => job[p].op = "retain")
    BY <1>1 DEF Rewrite
  <2>2. container' # Absent /\ container'.marker # Absent
    BY <1>5, ScratchMarksAssumption DEF Marked
  <2>3. QED
    BY <1>5, <2>1, <2>2 DEF RemovalInv, RetainedInv
<1>7. /\ pc'[p] = "s-done" /\ removal' = Absent /\ job'[p] = job[p]
  BY <1>1 DEF ScratchInv, ScratchTypeOK, Rewrite, Go
<1>8. ScratchProcInv(p)'
  BY <1>5, <1>7 DEF ScratchProcInv
<1>9. QED
  BY <1>1, <1>4, <1>6, <1>8, UnderLock DEF Rewrite, Go

LEMMA PruneInv ==
  ASSUME ScratchInv, NEW p \in Procs, Prune(p)
  PROVE  ScratchInv'
<1>1. /\ pc[p] \in Locked /\ pc[p] = "s-prune" /\ removal = Absent
      /\ Marked /\ ~container.marker.retain
  BY DEF Prune, At, Locked, EffectSteps, ScratchInv, ScratchProcInv
<1>2. ~retained
  BY <1>1 DEF ScratchInv, RetainedInv
<1>3. container' \in Containers
  BY <1>1 DEF ScratchInv, ScratchTypeOK, Prune, Containers, Marked
<1>4. ScratchTypeOK'
  BY <1>3 DEF ScratchInv, ScratchTypeOK, Prune, Go, At, scratchWorld, ScratchSteps, Locked, EffectSteps
<1>5. RemovalInv' /\ RetainedInv'
  BY <1>1, <1>2 DEF Prune, RemovalInv, RetainedInv
<1>6. /\ pc'[p] = "s-done" /\ removal' = Absent /\ job'[p] = job[p]
  BY <1>1 DEF ScratchInv, ScratchTypeOK, Prune, Go
<1>7. job[p].op # "retain"
  BY <1>1 DEF ScratchInv, ScratchProcInv
<1>8. ScratchProcInv(p)'
  BY <1>6, <1>7 DEF ScratchProcInv
<1>9. QED
  BY <1>1, <1>4, <1>5, <1>8, UnderLock DEF Prune, Go


-----------------------------------------------------------------------------
(* The removal and its record.                                             *)
LEMMA AdmitRemovalInv ==
  ASSUME ScratchInv, NEW p \in Procs, AdmitRemoval(p)
  PROVE  ScratchInv'
<1> DEFINE e == job[p]
           r == [made |-> container.made, key |-> e]
<1>1. /\ pc[p] \in Locked /\ pc[p] = "s-admit" /\ removal = Absent
      /\ e \in RemovalKeys /\ Marked /\ container.marker = e.seen /\ ~e.seen.retain
  BY DEF AdmitRemoval, At, Locked, EffectSteps, ScratchInv, ScratchProcInv
<1>o. e.op # "retain"
  BY <1>1 DEF RemovalKeys
<1>2. r \in RemovalRecords /\ r.made = container.made /\ r.key = e
  BY <1>1 DEF ScratchInv, ScratchTypeOK, Marked, Containers, RemovalRecords
<1> HIDE DEF r
<1>3. /\ pc' = [pc EXCEPT ![p] = "s-record"] /\ note' = [note EXCEPT ![p] = r]
      /\ admissions' = admissions \cup {e}
      /\ UNCHANGED <<container, removal, removalTemp, spoiled, resourceLock, scratchWorld, stamp, retained>>
      /\ UNCHANGED <<job, crashes>>
  BY DEF AdmitRemoval, Keep, r
<1>4. ScratchTypeOK'
  BY <1>1, <1>2, <1>3 DEF ScratchInv, ScratchTypeOK, scratchWorld, ScratchSteps, Locked, EffectSteps
<1>5. RemovalInv' /\ RetainedInv'
  BY <1>1, <1>3 DEF ScratchInv, RemovalInv, RetainedInv, Marked
<1>6. pc'[p] = "s-record" /\ note'[p] = r
  BY <1>3 DEF ScratchInv, ScratchTypeOK
<1>7. ScratchProcInv(p)'
  BY <1>o, <1>1, <1>2, <1>3, <1>6 DEF ScratchProcInv, Marked, EffectSteps, Locked
<1>8. QED
  BY <1>1, <1>3, <1>4, <1>5, <1>7, UnderLock

LEMMA WriteTemporaryInv ==
  ASSUME ScratchInv, NEW p \in Procs, WriteTemporary(p)
  PROVE  ScratchInv'
<1>1. pc[p] \in Locked /\ pc[p] = "s-record" /\ ScratchProcInv(p)
  BY DEF WriteTemporary, At, Locked, EffectSteps, ScratchInv
<1>2. note[p] \in RemovalRecords
  BY <1>1 DEF ScratchProcInv
<1>3. /\ pc' = [pc EXCEPT ![p] = "s-publish"] /\ removalTemp' = note[p]
      /\ UNCHANGED <<container, removal, admissions, spoiled, resourceLock, scratchWorld, stamp, retained>>
      /\ UNCHANGED <<job, note, crashes>>
  BY DEF WriteTemporary, Go
<1>4. ScratchTypeOK'
  BY <1>1, <1>2, <1>3 DEF ScratchInv, ScratchTypeOK, scratchWorld, ScratchSteps, Locked, EffectSteps
<1>5. RemovalInv' /\ RetainedInv'
  BY <1>3 DEF ScratchInv, RemovalInv, RetainedInv, Marked
<1>6. pc'[p] = "s-publish"
  BY <1>3 DEF ScratchInv, ScratchTypeOK
<1>7. ScratchProcInv(p)'
  BY <1>1, <1>3, <1>6 DEF ScratchProcInv, Marked, EffectSteps, Locked
<1>8. QED
  BY <1>1, <1>3, <1>4, <1>5, <1>7, UnderLock

LEMMA PublishRemovalInv ==
  ASSUME ScratchInv, NEW p \in Procs, PublishRemoval(p)
  PROVE  ScratchInv'
<1>1. pc[p] \in Locked /\ pc[p] = "s-publish"
  BY DEF PublishRemoval, At, Locked, EffectSteps
<1>2. /\ job[p].op # "retain"
      /\ note[p] \in RemovalRecords
      /\ note[p].key \in admissions /\ ~note[p].key.seen.retain
      /\ Marked /\ container.made = note[p].made /\ container.marker = note[p].key.seen
  BY <1>1 DEF ScratchInv, ScratchProcInv, Locked, EffectSteps
<1>3. ~retained
  BY <1>2 DEF ScratchInv, RetainedInv
<1>4. /\ pc' = [pc EXCEPT ![p] = "s-delete"] /\ removalTemp' = Absent /\ removal' = note[p]
      /\ UNCHANGED <<container, admissions, spoiled, resourceLock, scratchWorld, stamp, retained>>
      /\ UNCHANGED <<job, note, crashes>>
  BY DEF PublishRemoval, Go
<1>5. ScratchTypeOK'
  BY <1>1, <1>2, <1>4 DEF ScratchInv, ScratchTypeOK, scratchWorld, ScratchSteps, Locked, EffectSteps
<1>6. RemovalInv' /\ RetainedInv'
  BY <1>2, <1>3, <1>4 DEF RemovalInv, RetainedInv
<1>7. pc'[p] = "s-delete" /\ removal' # Absent
  BY <1>2, <1>4, ScratchMarksAssumption DEF ScratchInv, ScratchTypeOK
<1>8. AsRecorded'
  BY <1>2, <1>4 DEF AsRecorded
<1>9. ScratchProcInv(p)'
  BY <1>2, <1>4, <1>7, <1>8 DEF ScratchProcInv, EffectSteps, Locked
<1>10. QED
  BY <1>1, <1>4, <1>5, <1>6, <1>9, UnderLock

LEMMA DeleteEntryInv ==
  ASSUME ScratchInv, NEW p \in Procs, DeleteEntry(p)
  PROVE  ScratchInv'
<1>1. /\ pc[p] \in Locked /\ pc[p] = "s-delete" /\ container # Absent
      /\ removal # Absent /\ AsRecorded /\ job[p].op # "retain"
  BY DEF DeleteEntry, At, Locked, EffectSteps, ScratchInv, ScratchProcInv
<1>2. ~retained
  BY <1>1 DEF ScratchInv, RetainedInv
<1>3. /\ container' \in Containers \cup {Absent}
      /\ container' # Absent => /\ container'.made = container.made
                                /\ container'.marker \in {Absent, container.marker}
  BY <1>1 DEF DeleteEntry, ScratchInv, ScratchTypeOK, Containers
<1>4. UNCHANGED <<procVars, removal, removalTemp, admissions, spoiled, resourceLock, scratchWorld, stamp, retained>>
  BY DEF DeleteEntry
<1>5. ScratchTypeOK'
  BY <1>1, <1>3, <1>4 DEF ScratchInv, ScratchTypeOK, scratchWorld, procVars, Locked, EffectSteps
<1>6. RemovalInv' /\ RetainedInv'
  BY <1>2, <1>4 DEF ScratchInv, RemovalInv, RetainedInv
<1>7. AsRecorded'
  BY <1>1, <1>3, <1>4 DEF AsRecorded
<1>8. ScratchProcInv(p)'
  BY <1>1, <1>4, <1>7 DEF ScratchProcInv, procVars, EffectSteps, Locked
<1>9. pc' = [pc EXCEPT ![p] = "s-delete"]
  BY <1>1, <1>4 DEF procVars, ScratchInv, ScratchTypeOK
<1>10. QED
  BY <1>1, <1>4, <1>5, <1>6, <1>8, <1>9, UnderLock

LEMMA ForgetRecordInv ==
  ASSUME ScratchInv, NEW p \in Procs, ForgetRecord(p)
  PROVE  ScratchInv'
<1>1. /\ pc[p] \in Locked /\ container = Absent /\ removal.key \in RemovalKeys
      /\ job[p].op # "retain"
  BY DEF ForgetRecord, At, Locked, EffectSteps, ScratchInv, ScratchTypeOK, ScratchProcInv
<1>2. ~retained
  BY <1>1 DEF ScratchInv, RetainedInv
<1>3. /\ pc' = [pc EXCEPT ![p] = "s-forget"] /\ note' = [note EXCEPT ![p] = removal.key]
      /\ removal' = Absent
      /\ UNCHANGED <<container, removalTemp, admissions, spoiled, resourceLock, scratchWorld, stamp, retained>>
      /\ UNCHANGED <<job, crashes>>
  BY DEF ForgetRecord, Keep
<1>4. ScratchTypeOK'
  BY <1>1, <1>3 DEF ScratchInv, ScratchTypeOK, scratchWorld, ScratchSteps, Locked, EffectSteps
<1>5. RemovalInv' /\ RetainedInv'
  BY <1>2, <1>3 DEF RemovalInv, RetainedInv
<1>6. pc'[p] = "s-forget"
  BY <1>3 DEF ScratchInv, ScratchTypeOK
<1>7. ScratchProcInv(p)'
  BY <1>1, <1>3, <1>6 DEF ScratchProcInv, EffectSteps, Locked
<1>8. QED
  BY <1>1, <1>3, <1>4, <1>5, <1>7, UnderLock

LEMMA ForgetAttemptInv ==
  ASSUME ScratchInv, NEW p \in Procs, ForgetAttempt(p)
  PROVE  ScratchInv'
<1>1. pc[p] \in Locked /\ pc[p] = "s-forget" /\ removal = Absent
  BY DEF ForgetAttempt, At, Locked, EffectSteps, ScratchInv, ScratchProcInv
<1>2. /\ pc' = [pc EXCEPT ![p] = "s-done"]
      /\ admissions' = admissions \ {note[p]}
      /\ UNCHANGED <<container, removal, removalTemp, spoiled, resourceLock, scratchWorld, stamp, retained>>
      /\ UNCHANGED <<job, note, crashes>>
  BY DEF ForgetAttempt, Go
<1>3. ScratchTypeOK'
  BY <1>1, <1>2 DEF ScratchInv, ScratchTypeOK, scratchWorld, ScratchSteps, Locked, EffectSteps
<1>4. RemovalInv' /\ RetainedInv'
  BY <1>1, <1>2 DEF ScratchInv, RemovalInv, RetainedInv, Marked
<1>5. pc'[p] = "s-done" /\ job'[p] = job[p] /\ job[p].op # "retain"
  BY <1>1, <1>2 DEF ScratchInv, ScratchTypeOK, ScratchProcInv
<1>6. ScratchProcInv(p)'
  BY <1>1, <1>2, <1>5 DEF ScratchProcInv, EffectSteps, Locked
<1>7. QED
  BY <1>1, <1>2, <1>3, <1>4, <1>6, UnderLock

-----------------------------------------------------------------------------
(* The ends of an invocation.                                              *)
LEMMA FinishScratchInv ==
  ASSUME ScratchInv, NEW p \in Procs, FinishScratch(p)
  PROVE  ScratchInv'
<1>1. pc[p] = "s-done" /\ resourceLock = p /\ removal = Absent
  BY DEF FinishScratch, At, Locked, ScratchInv, LockInv, ScratchProcInv
<1>2. /\ pc' = [pc EXCEPT ![p] = "idle"]
      /\ job' = [job EXCEPT ![p] = None] /\ note' = [note EXCEPT ![p] = None]
      /\ UNCHANGED <<scratchFiles, scratchWorld, stamp, crashes>>
      /\ resourceLock' = None
  BY DEF FinishScratch, Stop, Leave
<1>3. \/ retained' = retained
      \/ retained' = TRUE /\ job[p].op = "retain"
      \/ retained' = (Present /\ Snapshot.retain)
  BY DEF FinishScratch
<1>4. retained' \in BOOLEAN
  BY <1>3 DEF ScratchInv, ScratchTypeOK
<1>5. ScratchTypeOK'
  BY <1>2, <1>4 DEF ScratchInv, ScratchTypeOK, scratchFiles, scratchWorld, ScratchSteps
<1>6. ASSUME retained'
      PROVE  (Marked /\ container.marker.retain) \/ retained
  <2>1. CASE retained' = TRUE /\ job[p].op = "retain"
    BY <1>1, <2>1 DEF ScratchInv, ScratchProcInv
  <2>2. CASE retained' = (Present /\ Snapshot.retain)
    BY <1>6, <2>2, SnapshotFacts DEF ScratchInv
  <2>3. QED
    BY <1>3, <1>6, <2>1, <2>2
<1>7. RetainedInv'
  BY <1>1, <1>2, <1>6, ScratchMarksAssumption DEF ScratchInv, RetainedInv, scratchFiles, Marked
<1>8. \A q \in Procs : q # p => job'[q] = job[q] /\ note'[q] = note[q]
  BY <1>2 DEF ScratchInv, ScratchTypeOK
<1>9. \A q \in Procs : q # p => pc[q] \notin Locked
  BY <1>1 DEF ScratchInv, LockInv
<1>10. \A q \in Procs : pc'[q] \notin Locked
  BY <1>2, <1>9, LockedSteps DEF ScratchInv, ScratchTypeOK
<1>11. LockInv' /\ \A q \in Procs : ScratchProcInv(q)'
  BY <1>10 DEF LockInv, ScratchProcInv, Locked, EffectSteps
<1>12. RemovalInv'
  BY <1>1, <1>2 DEF RemovalInv, scratchFiles
<1>13. QED
  BY <1>5, <1>7, <1>11, <1>12 DEF ScratchInv

(* An invocation that ends early, refused or dead: the process forgets,    *)
(* and the lock is free if it had it.                                      *)
LEMMA LeaveInv ==
  ASSUME ScratchInv, NEW p \in Procs, Leave(p), Releases(p),
         ScratchTypeOK', RemovalInv', RetainedInv',
         UNCHANGED scratchFiles \/ pc[p] \in Locked
  PROVE  ScratchInv'
<1>1. /\ pc' = [pc EXCEPT ![p] = "idle"] /\ pc'[p] \notin Locked
      /\ \A q \in Procs : q # p => pc'[q] = pc[q] /\ job'[q] = job[q] /\ note'[q] = note[q]
  BY LockedSteps DEF Leave, ScratchInv, ScratchTypeOK
<1>2. LockInv'
  BY <1>1 DEF Releases, ScratchInv, LockInv
<1>3. ASSUME NEW q \in Procs PROVE ScratchProcInv(q)'
  <2>1. CASE pc'[q] \notin Locked
    BY <2>1 DEF ScratchProcInv, Locked, EffectSteps
  <2>2. CASE pc'[q] \in Locked
    <3>1. q # p /\ pc[q] \in Locked
      BY <1>1, <2>2
    <3>2. UNCHANGED scratchFiles
      BY <3>1, LockExcludes DEF ScratchInv
    <3>3. QED
      BY <1>1, <3>1, <3>2 DEF ScratchInv, ScratchProcInv, scratchFiles, Marked, AsRecorded
  <2>3. QED
    BY <2>1, <2>2
<1>4. QED
  BY <1>2, <1>3 DEF ScratchInv

LEMMA RefuseScratchInv ==
  ASSUME ScratchInv, NEW p \in Procs, RefuseScratch(p)
  PROVE  ScratchInv'
<1>1. /\ Leave(p) /\ Releases(p) /\ UNCHANGED <<scratchFiles, scratchWorld, stamp, retained, crashes>>
  BY DEF RefuseScratch, Stop
<1>2. resourceLock' \in Procs \cup {None}
  BY <1>1 DEF Releases, ScratchInv, ScratchTypeOK
<1>3. ScratchTypeOK'
  BY <1>1, <1>2 DEF Leave, ScratchInv, ScratchTypeOK, scratchFiles, scratchWorld, ScratchSteps
<1>4. RemovalInv' /\ RetainedInv'
  BY <1>1 DEF ScratchInv, RemovalInv, RetainedInv, scratchFiles, Marked
<1>5. QED
  BY <1>1, <1>3, <1>4, LeaveInv

LEMMA DieScratchInv ==
  ASSUME ScratchInv, NEW p \in Procs, DieScratch(p)
  PROVE  ScratchInv'
<1>1. /\ Leave(p) /\ Releases(p) /\ crashes' = crashes + 1
      /\ UNCHANGED <<scratchWorld, stamp, retained>>
  BY DEF DieScratch, Dies
<1>2. resourceLock' \in Procs \cup {None}
  BY <1>1 DEF Releases, ScratchInv, ScratchTypeOK
<1>3. ASSUME container' \in Containers \cup {Absent}, removal' = removal,
             removalTemp' \in {removalTemp, Torn}, admissions' = admissions, spoiled' \subseteq RemovalKeys
      PROVE  ScratchTypeOK'
  BY <1>1, <1>2, <1>3 DEF Leave, ScratchInv, ScratchTypeOK, scratchWorld, ScratchSteps
<1>4. CASE UNCHANGED scratchFiles
  <2>1. ScratchTypeOK'
    BY <1>3, <1>4 DEF ScratchInv, ScratchTypeOK, scratchFiles
  <2>2. RemovalInv' /\ RetainedInv'
    BY <1>1, <1>4 DEF ScratchInv, RemovalInv, RetainedInv, scratchFiles, Marked
  <2>3. QED
    BY <1>1, <1>4, <2>1, <2>2, LeaveInv
<1>5. CASE /\ pc[p] \in {"s-mark", "s-rewrite"} /\ container # Absent
           /\ container' = [container EXCEPT !.marker = Torn]
           /\ UNCHANGED <<removal, removalTemp, admissions, spoiled>>
  <2>1. container' \in Containers /\ container'.marker = Torn
    BY <1>5 DEF ScratchInv, ScratchTypeOK, Containers
  <2>2. ScratchTypeOK'
    BY <1>3, <1>5, <2>1 DEF ScratchInv, ScratchTypeOK
  <2>3. container' # Absent /\ ~Marked'
    BY <2>1, ScratchMarksAssumption DEF Marked
  <2>4. RemovalInv' /\ RetainedInv'
    BY <1>1, <1>5, <2>1, <2>3, ScratchMarksAssumption DEF ScratchInv, RemovalInv, RetainedInv
  <2>5. pc[p] \in Locked
    BY <1>5 DEF Locked, EffectSteps
  <2>6. QED
    BY <1>1, <2>2, <2>4, <2>5, LeaveInv
<1>6. CASE /\ pc[p] = "s-admit" /\ spoiled' = spoiled \cup {job[p]}
           /\ UNCHANGED <<container, removal, removalTemp, admissions>>
  <2>1. pc[p] \in Locked /\ job[p] \in RemovalKeys
    BY <1>6 DEF Locked, EffectSteps, ScratchInv, ScratchProcInv
  <2>2. spoiled' \subseteq RemovalKeys
    BY <1>6, <2>1 DEF ScratchInv, ScratchTypeOK
  <2>3. ScratchTypeOK'
    BY <1>3, <1>6, <2>2 DEF ScratchInv, ScratchTypeOK
  <2>4. RemovalInv' /\ RetainedInv'
    BY <1>1, <1>6 DEF ScratchInv, RemovalInv, RetainedInv, Marked
  <2>5. QED
    BY <1>1, <2>1, <2>3, <2>4, LeaveInv
<1>7. CASE /\ pc[p] = "s-record" /\ removalTemp' = Torn
           /\ UNCHANGED <<container, removal, admissions, spoiled>>
  <2>1. pc[p] \in Locked
    BY <1>7 DEF Locked, EffectSteps
  <2>2. ScratchTypeOK'
    BY <1>3, <1>7 DEF ScratchInv, ScratchTypeOK
  <2>3. RemovalInv' /\ RetainedInv'
    BY <1>1, <1>7 DEF ScratchInv, RemovalInv, RetainedInv, Marked
  <2>4. QED
    BY <1>1, <2>1, <2>2, <2>3, LeaveInv
<1>8. QED
  BY <1>4, <1>5, <1>6, <1>7 DEF DieScratch, At

-----------------------------------------------------------------------------
(* The task, and whoever else changes what a removal depends on.           *)
LEMMA FillInv ==
  ASSUME ScratchInv, Fill
  PROVE  ScratchInv'
<1>1. /\ container # Absent /\ container' = [container EXCEPT !.filled = TRUE] /\ turns' = turns + 1
      /\ UNCHANGED <<procVars, removal, removalTemp, admissions, spoiled, resourceLock, policy, referenced, stamp, retained>>
  BY DEF Fill
<1>2. /\ container' \in Containers /\ container'.made = container.made
      /\ container'.marker = container.marker
  BY <1>1 DEF ScratchInv, ScratchTypeOK, Containers
<1>3. ScratchTypeOK'
  BY <1>1, <1>2 DEF ScratchInv, ScratchTypeOK, procVars
<1>4. container' # Absent /\ (Marked' <=> Marked) /\ (AsRecorded' <=> AsRecorded)
  BY <1>1, <1>2, ScratchMarksAssumption DEF Marked, AsRecorded
<1>5. LockInv' /\ RemovalInv' /\ RetainedInv'
  BY <1>1, <1>2, <1>4 DEF ScratchInv, LockInv, RemovalInv, RetainedInv, procVars
<1>6. \A q \in Procs : ScratchProcInv(q)'
  BY <1>1, <1>2, <1>4 DEF ScratchInv, ScratchProcInv, procVars
<1>7. QED
  BY <1>3, <1>5, <1>6 DEF ScratchInv

LEMMA ReplaceInv ==
  ASSUME ScratchInv, Replace
  PROVE  ScratchInv'
<1>1. \A q \in Procs : pc[q] \notin Locked
  BY ScratchMarksAssumption DEF Replace, ScratchInv, LockInv
<1>2. ScratchTypeOK'
  <2>1. container' \in Containers /\ stamp' \in Nat
    BY DEF Replace, ScratchInv, ScratchTypeOK, Containers
  <2>2. QED
    BY <2>1 DEF Replace, ScratchInv, ScratchTypeOK, procVars, scratchWorld
<1>3. LockInv' /\ \A q \in Procs : ScratchProcInv(q)'
  BY <1>1 DEF Replace, procVars, LockInv, ScratchProcInv, Locked, EffectSteps
<1>4. RemovalInv' /\ RetainedInv'
  BY DEF Replace, ScratchInv, RemovalInv, RetainedInv
<1>5. QED
  BY <1>2, <1>3, <1>4 DEF ScratchInv

LEMMA TurnInv ==
  ASSUME ScratchInv, Turn
  PROVE  ScratchInv'
<1>1. ScratchTypeOK'
  <2>1. policy' \in {0, 1} /\ turns' \in Nat
    BY DEF Turn, ScratchInv, ScratchTypeOK
  <2>2. referenced' \in BOOLEAN
    BY Zenon DEF Turn, ScratchInv, ScratchTypeOK
  <2>3. QED
    BY <2>1, <2>2 DEF Turn, ScratchInv, ScratchTypeOK, procVars, scratchFiles
<1>2. LockInv' /\ RemovalInv' /\ RetainedInv'
  BY DEF Turn, ScratchInv, LockInv, RemovalInv, RetainedInv, procVars, scratchFiles, Marked
<1>3. \A q \in Procs : ScratchProcInv(q)'
  BY DEF Turn, ScratchInv, ScratchProcInv, procVars, scratchFiles, Marked, AsRecorded
<1>4. QED
  BY <1>1, <1>2, <1>3 DEF ScratchInv

LEMMA ScratchNextInv == ScratchInv /\ [ScratchNext]_<<procVars, scratchVars>> => ScratchInv'
<1> SUFFICES ASSUME ScratchInv, [ScratchNext]_<<procVars, scratchVars>> PROVE ScratchInv'
  OBVIOUS
<1>1. ASSUME NEW p \in Procs, ScratchStep(p) PROVE ScratchInv'
  BY <1>1, TakeInv, ReobserveInv, BarrierInv, MakeDirectoryInv, MarkInv, RewriteInv, PruneInv,
     AdmitRemovalInv, WriteTemporaryInv, PublishRemovalInv, DeleteEntryInv, ForgetRecordInv,
     ForgetAttemptInv, FinishScratchInv, RefuseScratchInv DEF ScratchStep
<1>2. CASE UNCHANGED <<procVars, scratchVars>>
  <2>1. ScratchTypeOK'
    BY <1>2 DEF ScratchInv, ScratchTypeOK, procVars, scratchVars, scratchFiles, scratchWorld
  <2>2. LockInv' /\ RemovalInv' /\ RetainedInv'
    BY <1>2 DEF ScratchInv, LockInv, RemovalInv, RetainedInv, procVars, scratchVars, scratchFiles, Marked
  <2>3. \A q \in Procs : ScratchProcInv(q)'
    BY <1>2 DEF ScratchInv, ScratchProcInv, procVars, scratchVars, scratchFiles, Marked, AsRecorded
  <2>4. QED
    BY <2>1, <2>2, <2>3 DEF ScratchInv
<1>3. QED
  BY <1>1, <1>2, ProposeInv, DieScratchInv, FillInv, ReplaceInv, TurnInv DEF ScratchNext

(* Every reachable state satisfies the invariant.                          *)
THEOREM ScratchInvariant == ScratchSpec => []ScratchInv
BY InitScratchInv, ScratchNextInv, PTL DEF ScratchSpec

(* "Retained material blocks scratch cleanup"; only the directory that was *)
(* recorded is deleted; a recorded removal can be read; and effects on the *)
(* container exclude each other.                                           *)
THEOREM ScratchStaysConsistent == ScratchSpec => []ScratchConsistent
<1>1. ScratchInv => ScratchConsistent
  <2> SUFFICES ASSUME ScratchInv PROVE ScratchConsistent
    OBVIOUS
  <2>1. RetainedKept
    <3> SUFFICES ASSUME retained, NEW p \in Procs, pc[p] \in {"s-delete", "s-prune"} PROVE FALSE
      BY DEF RetainedKept, ScratchInv, RetainedInv
    <3>1. removal = Absent /\ (Marked => container.marker.retain)
      BY DEF ScratchInv, RetainedInv
    <3>2. QED
      BY <3>1 DEF ScratchInv, ScratchProcInv
  <2>2. OnlyRecordedDeleted
    BY DEF OnlyRecordedDeleted, At, ScratchInv, ScratchProcInv, AsRecorded, RemovalInv
  <2>3. RemovalLegible
    BY DEF RemovalLegible, ScratchInv, RemovalInv
  <2>4. OneEffect
    BY DEF OneEffect, ScratchInv, LockInv, Locked
  <2>5. QED
    BY <2>1, <2>2, <2>3, <2>4 DEF ScratchConsistent
<1>2. QED
  BY <1>1, ScratchInvariant, PTL


-----------------------------------------------------------------------------
(* The worktree.                                                           *)
WorktreeSpec == ProcsInit /\ WorktreeInit /\ [][WorktreeNext]_<<procVars, treeVars>>

TreeOps == {"tree-create", "tree-remove"}
TreeJobs == [op : TreeOps, seen : Trees \cup {Absent}]

Removing == {"t-compare", "t-clean", "t-status", "t-unlock", "t-remove"}
TreeSteps == Removing \cup {"idle", "t-proposed", "t-add", "t-outputs", "t-custody", "t-done"}

WorktreeTypeOK ==
    /\ pc \in [Procs -> TreeSteps]
    /\ job \in [Procs -> TreeJobs \cup {None}]
    /\ \A p \in Procs : pc[p] # "idle" => job[p] \in TreeJobs
    /\ note \in [Procs -> Nat \cup {None}]
    /\ crashes \in Nat
    /\ tree \in Trees \cup {Absent}
    /\ continuity \in BOOLEAN /\ cited \in BOOLEAN
    /\ events \in Nat /\ born \in Nat

(* A checkout that was deleted by hand has nothing left in it.             *)
GoneIsClean == tree # Absent /\ ~tree.there => ~tree.dirty

(* Between the two commands of a removal the lock is missing; the removal  *)
(* that took it off saw it and will put it back.                           *)
OwnedInv ==
    tree # Absent /\ ~tree.locked /\ tree.custody = Absent =>
       crashes > 0 \/ \E p \in Procs : pc[p] = "t-remove" /\ job[p].seen.locked

(* A removal that has been admitted saw a registration.  As long as it is  *)
(* still that one, its commits stay integrated and its lease is not lost.  *)
TreeProcInv(p) ==
    pc[p] \in Removing =>
        /\ job[p].seen \in Trees
        /\ note[p] \in Nat /\ note[p] <= born
        /\ pc[p] = "t-unlock" => job[p].seen.locked
        /\ note[p] = born /\ tree # Absent =>
              /\ job[p].seen.head <= tree.kept
              /\ job[p].seen.custody # Absent => tree.custody # Absent

TreeInv ==
    /\ WorktreeTypeOK
    /\ GoneIsClean /\ OwnedInv
    /\ \A p \in Procs : TreeProcInv(p)

(* How a step may leave the registration to the removals under way: the    *)
(* same with no less, none, or another one.                                *)
LeftToRemovals ==
    \/ born' = born + 1
    \/ /\ born' = born
       /\ tree' # Absent =>
             /\ tree # Absent /\ tree.kept <= tree'.kept
             /\ tree.custody # Absent => tree'.custody # Absent

LEMMA InitTreeInv == ProcsInit /\ WorktreeInit => TreeInv
<1> SUFFICES ASSUME ProcsInit, WorktreeInit PROVE TreeInv
  OBVIOUS
<1>1. WorktreeTypeOK
  BY DEF ProcsInit, WorktreeInit, WorktreeTypeOK, TreeSteps
<1>2. GoneIsClean /\ OwnedInv
  BY DEF WorktreeInit, GoneIsClean, OwnedInv
<1>3. \A p \in Procs : TreeProcInv(p)
  BY DEF ProcsInit, TreeProcInv, Removing
<1>4. QED
  BY <1>1, <1>2, <1>3 DEF TreeInv

(* What a removal relies on survives the steps of others.                  *)
LEMMA RemovalsRely ==
  ASSUME TreeInv, NEW q \in Procs, LeftToRemovals, WorktreeTypeOK',
         pc'[q] = pc[q], job'[q] = job[q], note'[q] = note[q]
  PROVE  TreeProcInv(q)'
<1> SUFFICES ASSUME pc[q] \in Removing PROVE TreeProcInv(q)'
  BY DEF TreeProcInv
<1> DEFINE j == job[q]
           n == note[q]
<1>1. /\ j.seen \in Trees /\ n \in Nat /\ n <= born /\ (pc[q] = "t-unlock" => j.seen.locked)
      /\ n = born /\ tree # Absent =>
            /\ j.seen.head <= tree.kept
            /\ j.seen.custody # Absent => tree.custody # Absent
  BY DEF TreeInv, TreeProcInv
<1>2. born \in Nat /\ born' \in Nat /\ j.seen.head \in Nat
  BY <1>1 DEF TreeInv, WorktreeTypeOK, Trees
<1>3. job'[q] = j /\ note'[q] = n /\ pc'[q] = pc[q]
  OBVIOUS
<1>4. CASE born' = born + 1
  <2>1. n <= born' /\ n # born'
    BY <1>1, <1>2, <1>4
  <2>2. QED
    BY <1>1, <1>3, <2>1 DEF TreeProcInv
<1>5. CASE /\ born' = born
           /\ tree' # Absent =>
                 /\ tree # Absent /\ tree.kept <= tree'.kept
                 /\ tree.custody # Absent => tree'.custody # Absent
  <2>1. ASSUME n = born', tree' # Absent
        PROVE  /\ j.seen.head <= tree'.kept
               /\ j.seen.custody # Absent => tree'.custody # Absent
    <3>1. tree \in Trees /\ tree' \in Trees
      BY <1>5, <2>1 DEF TreeInv, WorktreeTypeOK
    <3>2. tree.kept \in Nat /\ tree'.kept \in Nat
      BY <3>1 DEF Trees
    <3>3. QED
      BY <1>1, <1>2, <1>5, <2>1, <3>2
  <2>2. QED
    BY <1>1, <1>3, <1>5, <2>1 DEF TreeProcInv
<1>6. QED
  BY <1>4, <1>5 DEF LeftToRemovals

(* A step that leaves the registration as it is, and is not the end of a   *)
(* removal between the two commands.                                       *)
LEMMA TreeLeft ==
  ASSUME TreeInv, NEW p \in Procs, UNCHANGED treeVars, crashes' = crashes,
         NEW step \in TreeSteps, pc' = [pc EXCEPT ![p] = step],
         \A q \in Procs : q # p => job'[q] = job[q] /\ note'[q] = note[q],
         pc[p] # "t-remove",
         WorktreeTypeOK', TreeProcInv(p)'
  PROVE  TreeInv'
<1>1. \A q \in Procs : q # p => pc'[q] = pc[q]
  BY DEF TreeInv, WorktreeTypeOK
<1>2. LeftToRemovals
  <2>1. tree # Absent => tree.kept <= tree.kept
    BY DEF TreeInv, WorktreeTypeOK, Trees
  <2>2. QED
    BY <2>1 DEF LeftToRemovals, treeVars
<1>3. \A q \in Procs : TreeProcInv(q)'
  BY <1>1, <1>2, RemovalsRely
<1>4. GoneIsClean'
  BY DEF TreeInv, GoneIsClean, treeVars
<1>5. OwnedInv'
  BY <1>1 DEF TreeInv, OwnedInv, treeVars
<1>6. QED
  BY <1>3, <1>4, <1>5 DEF TreeInv

LEMMA SeenTreeFacts ==
  ASSUME WorktreeTypeOK
  PROVE  /\ SeenTree \in Trees \cup {Absent}
         /\ tree = Absent <=> SeenTree = Absent
         /\ tree # Absent => /\ SeenTree.head = tree.head
                             /\ SeenTree.custody = tree.custody
<1>1. CASE tree = Absent
  BY <1>1 DEF SeenTree
<1>2. CASE tree # Absent
  <2>1. tree \in Trees
    BY <1>2 DEF WorktreeTypeOK
  <2> DEFINE o == IF Leased /\ tree.outputs = "built" THEN "none" ELSE tree.outputs
  <2>2. o \in {"none", "built", "tracked"}
    BY <2>1 DEF Trees
  <2>3. SeenTree = [tree EXCEPT !.outputs = o]
    BY <1>2 DEF SeenTree
  <2> HIDE DEF o
  <2>4. SeenTree \in Trees /\ SeenTree.head = tree.head /\ SeenTree.custody = tree.custody
    BY <2>1, <2>2, <2>3 DEF Trees
  <2>5. QED
    BY <1>2, <2>4, TreeMarksAssumption
<1>3. QED
  BY <1>1, <1>2

-----------------------------------------------------------------------------
(* The steps that leave the registration as it is.                         *)
LEMMA ProposeTreeInv ==
  ASSUME TreeInv, NEW p \in Procs, NEW op \in TreeOps, ProposeTree(p, op)
  PROVE  TreeInv'
<1> DEFINE j == [op |-> op, seen |-> SeenTree]
<1>1. j \in TreeJobs
  BY SeenTreeFacts DEF TreeInv, TreeJobs
<1> HIDE DEF j
<1>2. /\ pc[p] = "idle" /\ pc' = [pc EXCEPT ![p] = "t-proposed"] /\ job' = [job EXCEPT ![p] = j]
      /\ UNCHANGED <<note, crashes, treeVars>>
  BY DEF ProposeTree, Begin, At, j
<1>3. WorktreeTypeOK'
  BY <1>1, <1>2 DEF TreeInv, WorktreeTypeOK, treeVars, TreeSteps
<1>4. /\ pc'[p] = "t-proposed"
      /\ \A q \in Procs : q # p => job'[q] = job[q] /\ note'[q] = note[q]
  BY <1>2 DEF TreeInv, WorktreeTypeOK
<1>5. TreeProcInv(p)'
  BY <1>4 DEF TreeProcInv, Removing
<1>6. QED
  BY <1>2, <1>3, <1>4, <1>5, TreeLeft DEF TreeSteps

LEMMA AdmitTreeInv ==
  ASSUME TreeInv, NEW p \in Procs, AdmitTree(p)
  PROVE  TreeInv'
<1> DEFINE step == CASE job[p].op = "tree-create" -> "t-add"
                     [] job[p].op = "tree-remove" /\ tree # Absent -> "t-compare"
                     [] OTHER -> "t-done"
<1>1. step \in {"t-add", "t-compare", "t-done"}
  OBVIOUS
<1>2. job[p].op = "tree-create" => step = "t-add"
  OBVIOUS
<1>3. step = "t-compare" => job[p].op = "tree-remove" /\ tree # Absent
  OBVIOUS
<1>4. /\ pc[p] = "t-proposed" /\ CurrentTree(p)
      /\ pc' = [pc EXCEPT ![p] = step] /\ note' = [note EXCEPT ![p] = born]
      /\ UNCHANGED <<job, crashes, treeVars>>
  BY DEF AdmitTree, Keep, At
<1> HIDE DEF step
<1>5. born \in Nat
  BY DEF TreeInv, WorktreeTypeOK
<1>6. WorktreeTypeOK'
  BY <1>1, <1>4, <1>5 DEF TreeInv, WorktreeTypeOK, treeVars, TreeSteps, Removing
<1>7. /\ pc'[p] = step /\ job'[p] = job[p] /\ note'[p] = born
      /\ \A q \in Procs : q # p => job'[q] = job[q] /\ note'[q] = note[q]
  BY <1>4 DEF TreeInv, WorktreeTypeOK
<1>8. ASSUME step = "t-compare"
      PROVE  /\ job[p].seen \in Trees
             /\ job[p].seen.head <= tree.kept
             /\ job[p].seen.custody # Absent => tree.custody # Absent
  <2>1. tree # Absent /\ RemovableTree
    BY <1>3, <1>4, <1>8 DEF CurrentTree, PermittedTree
  <2>2. job[p].seen = SeenTree
    BY <1>4 DEF CurrentTree
  <2>3. QED
    BY <2>1, <2>2, SeenTreeFacts DEF TreeInv, RemovableTree
<1>9. TreeProcInv(p)'
  BY <1>1, <1>4, <1>5, <1>7, <1>8 DEF TreeProcInv, Removing, treeVars
<1>10. QED
  BY <1>1, <1>4, <1>6, <1>7, <1>9, TreeLeft DEF TreeSteps, Removing

(* From one step of the removal to the next.                               *)
LEMMA RemovalGoes ==
  ASSUME TreeInv, NEW p \in Procs, NEW step \in TreeSteps, Go(p, step), UNCHANGED treeVars,
         pc[p] # "idle", pc[p] # "t-remove",
         step \in Removing => pc[p] \in Removing,
         step = "t-unlock" => job[p].seen.locked
  PROVE  TreeInv'
<1>1. WorktreeTypeOK'
  BY DEF Go, TreeInv, WorktreeTypeOK, treeVars
<1>2. pc'[p] = step /\ UNCHANGED <<job, note, crashes>>
  BY DEF Go, TreeInv, WorktreeTypeOK
<1>3. TreeProcInv(p)'
  BY <1>2 DEF TreeInv, TreeProcInv, treeVars
<1>4. QED
  BY <1>1, <1>2, <1>3, TreeLeft DEF Go

LEMMA LookStepsInv ==
  ASSUME TreeInv, NEW p \in Procs, MakeOutputs(p) \/ CompareTree(p) \/ CheckStatus(p)
  PROVE  TreeInv'
<1>1. CASE MakeOutputs(p)
  BY <1>1, RemovalGoes DEF MakeOutputs, At, TreeSteps, Removing
<1>2. CASE CompareTree(p)
  BY <1>2, RemovalGoes DEF CompareTree, At, TreeSteps, Removing
<1>3. CASE CheckStatus(p)
  BY <1>3, RemovalGoes DEF CheckStatus, At, TreeSteps, Removing
<1>4. QED
  BY <1>1, <1>2, <1>3

LEMMA StopsInv ==
  ASSUME TreeInv, NEW p \in Procs, FinishTree(p) \/ RefuseTree(p)
  PROVE  TreeInv'
<1>1. /\ pc' = [pc EXCEPT ![p] = "idle"] /\ job' = [job EXCEPT ![p] = None]
      /\ note' = [note EXCEPT ![p] = None] /\ UNCHANGED <<crashes, treeVars>>
  BY DEF FinishTree, RefuseTree, Stop, Leave
<1>2. pc[p] # "t-remove"
  BY DEF FinishTree, RefuseTree, MayTree, At
<1>3. WorktreeTypeOK'
  BY <1>1 DEF TreeInv, WorktreeTypeOK, treeVars, TreeSteps
<1>4. /\ pc'[p] = "idle"
      /\ \A q \in Procs : q # p => job'[q] = job[q] /\ note'[q] = note[q]
  BY <1>1 DEF TreeInv, WorktreeTypeOK
<1>5. TreeProcInv(p)'
  BY <1>4 DEF TreeProcInv, Removing
<1>6. QED
  BY <1>1, <1>2, <1>3, <1>4, <1>5, TreeLeft DEF TreeSteps

-----------------------------------------------------------------------------
(* The steps that change the registration.                                 *)
LEMMA TreeChanged ==
  ASSUME TreeInv, NEW p \in Procs, LeftToRemovals,
         \A q \in Procs : q # p => pc'[q] = pc[q] /\ job'[q] = job[q] /\ note'[q] = note[q],
         WorktreeTypeOK', GoneIsClean', OwnedInv', TreeProcInv(p)'
  PROVE  TreeInv'
BY RemovalsRely DEF TreeInv

LEMMA AddTreeInv ==
  ASSUME TreeInv, NEW p \in Procs, AddTree(p)
  PROVE  TreeInv'
<1>1. Fresh \in Trees /\ Fresh.locked /\ Fresh.there
  BY DEF Fresh, Trees
<1>2. /\ pc[p] = "t-add" /\ pc' = [pc EXCEPT ![p] = "t-outputs"]
      /\ tree' = Fresh /\ born' = born + 1
      /\ UNCHANGED <<job, note, crashes, continuity, cited, events>>
  BY DEF AddTree, Go, At
<1>3. WorktreeTypeOK'
  BY <1>1, <1>2 DEF TreeInv, WorktreeTypeOK, TreeSteps
<1>4. pc'[p] = "t-outputs" /\ \A q \in Procs : q # p => pc'[q] = pc[q]
  BY <1>2 DEF TreeInv, WorktreeTypeOK
<1>5. GoneIsClean' /\ OwnedInv'
  BY <1>1, <1>2 DEF GoneIsClean, OwnedInv
<1>6. TreeProcInv(p)'
  BY <1>4 DEF TreeProcInv, Removing
<1>7. QED
  BY <1>2, <1>3, <1>4, <1>5, <1>6, TreeChanged DEF LeftToRemovals

LEMMA WriteLeaseInv ==
  ASSUME TreeInv, NEW p \in Procs, WriteLease(p)
  PROVE  TreeInv'
<1>1. /\ pc[p] = "t-custody" /\ pc' = [pc EXCEPT ![p] = "t-done"]
      /\ tree # Absent /\ tree' = [tree EXCEPT !.custody = Lease]
      /\ UNCHANGED <<job, note, crashes, continuity, cited, events, born>>
  BY DEF WriteLease, Go, At
<1>2. /\ tree \in Trees /\ tree' \in Trees /\ tree'.custody = Lease
      /\ tree'.there = tree.there /\ tree'.dirty = tree.dirty /\ tree'.kept = tree.kept /\ tree.kept \in Nat
  BY <1>1 DEF TreeInv, WorktreeTypeOK, Trees
<1>3. WorktreeTypeOK'
  BY <1>1, <1>2 DEF TreeInv, WorktreeTypeOK, TreeSteps
<1>4. pc'[p] = "t-done" /\ \A q \in Procs : q # p => pc'[q] = pc[q]
  BY <1>1 DEF TreeInv, WorktreeTypeOK
<1>5. GoneIsClean' /\ OwnedInv'
  BY <1>1, <1>2, TreeMarksAssumption DEF TreeInv, GoneIsClean, OwnedInv
<1>6. TreeProcInv(p)'
  BY <1>4 DEF TreeProcInv, Removing
<1>7. LeftToRemovals
  BY <1>1, <1>2, TreeMarksAssumption DEF LeftToRemovals
<1>8. QED
  BY <1>1, <1>3, <1>4, <1>5, <1>6, <1>7, TreeChanged

LEMMA CleanOutputsInv ==
  ASSUME TreeInv, NEW p \in Procs, CleanOutputs(p)
  PROVE  TreeInv'
<1>1. /\ pc[p] = "t-clean" /\ pc' = [pc EXCEPT ![p] = "t-status"]
      /\ UNCHANGED <<job, note, crashes, continuity, cited, events, born>>
  BY DEF CleanOutputs, Go, At
<1>2. /\ pc'[p] = "t-status" /\ job'[p] = job[p] /\ note'[p] = note[p]
      /\ \A q \in Procs : q # p => pc'[q] = pc[q]
  BY <1>1 DEF TreeInv, WorktreeTypeOK
<1>3. CASE tree' = tree
  BY <1>1, <1>2, <1>3, RemovalGoes DEF CleanOutputs, treeVars, TreeSteps, Removing
<1>4. CASE tree' # tree
  <2> DEFINE d == tree.dirty \/ tree.outputs = "tracked"
  <2>1. /\ tree # Absent /\ tree.there
        /\ tree' = [tree EXCEPT !.outputs = "none", !.dirty = d]
    BY <1>4 DEF CleanOutputs
  <2>2. d \in BOOLEAN
    OBVIOUS
  <2> HIDE DEF d
  <2>3. tree \in Trees
    BY <2>1 DEF TreeInv, WorktreeTypeOK
  <2>4. /\ tree' \in Trees /\ tree'.there = tree.there /\ tree'.locked = tree.locked
        /\ tree'.custody = tree.custody /\ tree'.kept = tree.kept /\ tree.kept \in Nat
    BY <2>1, <2>2, <2>3 DEF Trees
  <2>5. tree' # Absent
    BY <2>4, TreeMarksAssumption
  <2>6. WorktreeTypeOK'
    BY <1>1, <2>4 DEF TreeInv, WorktreeTypeOK, TreeSteps, Removing
  <2>7. GoneIsClean'
    BY <2>1, <2>4 DEF GoneIsClean
  <2>8. OwnedInv'
    BY <1>1, <1>2, <2>1, <2>4 DEF TreeInv, OwnedInv
  <2>9. LeftToRemovals
    BY <1>1, <2>1, <2>4 DEF LeftToRemovals
  <2>10. TreeProcInv(p)'
    BY <1>1, <1>2, <2>1, <2>4 DEF TreeInv, TreeProcInv, Removing
  <2>11. QED
    BY <1>1, <1>2, <2>6, <2>7, <2>8, <2>9, <2>10, TreeChanged
<1>5. QED
  BY <1>3, <1>4

LEMMA UnlockInv ==
  ASSUME TreeInv, NEW p \in Procs, Unlock(p)
  PROVE  TreeInv'
<1>1. /\ pc[p] = "t-unlock" /\ pc' = [pc EXCEPT ![p] = "t-remove"]
      /\ tree # Absent /\ tree' = [tree EXCEPT !.locked = FALSE]
      /\ UNCHANGED <<job, note, crashes, continuity, cited, events, born>>
  BY DEF Unlock, Go, At
<1>2. /\ tree \in Trees /\ tree' \in Trees /\ tree'.custody = tree.custody
      /\ tree'.there = tree.there /\ tree'.dirty = tree.dirty /\ tree'.kept = tree.kept /\ tree.kept \in Nat
  BY <1>1 DEF TreeInv, WorktreeTypeOK, Trees
<1>3. WorktreeTypeOK'
  BY <1>1, <1>2 DEF TreeInv, WorktreeTypeOK, TreeSteps, Removing
<1>4. /\ pc'[p] = "t-remove" /\ job'[p] = job[p] /\ note'[p] = note[p]
      /\ \A q \in Procs : q # p => pc'[q] = pc[q]
  BY <1>1 DEF TreeInv, WorktreeTypeOK
<1>5. job[p].seen.locked
  BY <1>1 DEF TreeInv, TreeProcInv, Removing
<1>6. GoneIsClean' /\ OwnedInv'
  BY <1>1, <1>2, <1>4, <1>5 DEF TreeInv, GoneIsClean, OwnedInv
<1>7. TreeProcInv(p)'
  BY <1>1, <1>2, <1>4 DEF TreeInv, TreeProcInv, Removing
<1>8. LeftToRemovals
  BY <1>1, <1>2 DEF LeftToRemovals
<1>9. QED
  BY <1>1, <1>3, <1>4, <1>6, <1>7, <1>8, TreeChanged

LEMMA RemoveTreeInv ==
  ASSUME TreeInv, NEW p \in Procs, RemoveTree(p)
  PROVE  TreeInv'
<1>1. /\ pc[p] = "t-remove" /\ pc' = [pc EXCEPT ![p] = "t-done"] /\ tree' = Absent
      /\ UNCHANGED <<job, note, crashes, continuity, cited, events, born>>
  BY DEF RemoveTree, Go, At
<1>2. WorktreeTypeOK'
  BY <1>1 DEF TreeInv, WorktreeTypeOK, TreeSteps
<1>3. pc'[p] = "t-done" /\ \A q \in Procs : q # p => pc'[q] = pc[q]
  BY <1>1 DEF TreeInv, WorktreeTypeOK
<1>4. GoneIsClean' /\ OwnedInv' /\ LeftToRemovals
  BY <1>1 DEF GoneIsClean, OwnedInv, LeftToRemovals
<1>5. TreeProcInv(p)'
  BY <1>3 DEF TreeProcInv, Removing
<1>6. QED
  BY <1>1, <1>2, <1>3, <1>4, <1>5, TreeChanged

LEMMA RelockInv ==
  ASSUME TreeInv, NEW p \in Procs, Relock(p)
  PROVE  TreeInv'
<1> DEFINE l == tree.locked \/ job[p].seen.locked
<1>1. /\ pc[p] = "t-remove" /\ pc' = [pc EXCEPT ![p] = "idle"]
      /\ job' = [job EXCEPT ![p] = None] /\ note' = [note EXCEPT ![p] = None]
      /\ UNCHANGED <<crashes, continuity, cited, events, born>>
      /\ tree' = IF tree = Absent THEN Absent ELSE [tree EXCEPT !.locked = l]
  BY DEF Relock, Stop, Leave, At
<1>2. /\ l \in BOOLEAN /\ (l <=> tree.locked \/ job[p].seen.locked)
  OBVIOUS
<1> HIDE DEF l
<1>3. /\ pc'[p] = "idle"
      /\ \A q \in Procs : q # p => pc'[q] = pc[q] /\ job'[q] = job[q] /\ note'[q] = note[q]
  BY <1>1 DEF TreeInv, WorktreeTypeOK
<1>4. TreeProcInv(p)'
  BY <1>3 DEF TreeProcInv, Removing
<1>5. CASE tree = Absent
  <2>1. WorktreeTypeOK'
    BY <1>1, <1>5 DEF TreeInv, WorktreeTypeOK, TreeSteps
  <2>2. GoneIsClean' /\ OwnedInv' /\ LeftToRemovals
    BY <1>1, <1>5 DEF GoneIsClean, OwnedInv, LeftToRemovals
  <2>3. QED
    BY <1>3, <1>4, <2>1, <2>2, TreeChanged
<1>6. CASE tree # Absent
  <2>1. tree \in Trees /\ tree' = [tree EXCEPT !.locked = l]
    BY <1>1, <1>6 DEF TreeInv, WorktreeTypeOK
  <2>2. /\ tree' \in Trees /\ tree'.custody = tree.custody /\ (tree'.locked <=> l)
        /\ tree'.there = tree.there /\ tree'.dirty = tree.dirty /\ tree'.kept = tree.kept /\ tree.kept \in Nat
    BY <1>2, <2>1 DEF Trees
  <2>3. WorktreeTypeOK'
    BY <1>1, <2>2 DEF TreeInv, WorktreeTypeOK, TreeSteps
  <2>4. GoneIsClean'
    BY <1>6, <2>2 DEF TreeInv, GoneIsClean
  <2>5. OwnedInv'
    BY <1>1, <1>2, <1>3, <1>6, <2>2 DEF TreeInv, OwnedInv
  <2>6. LeftToRemovals
    BY <1>1, <1>6, <2>2 DEF LeftToRemovals
  <2>7. QED
    BY <1>3, <1>4, <2>3, <2>4, <2>5, <2>6, TreeChanged
<1>7. QED
  BY <1>5, <1>6

LEMMA DieTreeInv ==
  ASSUME TreeInv, NEW p \in Procs, DieTree(p)
  PROVE  TreeInv'
<1>1. /\ pc' = [pc EXCEPT ![p] = "idle"] /\ job' = [job EXCEPT ![p] = None]
      /\ note' = [note EXCEPT ![p] = None] /\ crashes' = crashes + 1
      /\ UNCHANGED <<continuity, cited, events, born>>
  BY DEF DieTree, Dies, Leave
<1>2. tree' = tree \/ (tree # Absent /\ tree' = [tree EXCEPT !.custody = Torn])
  BY DEF DieTree
<1>3. tree # Absent =>
        /\ tree \in Trees /\ tree' \in Trees /\ tree'.there = tree.there /\ tree'.dirty = tree.dirty
        /\ tree'.kept = tree.kept /\ tree.kept \in Nat /\ tree'.custody \in {tree.custody, Torn}
  BY <1>2 DEF TreeInv, WorktreeTypeOK, Trees
<1>4. tree = Absent => tree' = Absent
  BY <1>2
<1>5. WorktreeTypeOK'
  BY <1>1, <1>3, <1>4 DEF TreeInv, WorktreeTypeOK, TreeSteps
<1>6. /\ pc'[p] = "idle"
      /\ \A q \in Procs : q # p => pc'[q] = pc[q] /\ job'[q] = job[q] /\ note'[q] = note[q]
  BY <1>1 DEF TreeInv, WorktreeTypeOK
<1>7. GoneIsClean'
  BY <1>3, <1>4 DEF TreeInv, GoneIsClean
<1>8. OwnedInv'
  <2>1. crashes' > 0
    BY <1>1 DEF TreeInv, WorktreeTypeOK
  <2>2. QED
    BY <2>1 DEF OwnedInv
<1>9. LeftToRemovals
  BY <1>1, <1>3, <1>4, TreeMarksAssumption DEF LeftToRemovals
<1>10. TreeProcInv(p)'
  BY <1>6 DEF TreeProcInv, Removing
<1>11. QED
  BY <1>5, <1>6, <1>7, <1>8, <1>9, <1>10, TreeChanged

-----------------------------------------------------------------------------
(* What happens in and about the checkout.                                 *)
LEMMA WorkFacts ==
  ASSUME tree \in Trees, Work
  PROVE  /\ tree' \in Trees
         /\ tree'.locked = tree.locked /\ tree'.custody = tree.custody
         /\ tree.kept \in Nat /\ tree'.kept \in Nat /\ tree.kept <= tree'.kept
         /\ tree'.there \/ ~tree'.dirty \/ (~tree.there /\ tree'.dirty = tree.dirty)
<1> USE DEF Trees
<1>1. CASE tree' = [tree EXCEPT !.dirty = ~@] /\ tree.there
  <2> DEFINE d == ~tree.dirty
  <2>1. d \in BOOLEAN
    OBVIOUS
  <2>2. tree' = [tree EXCEPT !.dirty = d]
    BY <1>1
  <2> HIDE DEF d
  <2>3. QED
    BY <1>1, <2>1, <2>2
<1>2. CASE tree.there /\ tree' = [tree EXCEPT !.head = @ + 1]
  BY <1>2
<1>3. CASE tree.there /\ tree' = [tree EXCEPT !.outputs = "built"]
  BY <1>3
<1>4. CASE tree.there /\ tree' = [tree EXCEPT !.outputs = "tracked", !.head = @ + 1]
  <2> DEFINE t == [tree EXCEPT !.outputs = "tracked"]
  <2>1. /\ t \in Trees /\ t.locked = tree.locked /\ t.custody = tree.custody
        /\ t.there = tree.there /\ t.kept = tree.kept /\ t.head \in Nat
    OBVIOUS
  <2>2. tree' = [t EXCEPT !.head = t.head + 1]
    BY <1>4
  <2> HIDE DEF t
  <2>3. QED
    BY <1>4, <2>1, <2>2
<1>5. CASE tree' = [tree EXCEPT !.there = FALSE, !.dirty = FALSE, !.outputs = "none"]
  <2> DEFINE t == [tree EXCEPT !.there = FALSE]
             u == [t EXCEPT !.dirty = FALSE]
  <2>1. t \in Trees /\ t.locked = tree.locked /\ t.custody = tree.custody /\ t.kept = tree.kept
    OBVIOUS
  <2>2. tree' = [u EXCEPT !.outputs = "none"]
    BY <1>5
  <2> HIDE DEF t
  <2>3. u \in Trees /\ u.locked = t.locked /\ u.custody = t.custody /\ u.kept = t.kept /\ ~u.dirty
    BY <2>1
  <2> HIDE DEF u
  <2>4. QED
    BY <2>1, <2>2, <2>3
<1>6. CASE tree.head > tree.kept /\ tree' = [tree EXCEPT !.kept = tree.head]
  BY <1>6
<1>7. QED
  BY <1>1, <1>2, <1>3, <1>4, <1>5, <1>6 DEF Work

LEMMA AroundInv ==
  ASSUME TreeInv, Around
  PROVE  TreeInv'
<1>1. UNCHANGED <<pc, job, note, crashes, born>> /\ events' \in Nat
  BY DEF Around, procVars, TreeInv, WorktreeTypeOK
<1>2. CASE Work
  <2>1. tree # Absent /\ tree \in Trees
    BY <1>2 DEF Work, TreeInv, WorktreeTypeOK
  <2>2. /\ tree' \in Trees
        /\ tree'.locked = tree.locked /\ tree'.custody = tree.custody
        /\ tree.kept <= tree'.kept
        /\ tree'.there \/ ~tree'.dirty \/ (~tree.there /\ tree'.dirty = tree.dirty)
    BY <1>2, <2>1, WorkFacts
  <2>3. WorktreeTypeOK'
    BY <1>1, <1>2, <2>2 DEF Work, TreeInv, WorktreeTypeOK
  <2>4. GoneIsClean'
    BY <2>1, <2>2 DEF TreeInv, GoneIsClean
  <2>5. OwnedInv'
    BY <1>1, <2>1, <2>2 DEF TreeInv, OwnedInv
  <2>6. LeftToRemovals
    BY <1>1, <2>1, <2>2 DEF LeftToRemovals
  <2>7. \A q \in Procs : TreeProcInv(q)'
    BY <1>1, <2>3, <2>6, RemovalsRely
  <2>8. QED
    BY <2>3, <2>4, <2>5, <2>7 DEF TreeInv
<1>3. CASE Decide
  <2>1. tree' = tree
    BY <1>3 DEF Decide
  <2>2. continuity' \in BOOLEAN /\ cited' \in BOOLEAN
    BY <1>3, Zenon DEF Decide, TreeInv, WorktreeTypeOK
  <2>3. WorktreeTypeOK'
    BY <1>1, <2>1, <2>2 DEF TreeInv, WorktreeTypeOK
  <2>4. GoneIsClean' /\ OwnedInv'
    BY <1>1, <2>1 DEF TreeInv, GoneIsClean, OwnedInv
  <2>5. \A q \in Procs : TreeProcInv(q)'
    BY <1>1, <2>1 DEF TreeInv, TreeProcInv
  <2>6. QED
    BY <2>3, <2>4, <2>5 DEF TreeInv
<1>4. QED
  BY <1>2, <1>3 DEF Around

LEMMA TreeNextInv == TreeInv /\ [WorktreeNext]_<<procVars, treeVars>> => TreeInv'
<1> SUFFICES ASSUME TreeInv, [WorktreeNext]_<<procVars, treeVars>> PROVE TreeInv'
  OBVIOUS
<1>1. CASE UNCHANGED <<procVars, treeVars>>
  <2>1. WorktreeTypeOK'
    BY <1>1 DEF TreeInv, WorktreeTypeOK, procVars, treeVars
  <2>2. GoneIsClean' /\ OwnedInv'
    BY <1>1 DEF TreeInv, GoneIsClean, OwnedInv, procVars, treeVars
  <2>3. \A q \in Procs : TreeProcInv(q)'
    BY <1>1 DEF TreeInv, TreeProcInv, procVars, treeVars
  <2>4. QED
    BY <2>1, <2>2, <2>3 DEF TreeInv
<1>2. QED
  BY <1>1, ProposeTreeInv, AdmitTreeInv, AddTreeInv, LookStepsInv, WriteLeaseInv, CleanOutputsInv,
     UnlockInv, RemoveTreeInv, RelockInv, StopsInv, DieTreeInv, AroundInv DEF WorktreeNext, TreeOps

(* Every reachable state satisfies the invariant.                          *)
THEOREM TreeInvariant == WorktreeSpec => []TreeInv
BY InitTreeInv, TreeNextInv, PTL DEF WorktreeSpec

(* A registration stays this owner's to remove, lock or lease, except      *)
(* between the two Git commands of a removal or when one died there.       *)
THEOREM RegistrationStaysOwned == WorktreeSpec => []TreeStaysOwned
<1>1. TreeInv => TreeStaysOwned
  BY DEF TreeInv, OwnedInv, TreeStaysOwned, At
<1>2. QED
  BY <1>1, TreeInvariant, PTL

(* The step in question: which of them takes a registration away, and      *)
(* which removes outputs.                                                  *)
LEMMA WhoRemoves ==
  ASSUME TreeInv, WorktreeNext, tree # Absent, tree' = Absent
  PROVE  ~tree.dirty
<1>1. tree \in Trees
  BY DEF TreeInv, WorktreeTypeOK
<1>2. ASSUME NEW p \in Procs, RemoveTree(p) PROVE ~tree.dirty
  BY <1>2 DEF RemoveTree, GitRemoves, TreeInv, GoneIsClean
<1>3. ASSUME NEW p \in Procs, tree' = [tree EXCEPT !.custody = Lease] PROVE FALSE
  BY <1>1, <1>3, TreeMarksAssumption DEF Trees
<1>4. ASSUME NEW p \in Procs, CleanOutputs(p) PROVE FALSE
  <2> DEFINE d == tree.dirty \/ tree.outputs = "tracked"
             t == [tree EXCEPT !.outputs = "none"]
  <2>1. d \in BOOLEAN
    OBVIOUS
  <2>2. tree' = [t EXCEPT !.dirty = d] \/ tree' = tree
    BY <1>4 DEF CleanOutputs
  <2>3. t \in Trees
    BY <1>1 DEF Trees
  <2> HIDE DEF d, t
  <2>4. [t EXCEPT !.dirty = d] \in Trees
    BY <2>1, <2>3 DEF Trees
  <2>5. QED
    BY <1>1, <2>2, <2>4, TreeMarksAssumption
<1>5. ASSUME NEW p \in Procs, Unlock(p) PROVE FALSE
  BY <1>1, <1>5, TreeMarksAssumption DEF Unlock, Trees
<1>6. ASSUME NEW p \in Procs, Relock(p) PROVE FALSE
  <2> DEFINE l == tree.locked \/ job[p].seen.locked
  <2>1. l \in BOOLEAN
    OBVIOUS
  <2>2. tree' = [tree EXCEPT !.locked = l]
    BY <1>6 DEF Relock
  <2> HIDE DEF l
  <2>3. QED
    BY <1>1, <2>1, <2>2, TreeMarksAssumption DEF Trees
<1>7. ASSUME NEW p \in Procs, DieTree(p) PROVE FALSE
  BY <1>1, <1>7, TreeMarksAssumption DEF DieTree, Trees
<1>8. ASSUME NEW p \in Procs, AddTree(p) PROVE FALSE
  BY <1>8 DEF AddTree
<1>9. ASSUME Around PROVE FALSE
  BY <1>1, <1>9, WorkFacts, TreeMarksAssumption DEF Around, Decide
<1>10. QED
  BY <1>2, <1>3, <1>4, <1>5, <1>6, <1>7, <1>8, <1>9
     DEF WorktreeNext, ProposeTree, AdmitTree, MakeOutputs, WriteLease, CompareTree, CheckStatus,
         FinishTree, RefuseTree, treeVars

LEMMA WhoCleans ==
  ASSUME TreeInv, WorktreeNext, NEW p \in Procs, pc[p] = "t-clean", pc'[p] = "t-status", tree' # tree
  PROVE  CleanOutputs(p)
<1>1. pc \in [Procs -> TreeSteps]
  BY DEF TreeInv, WorktreeTypeOK
<1>2. ASSUME NEW q \in Procs, NEW step, pc' = [pc EXCEPT ![q] = step] PROVE q = p
  BY <1>1, <1>2
<1>3. pc' # pc
  OBVIOUS
<1>4. QED
  BY <1>1, <1>2, <1>3
     DEF WorktreeNext, ProposeTree, AdmitTree, AddTree, MakeOutputs, WriteLease, CompareTree, CleanOutputs,
         CheckStatus, Unlock, RemoveTree, Relock, FinishTree, RefuseTree, DieTree, Around,
         Begin, Go, Keep, Stop, Leave, Dies, At, procVars, treeVars

(* "Material is preserved": a removal that meets the checkout it observed  *)
(* takes no commit it has seen that is not integrated, nothing untracked,  *)
(* and no outputs but those that were leased.                              *)
THEOREM RemovalsKeepWork == WorktreeSpec => TreesKept
<1> DEFINE Kept ==
      \A p \in Procs : pc[p] \in {"t-clean", "t-remove"} /\ note[p] = born =>
          /\ At(p, "t-remove") /\ tree # Absent /\ tree' = Absent =>
                /\ ~tree.dirty
                /\ job[p].seen.head <= tree.kept
          /\ At(p, "t-clean") /\ pc'[p] = "t-status" /\ tree' # tree => tree.custody # Absent
<1>1. TreeInv /\ [WorktreeNext]_<<procVars, treeVars>> => [Kept]_<<procVars, treeVars>>
  <2> SUFFICES ASSUME TreeInv, WorktreeNext, NEW p \in Procs,
                      pc[p] \in {"t-clean", "t-remove"}, note[p] = born
               PROVE  /\ At(p, "t-remove") /\ tree # Absent /\ tree' = Absent =>
                            /\ ~tree.dirty
                            /\ job[p].seen.head <= tree.kept
                      /\ At(p, "t-clean") /\ pc'[p] = "t-status" /\ tree' # tree => tree.custody # Absent
    OBVIOUS
  <2>1. tree # Absent =>
          /\ job[p].seen.head <= tree.kept
          /\ job[p].seen.custody # Absent => tree.custody # Absent
    BY DEF TreeInv, TreeProcInv, Removing
  <2>2. tree # Absent /\ tree' = Absent => ~tree.dirty
    BY WhoRemoves
  <2>3. At(p, "t-clean") /\ pc'[p] = "t-status" /\ tree' # tree => tree # Absent /\ SawLease(p)
    BY WhoCleans DEF At, CleanOutputs
  <2>4. QED
    BY <2>1, <2>2, <2>3, TreeMarksAssumption DEF SawLease
<1>2. QED
  BY <1>1, TreeInvariant, PTL DEF WorktreeSpec, TreesKept


-----------------------------------------------------------------------------
(* Source reconciliation.                                                  *)
ReconciliationSpec ==
    ProcsInit /\ ReconciliationInit /\ [][ReconciliationNext]_<<procVars, reconciliationVars>>

Judging == {"r-admit", "r-plan", "r-stage", "r-link", "r-unstage", "r-check", "r-project", "r-rename", "r-remove"}
JudgingSteps == Judging \cup {"idle", "r-enter"}
Planned == Judging \ {"r-admit", "r-plan"}
Staged == Planned \ {"r-stage"}

ReceiptFields == {"at", "request", "plan"}
Places == {"tmp", "both", "path", "torn"}

JudgmentTypeOK ==
    /\ pc \in [Procs -> JudgingSteps]
    /\ DOMAIN job = Procs /\ DOMAIN note = Procs
    /\ \A b \in DOMAIN receipts : DOMAIN receipts[b] = ReceiptFields /\ receipts[b].at \in Places
    /\ changes \in Nat

OneJudge == \A p \in Procs : pc[p] \in Judging => proofLock = p

(* Of a plan for a judgment b: what stays beside b has its basis and none  *)
(* of its files, what goes was listed, is listed no more and was named by  *)
(* nobody when the plan was made.                                          *)
PlanShape(b, plan) ==
    /\ \A c \in DOMAIN plan.paths :
          c = b \/ (c \in DOMAIN plan.before /\ b.basis = c.basis /\ Disjoint(b, c))
    /\ plan.drop \subseteq DOMAIN plan.before
    /\ plan.drop \cap DOMAIN plan.paths = {}
    /\ plan.drop # {} => plan.drop \cap plan.guard.cited = {}

(* As long as nothing changes what is not in the plan any more would not   *)
(* stay beside b.                                                          *)
PlanTimely(b, plan) ==
    /\ plan.asof \in Nat /\ plan.asof <= changes
    /\ plan.asof = changes =>
          \A c \in DOMAIN plan.before \ DOMAIN plan.paths : ~Stays(b, c)

ReceiptsPlanned ==
    \A b \in DOMAIN receipts :
        Held(b) => PlanShape(b, receipts[b].plan) /\ PlanTimely(b, receipts[b].plan)

(* What a process relies on under the locks.                               *)
JudgeInv(p) ==
    LET b == Mine(p)
        n == note[p] IN
    /\ pc[p] \in {"r-admit", "r-plan", "r-stage"} =>
          DOMAIN n = {"prior", "plan"} /\ (n.prior => Held(b))
    /\ pc[p] \in Planned => PlanShape(b, n.plan) /\ PlanTimely(b, n.plan)
    /\ pc[p] \in Staged \ {"r-remove"} =>
          Held(b) /\ (n.plan.asof = changes => b.basis = basis)
    /\ pc[p] \in {"r-check", "r-project", "r-rename"} => receipts[b].at = "path"
    /\ pc[p] = "r-rename" => projection = n.plan.before /\ projectionTemp = n.plan.paths
    /\ pc[p] = "r-remove" => projection = n.plan.paths

JudgmentInv ==
    /\ JudgmentTypeOK /\ OneJudge
    /\ ProjectionCoherent /\ ReceiptsPlanned
    /\ \A p \in Procs : JudgeInv(p)

-----------------------------------------------------------------------------
LEMMA InitJudgmentInv == ProcsInit /\ ReconciliationInit => JudgmentInv
<1> SUFFICES ASSUME ProcsInit, ReconciliationInit PROVE JudgmentInv
  OBVIOUS
<1>1. DOMAIN receipts = {} /\ Listed = {}
  BY DEF ReconciliationInit, Listed
<1>2. \A p \in Procs : pc[p] = "idle"
  BY DEF ProcsInit
<1>3. JudgmentTypeOK
  BY <1>1 DEF ProcsInit, ReconciliationInit, JudgmentTypeOK, JudgingSteps
<1>4. OneJudge /\ \A p \in Procs : JudgeInv(p)
  BY <1>2 DEF OneJudge, JudgeInv, Staged, Planned, Judging
<1>5. ProjectionCoherent /\ ReceiptsPlanned
  BY <1>1 DEF ProjectionCoherent, ReceiptsPlanned
<1>6. QED
  BY <1>3, <1>4, <1>5 DEF JudgmentInv

(* A new plan.                                                             *)
LEMMA GroupPlanFacts ==
  ASSUME NEW b, changes \in Nat
  PROVE  PlanShape(b, GroupPlan(b)) /\ PlanTimely(b, GroupPlan(b))
<1> DEFINE stay == {c \in Listed : Stays(b, c)}
           candidates == {c \in Listed : ~Stays(b, c) /\ c # b /\ CommittedJudgment(c)}
           plan == GroupPlan(b)
<1>1. /\ plan.before = projection /\ plan.paths = Relisted(b) /\ plan.drop = candidates \ citations
      /\ plan.asof = changes
      /\ plan.guard = IF candidates = {} THEN None ELSE Guard(b, candidates \ citations)
  BY DEF GroupPlan
<1>2. DOMAIN plan.paths = stay \cup {b}
  BY <1>1 DEF Relisted
<1> HIDE DEF plan
<1>3. plan.drop # {} => plan.guard.cited = citations
  BY <1>1 DEF Guard
<1>4. PlanShape(b, plan)
  BY <1>1, <1>2, <1>3 DEF PlanShape, Listed, Stays
<1>5. PlanTimely(b, plan)
  BY <1>1, <1>2 DEF PlanTimely, Listed
<1>6. QED
  BY <1>4, <1>5 DEF plan

(* The locks admit one process, so a step of whoever has them concerns no  *)
(* other.                                                                  *)
LEMMA JudgeAlone ==
  ASSUME JudgmentInv, NEW p \in Procs, pc[p] \in Judging \/ proofLock = None,
         NEW step, pc' = [pc EXCEPT ![p] = step],
         JudgmentTypeOK', proofLock' = p \/ step \notin Judging,
         ProjectionCoherent', ReceiptsPlanned', JudgeInv(p)'
  PROVE  JudgmentInv'
<1>1. \A q \in Procs : q # p => pc'[q] \notin Judging
  BY ScratchMarksAssumption DEF JudgmentInv, OneJudge, JudgmentTypeOK
<1>2. pc'[p] = step
  BY DEF JudgmentInv, JudgmentTypeOK
<1>3. OneJudge'
  BY <1>1, <1>2 DEF OneJudge
<1>4. \A q \in Procs : q # p => JudgeInv(q)'
  BY <1>1 DEF JudgeInv, Staged, Planned, Judging
<1>5. QED
  BY <1>3, <1>4 DEF JudgmentInv

(* A step that publishes nothing and after which the process does not have *)
(* the locks.                                                              *)
LEMMA JudgeOutside ==
  ASSUME JudgmentInv, NEW p \in Procs, UNCHANGED <<worldVars, publishedVars>>,
         NEW step \in {"idle", "r-enter"}, pc' = [pc EXCEPT ![p] = step],
         DOMAIN job' = Procs, DOMAIN note' = Procs,
         \A q \in Procs : q # p => job'[q] = job[q] /\ note'[q] = note[q],
         proofLock' = proofLock \/ proofLock = p
  PROVE  JudgmentInv'
<1>1. pc'[p] \notin Judging /\ \A q \in Procs : q # p => pc'[q] = pc[q]
  BY DEF JudgmentInv, JudgmentTypeOK, Judging
<1>2. JudgmentTypeOK'
  BY DEF JudgmentInv, JudgmentTypeOK, worldVars, publishedVars, JudgingSteps
<1>3. OneJudge'
  BY <1>1 DEF JudgmentInv, OneJudge
<1>4. ProjectionCoherent' /\ ReceiptsPlanned'
  BY DEF JudgmentInv, ProjectionCoherent, ReceiptsPlanned, Held, Listed, PlanTimely, Stays, SameWork,
         worldVars, publishedVars
<1>5. ASSUME NEW q \in Procs PROVE JudgeInv(q)'
  <2>1. CASE q = p
    BY <1>1, <2>1 DEF JudgeInv, Staged, Planned, Judging
  <2>2. CASE q # p
    BY <1>1, <2>2 DEF JudgmentInv, JudgeInv, Mine, Held, PlanTimely, Stays, SameWork, worldVars, publishedVars
  <2>3. QED
    BY <2>1, <2>2
<1>6. QED
  BY <1>2, <1>3, <1>4, <1>5 DEF JudgmentInv


(* A step under the locks that publishes nothing.                          *)
LEMMA JudgeReads ==
  ASSUME JudgmentInv, NEW p \in Procs, pc[p] \in Judging \/ proofLock = None,
         UNCHANGED <<worldVars, publishedVars>>,
         NEW step \in Judging, pc' = [pc EXCEPT ![p] = step], proofLock' = p,
         DOMAIN job' = Procs, DOMAIN note' = Procs, JudgeInv(p)'
  PROVE  JudgmentInv'
<1>1. JudgmentTypeOK'
  BY DEF JudgmentInv, JudgmentTypeOK, worldVars, publishedVars, JudgingSteps
<1>2. ProjectionCoherent' /\ ReceiptsPlanned'
  BY DEF JudgmentInv, ProjectionCoherent, ReceiptsPlanned, Held, Listed, PlanTimely, Stays, SameWork,
         worldVars, publishedVars
<1>3. QED
  BY <1>1, <1>2, JudgeAlone

(* What may be judged is on the present basis.                             *)
LEMMA AdmissibleBasis ==
  ASSUME NEW r, Admissible(r)
  PROVE  r.binding.basis = basis
<1>1. NextGroup.basis = basis
  BY DEF NextGroup, Binding
<1>2. QED
  BY <1>1 DEF Admissible, Askable, SameBasis

LEMMA LocksHeld ==
  ASSUME JudgmentInv, NEW p \in Procs, pc[p] \in Judging
  PROVE  proofLock = p
BY DEF JudgmentInv, OneJudge

-----------------------------------------------------------------------------
(* A step of each action.                                                  *)
LEMMA BeginJudgmentKeeps ==
  ASSUME JudgmentInv, NEW p \in Procs, NEW r, Begin(p, "r-enter", r), UNCHANGED reconciliationVars
  PROVE  JudgmentInv'
<1>1. /\ pc' = [pc EXCEPT ![p] = "r-enter"] /\ DOMAIN job' = Procs /\ DOMAIN note' = Procs
      /\ \A q \in Procs : q # p => job'[q] = job[q] /\ note'[q] = note[q]
  BY DEF Begin, JudgmentInv, JudgmentTypeOK
<1>2. UNCHANGED <<worldVars, publishedVars>> /\ proofLock' = proofLock
  BY DEF reconciliationVars
<1>3. QED
  BY <1>1, <1>2, JudgeOutside

LEMMA EnterReconciliationKeeps ==
  ASSUME JudgmentInv, NEW p \in Procs, EnterReconciliation(p)
  PROVE  JudgmentInv'
<1>1. /\ pc' = [pc EXCEPT ![p] = "r-admit"] /\ DOMAIN job' = Procs /\ DOMAIN note' = Procs
      /\ job' = job /\ note'[p] = [prior |-> Held(Mine(p)), plan |-> None]
      /\ pc'[p] = "r-admit" /\ proofLock = None /\ proofLock' = p
      /\ UNCHANGED <<worldVars, publishedVars>>
  BY DEF EnterReconciliation, Keep, JudgmentInv, JudgmentTypeOK
<1>2. Held(Mine(p))' = Held(Mine(p))
  BY <1>1 DEF Held, Mine, publishedVars
<1>3. JudgeInv(p)'
  BY <1>1, <1>2 DEF JudgeInv, Staged, Planned, Judging
<1>4. QED
  BY <1>1, <1>3, JudgeReads DEF Judging

LEMMA AdmitJudgmentKeeps ==
  ASSUME JudgmentInv, NEW p \in Procs, AdmitJudgment(p)
  PROVE  JudgmentInv'
<1>1. /\ pc[p] = "r-admit" /\ pc' = [pc EXCEPT ![p] = "r-plan"] /\ pc'[p] = "r-plan"
      /\ job' = job /\ note' = note /\ proofLock' = proofLock
      /\ UNCHANGED <<worldVars, publishedVars>>
  BY DEF AdmitJudgment, At, Go, JudgmentInv, JudgmentTypeOK
<1>2. proofLock = p
  BY <1>1, LocksHeld DEF Judging
<1>3. JudgeInv(p)'
  BY <1>1 DEF JudgmentInv, JudgeInv, Held, Mine, publishedVars, Staged, Planned, Judging
<1>4. QED
  BY <1>1, <1>2, <1>3, JudgeReads DEF Judging, JudgmentInv, JudgmentTypeOK

LEMMA PlanGroupKeeps ==
  ASSUME JudgmentInv, NEW p \in Procs, PlanGroup(p)
  PROVE  JudgmentInv'
<1> DEFINE b == Mine(p)
           plan == IF note[p].prior THEN receipts[b].plan ELSE GroupPlan(b)
<1>1. /\ pc[p] = "r-plan" /\ pc' = [pc EXCEPT ![p] = "r-stage"] /\ pc'[p] = "r-stage"
      /\ job' = job /\ DOMAIN note' = Procs /\ note'[p] = [note[p] EXCEPT !.plan = plan]
      /\ UNCHANGED <<worldVars, publishedVars>> /\ proofLock' = proofLock
  BY DEF PlanGroup, At, Keep, JudgmentInv, JudgmentTypeOK, reconciliationVars
<1>2. proofLock = p
  BY <1>1, LocksHeld DEF Judging
<1>3. DOMAIN note[p] = {"prior", "plan"} /\ (note[p].prior => Held(b))
  BY <1>1 DEF JudgmentInv, JudgeInv
<1>4. PlanShape(b, plan) /\ PlanTimely(b, plan)
  <2>1. CASE note[p].prior
    BY <1>3, <2>1 DEF JudgmentInv, ReceiptsPlanned, Held
  <2>2. CASE ~note[p].prior
    BY <2>2, GroupPlanFacts DEF JudgmentInv, JudgmentTypeOK
  <2>3. QED
    BY <2>1, <2>2
<1> HIDE DEF plan
<1>5. note'[p].plan = plan /\ note'[p].prior = note[p].prior /\ DOMAIN note'[p] = {"prior", "plan"}
  BY <1>1, <1>3
<1>6. Held(b)' = Held(b) /\ b' = b
  BY <1>1 DEF Held, Mine, publishedVars
<1>7. (PlanShape(Mine(p), note[p].plan) /\ PlanTimely(Mine(p), note[p].plan))'
  BY <1>1, <1>4, <1>5, <1>6 DEF PlanShape, PlanTimely, Stays, SameWork, worldVars
<1>8. JudgeInv(p)'
  BY <1>1, <1>3, <1>5, <1>6, <1>7 DEF JudgeInv, Staged, Planned, Judging
<1>9. QED
  BY <1>1, <1>2, <1>8, JudgeReads DEF Judging, JudgmentInv, JudgmentTypeOK

LEMMA CheckGroupKeeps ==
  ASSUME JudgmentInv, NEW p \in Procs, CheckGroup(p)
  PROVE  JudgmentInv'
<1>1. /\ pc[p] = "r-check" /\ pc' = [pc EXCEPT ![p] = "r-project"] /\ pc'[p] = "r-project"
      /\ job' = job /\ note' = note /\ proofLock' = proofLock
      /\ UNCHANGED <<worldVars, publishedVars>>
  BY DEF CheckGroup, At, Go, JudgmentInv, JudgmentTypeOK, reconciliationVars
<1>2. proofLock = p
  BY <1>1, LocksHeld DEF Judging
<1>3. JudgeInv(p)'
  BY <1>1 DEF JudgmentInv, JudgeInv, Held, Mine, PlanShape, PlanTimely, Stays, SameWork,
              worldVars, publishedVars, Staged, Planned, Judging
<1>4. QED
  BY <1>1, <1>2, <1>3, JudgeReads DEF Judging, JudgmentInv, JudgmentTypeOK


(* A held receipt is linked at its path, or its temporary goes.            *)
LEMMA ReceiptMoves ==
  ASSUME JudgmentInv, NEW b \in DOMAIN receipts, Held(b), NEW place \in {"both", "path"},
         receipts' = [receipts EXCEPT ![b].at = place],
         UNCHANGED <<worldVars, projection>>
  PROVE  /\ ProjectionCoherent' /\ ReceiptsPlanned' /\ Held(b)' /\ receipts'[b].at = place
         /\ \A c \in DOMAIN receipts' : DOMAIN receipts'[c] = ReceiptFields /\ receipts'[c].at \in Places
<1>1. DOMAIN receipts[b] = ReceiptFields
  BY DEF JudgmentInv, JudgmentTypeOK
<1>2. /\ DOMAIN receipts' = DOMAIN receipts
      /\ \A c \in DOMAIN receipts : c # b => receipts'[c] = receipts[c]
      /\ receipts'[b] = [receipts[b] EXCEPT !.at = place]
  OBVIOUS
<1>3. /\ receipts'[b].at = place /\ receipts'[b].plan = receipts[b].plan
      /\ DOMAIN receipts'[b] = ReceiptFields
  BY <1>1, <1>2 DEF ReceiptFields
<1>4. \A c : Held(c)' <=> Held(c)
  BY <1>2, <1>3 DEF Held
<1>5. ProjectionCoherent'
  BY <1>2, <1>3, <1>4 DEF JudgmentInv, ProjectionCoherent, Listed
<1>6. \A c \in DOMAIN receipts : receipts'[c].plan = receipts[c].plan
  BY <1>2, <1>3
<1>7. ASSUME NEW c, NEW plan, PlanTimely(c, plan) PROVE PlanTimely(c, plan)'
  BY <1>7 DEF PlanTimely, Stays, SameWork, worldVars
<1>8. ReceiptsPlanned'
  BY <1>2, <1>4, <1>6, <1>7 DEF JudgmentInv, ReceiptsPlanned, PlanShape
<1>9. \A c \in DOMAIN receipts' : DOMAIN receipts'[c] = ReceiptFields /\ receipts'[c].at \in Places
  BY <1>2, <1>3 DEF JudgmentInv, JudgmentTypeOK, Places
<1>10. QED
  BY <1>3, <1>4, <1>5, <1>8, <1>9

LEMMA StageReceiptKeeps ==
  ASSUME JudgmentInv, NEW p \in Procs, StageReceipt(p)
  PROVE  JudgmentInv'
<1> DEFINE b == Mine(p)
           file == [at |-> "tmp", request |-> job[p], plan |-> note[p].plan]
<1>1. /\ pc[p] = "r-stage" /\ pc' = [pc EXCEPT ![p] = "r-link"] /\ pc'[p] = "r-link"
      /\ job' = job /\ note' = note /\ proofLock' = proofLock
      /\ UNCHANGED <<worldVars, projection, projectionTemp>>
  BY DEF StageReceipt, At, Go, JudgmentInv, JudgmentTypeOK
<1>2. proofLock = p
  BY <1>1, LocksHeld DEF Judging
<1>3. b.basis = basis
  BY AdmissibleBasis DEF StageReceipt, Mine
<1>4. /\ note[p].prior => Held(b)
      /\ PlanShape(b, note[p].plan) /\ PlanTimely(b, note[p].plan)
  BY <1>1 DEF JudgmentInv, JudgeInv, Planned, Judging
<1>5. ASSUME NEW c, NEW plan, PlanTimely(c, plan) PROVE PlanTimely(c, plan)'
  BY <1>1, <1>5 DEF PlanTimely, Stays, SameWork, worldVars
<1>6. /\ Held(b)' /\ ProjectionCoherent' /\ ReceiptsPlanned'
      /\ \A c \in DOMAIN receipts' : DOMAIN receipts'[c] = ReceiptFields /\ receipts'[c].at \in Places
  <2>1. CASE note[p].prior
    <3>1. receipts' = receipts
      BY <2>1 DEF StageReceipt
    <3>2. Held(b)' /\ ProjectionCoherent'
      BY <1>1, <1>4, <2>1, <3>1 DEF JudgmentInv, ProjectionCoherent, Held, Listed, Mine
    <3>3. ReceiptsPlanned'
      BY <1>5, <3>1 DEF JudgmentInv, ReceiptsPlanned, Held, PlanShape
    <3>4. QED
      BY <3>1, <3>2, <3>3 DEF JudgmentInv, JudgmentTypeOK
  <2>2. CASE ~note[p].prior
    <3>1. b \notin DOMAIN receipts /\ receipts' = WithReceipt(b, file)
      BY <2>2 DEF StageReceipt
    <3> HIDE DEF b
    <3>2. /\ DOMAIN receipts' = DOMAIN receipts \cup {b} /\ receipts'[b] = file
          /\ \A c \in DOMAIN receipts : receipts'[c] = receipts[c]
      BY <3>1 DEF WithReceipt
    <3>3. Held(b)' /\ \A c : c # b => (Held(c)' <=> Held(c))
      BY <1>1, <3>2 DEF Held, Mine, b
    <3>4. Listed \subseteq DOMAIN receipts \ {b}
      BY <3>1 DEF JudgmentInv, ProjectionCoherent, Held
    <3>5. ProjectionCoherent'
      BY <1>1, <3>2, <3>3, <3>4 DEF JudgmentInv, ProjectionCoherent, Listed
    <3>6. ReceiptsPlanned'
      BY <1>4, <1>5, <3>2, <3>3 DEF JudgmentInv, ReceiptsPlanned, PlanShape, b
    <3>7. \A c \in DOMAIN receipts' : DOMAIN receipts'[c] = ReceiptFields /\ receipts'[c].at \in Places
      BY <3>2 DEF JudgmentInv, JudgmentTypeOK, ReceiptFields, Places
    <3>8. QED
      BY <3>3, <3>5, <3>6, <3>7
  <2>3. QED
    BY <2>1, <2>2
<1>7. JudgmentTypeOK'
  BY <1>1, <1>6 DEF JudgmentInv, JudgmentTypeOK, JudgingSteps, Judging, worldVars
<1>8. (PlanShape(Mine(p), note[p].plan) /\ PlanTimely(Mine(p), note[p].plan))'
  BY <1>1, <1>4, <1>5 DEF PlanShape, Mine
<1>9. JudgeInv(p)'
  BY <1>1, <1>3, <1>6, <1>8 DEF JudgeInv, Staged, Planned, Judging, Mine, worldVars
<1>10. QED
  BY <1>1, <1>2, <1>6, <1>7, <1>9, JudgeAlone DEF Judging

LEMMA LinkReceiptKeeps ==
  ASSUME JudgmentInv, NEW p \in Procs, LinkReceipt(p)
  PROVE  JudgmentInv'
<1> DEFINE b == Mine(p)
<1>1. /\ pc[p] = "r-link" /\ pc' = [pc EXCEPT ![p] = "r-unstage"] /\ pc'[p] = "r-unstage"
      /\ job' = job /\ note' = note /\ proofLock' = proofLock
      /\ UNCHANGED <<worldVars, projection, projectionTemp>>
  BY DEF LinkReceipt, At, Go, JudgmentInv, JudgmentTypeOK
<1>2. proofLock = p
  BY <1>1, LocksHeld DEF Judging
<1>3. b.basis = basis
  BY AdmissibleBasis DEF LinkReceipt, Mine
<1>4. Held(b) /\ PlanShape(b, note[p].plan) /\ PlanTimely(b, note[p].plan)
  BY <1>1 DEF JudgmentInv, JudgeInv, Staged, Planned, Judging
<1>5. b \in DOMAIN receipts /\ receipts[b].at \in {"tmp", "both", "path"}
  BY <1>4 DEF Held, JudgmentInv, JudgmentTypeOK, Places
<1>6. PICK place \in {"both", "path"} : receipts' = [receipts EXCEPT ![b].at = place]
  BY <1>5 DEF LinkReceipt
<1>7. b' = b
  BY <1>1 DEF Mine
<1> HIDE DEF b
<1>8. /\ ProjectionCoherent' /\ ReceiptsPlanned' /\ Held(b)'
      /\ \A c \in DOMAIN receipts' : DOMAIN receipts'[c] = ReceiptFields /\ receipts'[c].at \in Places
  BY <1>1, <1>4, <1>5, <1>6, <1>7, ReceiptMoves
<1>9. JudgmentTypeOK'
  BY <1>1, <1>8 DEF JudgmentInv, JudgmentTypeOK, JudgingSteps, Judging, worldVars
<1>10. (PlanShape(Mine(p), note[p].plan) /\ PlanTimely(Mine(p), note[p].plan))'
  BY <1>1, <1>4, <1>7 DEF PlanShape, PlanTimely, Stays, SameWork, worldVars, b
<1>11. JudgeInv(p)'
  BY <1>1, <1>3, <1>7, <1>8, <1>10 DEF JudgeInv, Staged, Planned, Judging, worldVars, b
<1>12. QED
  BY <1>1, <1>2, <1>8, <1>9, <1>11, JudgeAlone DEF Judging

LEMMA UnstageReceiptKeeps ==
  ASSUME JudgmentInv, NEW p \in Procs, UnstageReceipt(p)
  PROVE  JudgmentInv'
<1> DEFINE b == Mine(p)
<1>1. /\ pc[p] = "r-unstage" /\ pc' = [pc EXCEPT ![p] = "r-check"] /\ pc'[p] = "r-check"
      /\ job' = job /\ note' = note /\ proofLock' = proofLock
      /\ UNCHANGED <<worldVars, projection, projectionTemp>>
      /\ receipts' = [receipts EXCEPT ![b].at = "path"]
  BY DEF UnstageReceipt, At, Go, JudgmentInv, JudgmentTypeOK
<1>2. proofLock = p
  BY <1>1, LocksHeld DEF Judging
<1>3. /\ Held(b) /\ PlanShape(b, note[p].plan) /\ PlanTimely(b, note[p].plan)
      /\ note[p].plan.asof = changes => b.basis = basis
  BY <1>1 DEF JudgmentInv, JudgeInv, Staged, Planned, Judging
<1>4. b' = b /\ b \in DOMAIN receipts
  BY <1>1, <1>3 DEF Mine, Held
<1> HIDE DEF b
<1>5. /\ ProjectionCoherent' /\ ReceiptsPlanned' /\ Held(b)' /\ receipts'[b].at = "path"
      /\ \A c \in DOMAIN receipts' : DOMAIN receipts'[c] = ReceiptFields /\ receipts'[c].at \in Places
  BY <1>1, <1>3, <1>4, ReceiptMoves
<1>6. JudgmentTypeOK'
  BY <1>1, <1>5 DEF JudgmentInv, JudgmentTypeOK, JudgingSteps, Judging, worldVars
<1>7. (PlanShape(Mine(p), note[p].plan) /\ PlanTimely(Mine(p), note[p].plan))'
  BY <1>1, <1>3, <1>4 DEF PlanShape, PlanTimely, Stays, SameWork, worldVars, b
<1>8. JudgeInv(p)'
  BY <1>1, <1>3, <1>4, <1>5, <1>7 DEF JudgeInv, Staged, Planned, Judging, worldVars, b
<1>9. QED
  BY <1>1, <1>2, <1>5, <1>6, <1>8, JudgeAlone DEF Judging


LEMMA StageProjectionKeeps ==
  ASSUME JudgmentInv, NEW p \in Procs, StageProjection(p)
  PROVE  JudgmentInv'
<1> DEFINE b == Mine(p)
           plan == note[p].plan
<1>1. PICK step \in {"r-remove", "r-rename"} :
      /\ pc[p] = "r-project" /\ pc' = [pc EXCEPT ![p] = step] /\ pc'[p] = step
      /\ job' = job /\ note' = note /\ proofLock' = proofLock
      /\ UNCHANGED <<worldVars, receipts, projection>>
      /\ step = "r-remove" => projection = plan.paths
      /\ step = "r-rename" => projection = plan.before /\ projectionTemp' = plan.paths
  BY DEF StageProjection, Projectable, At, Go, JudgmentInv, JudgmentTypeOK
<1>2. proofLock = p
  BY <1>1, LocksHeld DEF Judging
<1>3. /\ Held(b) /\ PlanShape(b, plan) /\ PlanTimely(b, plan)
      /\ receipts[b].at = "path" /\ (plan.asof = changes => b.basis = basis)
  BY <1>1 DEF JudgmentInv, JudgeInv, Staged, Planned, Judging
<1>4. JudgmentTypeOK'
  BY <1>1 DEF JudgmentInv, JudgmentTypeOK, JudgingSteps, Judging, worldVars
<1>5. ProjectionCoherent' /\ ReceiptsPlanned'
  BY <1>1 DEF JudgmentInv, ProjectionCoherent, ReceiptsPlanned, Held, Listed, PlanTimely, Stays, SameWork,
              worldVars
<1>6. (Held(b) /\ PlanShape(b, plan) /\ PlanTimely(b, plan))' /\ b' = b /\ plan' = plan
  BY <1>1, <1>3 DEF PlanShape, PlanTimely, Stays, SameWork, worldVars, Held, Mine
<1> HIDE DEF b, plan
<1>7. /\ pc'[p] = "r-remove" => projection' = plan'.paths
      /\ pc'[p] = "r-rename" => projection' = plan'.before /\ projectionTemp' = plan'.paths
      /\ receipts'[b'].at = "path" /\ (plan'.asof = changes' => b'.basis = basis')
  BY <1>1, <1>3, <1>6 DEF worldVars
<1>8. JudgeInv(p)'
  BY <1>1, <1>6, <1>7 DEF JudgeInv, Staged, Planned, Judging, b, plan
<1>9. QED
  BY <1>1, <1>2, <1>4, <1>5, <1>8, JudgeAlone DEF Judging

LEMMA ProjectKeeps ==
  ASSUME JudgmentInv, NEW p \in Procs, Project(p)
  PROVE  JudgmentInv'
<1> DEFINE b == Mine(p)
           plan == note[p].plan
<1>1. /\ pc[p] = "r-rename" /\ pc' = [pc EXCEPT ![p] = "r-remove"] /\ pc'[p] = "r-remove"
      /\ job' = job /\ note' = note /\ proofLock' = proofLock
      /\ UNCHANGED <<worldVars, receipts>> /\ projection' = projectionTemp
  BY DEF Project, At, Go, JudgmentInv, JudgmentTypeOK
<1>2. proofLock = p
  BY <1>1, LocksHeld DEF Judging
<1>3. /\ Held(b) /\ PlanShape(b, plan) /\ PlanTimely(b, plan)
      /\ receipts[b].at = "path" /\ projection = plan.before /\ projectionTemp = plan.paths
  BY <1>1 DEF JudgmentInv, JudgeInv, Staged, Planned, Judging
<1>4. JudgmentTypeOK'
  BY <1>1 DEF JudgmentInv, JudgmentTypeOK, JudgingSteps, Judging, worldVars
<1>5. ReceiptsPlanned'
  BY <1>1 DEF JudgmentInv, ReceiptsPlanned, Held, PlanTimely, Stays, SameWork, worldVars
<1>6. (PlanShape(b, plan) /\ PlanTimely(b, plan))' /\ plan' = plan
  BY <1>1, <1>3 DEF PlanShape, PlanTimely, Stays, SameWork, worldVars, Mine
<1>7. JudgeInv(p)'
  BY <1>1, <1>3, <1>6 DEF JudgeInv, Staged, Planned, Judging
<1>8. ProjectionCoherent'
  <2> HIDE DEF b, plan
  <2>1. Listed' = DOMAIN plan.paths /\ Listed = DOMAIN plan.before
    BY <1>1, <1>3 DEF Listed
  <2>2. \A c \in Listed' : c = b \/ (c \in Listed /\ b.basis = c.basis /\ Disjoint(b, c))
    BY <1>3, <2>1 DEF PlanShape
  <2>3. \A c \in Listed' : Held(c) /\ receipts[c].at # "tmp"
    BY <1>3, <2>2 DEF JudgmentInv, ProjectionCoherent
  <2>4. ASSUME NEW c \in Listed', NEW d \in Listed' \ {c} PROVE c.basis = d.basis /\ Disjoint(c, d)
    <3>1. CASE c = b
      BY <2>2, <2>4, <3>1
    <3>2. CASE d = b
      BY <2>2, <2>4, <3>2 DEF Disjoint
    <3>3. CASE c # b /\ d # b
      BY <2>2, <2>4, <3>3 DEF JudgmentInv, ProjectionCoherent
    <3>4. QED
      BY <3>1, <3>2, <3>3
  <2>5. QED
    BY <1>1, <2>3, <2>4 DEF ProjectionCoherent, Held
<1>9. QED
  BY <1>1, <1>2, <1>4, <1>5, <1>7, <1>8, JudgeAlone DEF Judging

(* What is removed is listed by no projection and named by nobody.         *)
LEMMA RemoveReceiptFacts ==
  ASSUME JudgmentInv, NEW p \in Procs, RemoveReceipt(p)
  PROVE  \E c \in DOMAIN receipts \ (Listed \cup citations) :
            receipts' = [d \in DOMAIN receipts \ {c} |-> receipts[d]]
<1> DEFINE plan == note[p].plan
<1>1. /\ pc[p] = "r-remove"
      /\ \E c \in ToRemove(p) : receipts' = [d \in DOMAIN receipts \ {c} |-> receipts[d]]
      /\ MayRemove(Mine(p), plan, TRUE)
  BY DEF RemoveReceipt, At
<1>2. PlanShape(Mine(p), plan) /\ projection = plan.paths
  BY <1>1 DEF JudgmentInv, JudgeInv, Planned, Judging
<1> HIDE DEF plan
<1>3. PICK c \in plan.drop \cap DOMAIN receipts : receipts' = [d \in DOMAIN receipts \ {c} |-> receipts[d]]
  BY <1>1 DEF ToRemove, plan
<1>4. plan.guard.cited = citations
  BY <1>1, <1>3 DEF MayRemove, Guard
<1>5. c \notin Listed /\ c \notin citations
  BY <1>2, <1>3, <1>4 DEF PlanShape, Listed
<1>6. QED
  BY <1>3, <1>5

LEMMA RemoveReceiptKeeps ==
  ASSUME JudgmentInv, NEW p \in Procs, RemoveReceipt(p)
  PROVE  JudgmentInv'
<1>1. /\ pc[p] = "r-remove" /\ pc' = [pc EXCEPT ![p] = "r-remove"] /\ pc'[p] = "r-remove"
      /\ job' = job /\ note' = note /\ proofLock' = proofLock
      /\ UNCHANGED <<worldVars, projection, projectionTemp>>
  BY DEF RemoveReceipt, At, Go, JudgmentInv, JudgmentTypeOK
<1>2. PICK c \in DOMAIN receipts \ (Listed \cup citations) :
         receipts' = [d \in DOMAIN receipts \ {c} |-> receipts[d]]
  BY RemoveReceiptFacts
<1>3. proofLock = p
  BY <1>1, LocksHeld DEF Judging
<1>4. /\ DOMAIN receipts' = DOMAIN receipts \ {c}
      /\ \A d \in DOMAIN receipts' : receipts'[d] = receipts[d]
  BY <1>2
<1>5. JudgmentTypeOK'
  BY <1>1, <1>4 DEF JudgmentInv, JudgmentTypeOK, JudgingSteps, Judging, worldVars
<1>6. ProjectionCoherent'
  BY <1>1, <1>2, <1>4 DEF JudgmentInv, ProjectionCoherent, Held, Listed
<1>7. ReceiptsPlanned'
  BY <1>1, <1>4 DEF JudgmentInv, ReceiptsPlanned, Held, PlanShape, PlanTimely, Stays, SameWork, worldVars
<1>8. JudgeInv(p)'
  BY <1>1 DEF JudgmentInv, JudgeInv, PlanShape, PlanTimely, Stays, SameWork, worldVars, Mine,
              Staged, Planned, Judging
<1>9. QED
  BY <1>1, <1>3, <1>5, <1>6, <1>7, <1>8, JudgeAlone DEF Judging

LEMMA CommitJudgmentKeeps ==
  ASSUME JudgmentInv, NEW p \in Procs, CommitJudgment(p)
  PROVE  JudgmentInv'
<1>1. /\ pc[p] = "r-remove" /\ pc' = [pc EXCEPT ![p] = "idle"]
      /\ DOMAIN job' = Procs /\ DOMAIN note' = Procs
      /\ \A q \in Procs : q # p => job'[q] = job[q] /\ note'[q] = note[q]
      /\ UNCHANGED <<worldVars, publishedVars>>
  BY DEF CommitJudgment, At, Stop, Leave, JudgmentInv, JudgmentTypeOK
<1>2. proofLock = p
  BY <1>1, LocksHeld DEF Judging
<1>3. QED
  BY <1>1, <1>2, JudgeOutside

LEMMA RefuseReconciliationKeeps ==
  ASSUME JudgmentInv, NEW p \in Procs, RefuseReconciliation(p)
  PROVE  JudgmentInv'
<1>1. /\ pc' = [pc EXCEPT ![p] = "idle"]
      /\ DOMAIN job' = Procs /\ DOMAIN note' = Procs
      /\ \A q \in Procs : q # p => job'[q] = job[q] /\ note'[q] = note[q]
      /\ UNCHANGED <<worldVars, publishedVars>>
      /\ (proofLock' = proofLock \/ proofLock = p)
  BY DEF RefuseReconciliation, ReleasesProof, Stop, Leave, JudgmentInv, JudgmentTypeOK
<1>2. QED
  BY <1>1, JudgeOutside

LEMMA DieReconcilingKeeps ==
  ASSUME JudgmentInv, NEW p \in Procs, DieReconciling(p)
  PROVE  JudgmentInv'
<1> DEFINE b == Mine(p)
           torn == [at |-> "torn", request |-> None, plan |-> None]
<1>1. /\ pc' = [pc EXCEPT ![p] = "idle"] /\ pc'[p] = "idle"
      /\ DOMAIN job' = Procs /\ DOMAIN note' = Procs
      /\ \A q \in Procs : q # p => job'[q] = job[q] /\ note'[q] = note[q]
      /\ UNCHANGED <<worldVars, projection>>
      /\ (proofLock' = proofLock \/ proofLock = p)
  BY DEF DieReconciling, ReleasesProof, Dies, Leave, JudgmentInv, JudgmentTypeOK
<1>2. CASE UNCHANGED <<receipts, projectionTemp>>
  BY <1>1, <1>2, JudgeOutside DEF publishedVars
<1>3. JudgeInv(p)'
  BY <1>1 DEF JudgeInv, Staged, Planned, Judging
<1>4. CASE pc[p] = "r-project" /\ UNCHANGED receipts
  <2>1. JudgmentTypeOK'
    BY <1>1, <1>4 DEF JudgmentInv, JudgmentTypeOK, JudgingSteps, worldVars
  <2>2. ProjectionCoherent' /\ ReceiptsPlanned'
    BY <1>1, <1>4 DEF JudgmentInv, ProjectionCoherent, ReceiptsPlanned, Held, Listed, PlanTimely, Stays, SameWork,
                      worldVars
  <2>3. QED
    BY <1>1, <1>3, <1>4, <2>1, <2>2, JudgeAlone DEF Judging
<1>5. CASE pc[p] = "r-stage" /\ b \notin DOMAIN receipts /\ receipts' = WithReceipt(b, torn)
  <2> HIDE DEF b
  <2>1. /\ DOMAIN receipts' = DOMAIN receipts \cup {b} /\ receipts'[b] = torn
        /\ \A c \in DOMAIN receipts : receipts'[c] = receipts[c]
    BY <1>5 DEF WithReceipt
  <2>2. JudgmentTypeOK'
    <3>1. \A c \in DOMAIN receipts' : DOMAIN receipts'[c] = ReceiptFields /\ receipts'[c].at \in Places
      BY <2>1 DEF JudgmentInv, JudgmentTypeOK, ReceiptFields, Places
    <3>2. QED
      BY <1>1, <3>1 DEF JudgmentInv, JudgmentTypeOK, JudgingSteps, worldVars
  <2>3. Listed \subseteq DOMAIN receipts \ {b}
    BY <1>5 DEF JudgmentInv, ProjectionCoherent, Held
  <2>4. \A c : Held(c)' => Held(c) /\ receipts'[c] = receipts[c]
    BY <2>1 DEF Held
  <2>5. ProjectionCoherent'
    BY <1>1, <2>1, <2>3 DEF JudgmentInv, ProjectionCoherent, Held, Listed
  <2>6. ReceiptsPlanned'
    <3>1. ASSUME NEW c, NEW plan, PlanTimely(c, plan) PROVE PlanTimely(c, plan)'
      BY <1>1, <3>1 DEF PlanTimely, Stays, SameWork, worldVars
    <3>2. \A c \in DOMAIN receipts' : Held(c)' => PlanShape(c, receipts'[c].plan) /\ PlanTimely(c, receipts'[c].plan)
      BY <2>4 DEF JudgmentInv, ReceiptsPlanned, Held
    <3>3. QED
      BY <3>1, <3>2 DEF ReceiptsPlanned, PlanShape
  <2>7. QED
    BY <1>1, <1>3, <1>5, <2>2, <2>5, <2>6, JudgeAlone DEF Judging
<1>6. QED
  BY <1>2, <1>4, <1>5 DEF DieReconciling, At

LEMMA ChangeKeeps ==
  ASSUME JudgmentInv, Change
  PROVE  JudgmentInv'
<1>1. UNCHANGED <<procVars, publishedVars, proofLock>> /\ changes' = changes + 1 /\ changes \in Nat
  BY DEF Change, JudgmentInv, JudgmentTypeOK
<1>2. ASSUME NEW b, NEW plan, PlanTimely(b, plan)
      PROVE  PlanTimely(b, plan)' /\ plan.asof # changes'
  BY <1>1, <1>2 DEF PlanTimely
<1>3. JudgmentTypeOK' /\ OneJudge'
  BY <1>1 DEF JudgmentInv, JudgmentTypeOK, OneJudge, procVars, publishedVars
<1>4. ProjectionCoherent'
  BY <1>1 DEF JudgmentInv, ProjectionCoherent, Held, Listed, publishedVars
<1>5. ReceiptsPlanned'
  BY <1>1, <1>2 DEF JudgmentInv, ReceiptsPlanned, Held, PlanShape, publishedVars
<1>6. ASSUME NEW p \in Procs PROVE JudgeInv(p)'
  <2>1. /\ pc'[p] = pc[p] /\ Mine(p)' = Mine(p) /\ note'[p] = note[p]
        /\ Held(Mine(p))' = Held(Mine(p))
        /\ receipts' = receipts /\ projection' = projection /\ projectionTemp' = projectionTemp
    BY <1>1 DEF procVars, publishedVars, Mine, Held
  <2>2. pc[p] \in Planned => /\ PlanShape(Mine(p), note[p].plan)'
                             /\ PlanTimely(Mine(p), note[p].plan)'
                             /\ note[p].plan.asof # changes'
    BY <1>2, <2>1 DEF JudgmentInv, JudgeInv, PlanShape
  <2>3. QED
    BY <2>1, <2>2 DEF JudgmentInv, JudgeInv, Staged
<1>7. QED
  BY <1>3, <1>4, <1>5, <1>6 DEF JudgmentInv


LEMMA JudgmentNextInv == JudgmentInv /\ [ReconciliationNext]_<<procVars, reconciliationVars>> => JudgmentInv'
<1> SUFFICES ASSUME JudgmentInv, [ReconciliationNext]_<<procVars, reconciliationVars>> PROVE JudgmentInv'
  OBVIOUS
<1>1. ASSUME NEW p \in Procs,
             \/ EnterReconciliation(p) \/ AdmitJudgment(p) \/ PlanGroup(p)
             \/ StageReceipt(p) \/ LinkReceipt(p) \/ UnstageReceipt(p) \/ CheckGroup(p)
             \/ StageProjection(p) \/ Project(p) \/ RemoveReceipt(p) \/ CommitJudgment(p)
             \/ RefuseReconciliation(p) \/ DieReconciling(p)
      PROVE  JudgmentInv'
  BY <1>1, EnterReconciliationKeeps, AdmitJudgmentKeeps, PlanGroupKeeps, StageReceiptKeeps, LinkReceiptKeeps,
     UnstageReceiptKeeps, CheckGroupKeeps, StageProjectionKeeps, ProjectKeeps, RemoveReceiptKeeps,
     CommitJudgmentKeeps, RefuseReconciliationKeeps, DieReconcilingKeeps
<1>2. ASSUME NEW p \in Procs,
             \/ \E b \in Offered, t \in Tasks : Confirm(p, b, t)
             \/ Resume(p)
             \/ \E r \in judged : RepeatJudgment(p, r)
      PROVE  JudgmentInv'
  <2>1. \E r : Begin(p, "r-enter", r) /\ UNCHANGED reconciliationVars
    BY <1>2 DEF Confirm, Resume, RepeatJudgment
  <2>2. QED
    BY <2>1, BeginJudgmentKeeps
<1>3. CASE UNCHANGED <<procVars, reconciliationVars>>
  <2>1. /\ UNCHANGED <<pc, job, note, crashes, receipts, projection, projectionTemp, proofLock>>
        /\ UNCHANGED <<basis, post, citations, changes>>
    BY <1>3 DEF procVars, reconciliationVars, worldVars, publishedVars
  <2>2. JudgmentTypeOK' /\ OneJudge' /\ ProjectionCoherent'
    BY <2>1 DEF JudgmentInv, JudgmentTypeOK, OneJudge, ProjectionCoherent, Held, Listed
  <2>3. ASSUME NEW b, NEW plan PROVE PlanTimely(b, plan)' <=> PlanTimely(b, plan)
    BY <2>1 DEF PlanTimely, Stays, SameWork
  <2>4. ReceiptsPlanned'
    BY <2>1, <2>3 DEF JudgmentInv, ReceiptsPlanned, Held, PlanShape
  <2>5. \A p \in Procs : JudgeInv(p)'
    BY <2>1 DEF JudgmentInv, JudgeInv, Held, Mine, PlanShape, PlanTimely, Stays, SameWork
  <2>6. QED
    BY <2>2, <2>4, <2>5 DEF JudgmentInv
<1>4. QED
  BY <1>1, <1>2, <1>3, ChangeKeeps DEF ReconciliationNext

-----------------------------------------------------------------------------
(* Whatever the processes read, plan, stage and leave behind, the locks    *)
(* have one holder, the projection is coherent, and every plan in a        *)
(* receipt or under the locks is one that keeps it so.                     *)
THEOREM ReconciliationInvariant == ReconciliationSpec => []JudgmentInv
BY InitJudgmentInv, JudgmentNextInv, PTL DEF ReconciliationSpec

(* The listed judgments share a basis and no file, and each has its        *)
(* receipt; a publication stopped before its projection has removed none   *)
(* of them (group_plan, publish_group).                                    *)
THEOREM ReconciliationStaysConsistent == ReconciliationSpec => []ReconciliationConsistent
<1>1. ASSUME JudgmentInv PROVE ReconciliationConsistent
  <2>1. ProjectionCoherent
    BY <1>1 DEF JudgmentInv
  <2>2. \A b \in DOMAIN receipts :
           Held(b) /\ projection = receipts[b].plan.before => receipts[b].plan.drop \subseteq Listed
    BY <1>1 DEF JudgmentInv, ReceiptsPlanned, PlanShape, Listed
  <2>3. Listed \subseteq DOMAIN receipts
    BY <2>1 DEF ProjectionCoherent, Held
  <2>4. QED
    BY <2>1, <2>2, <2>3 DEF ReconciliationConsistent, NothingRemovedEarly
<1>2. QED
  BY <1>1, ReconciliationInvariant, PTL

(* A step that keeps the world, the list and the receipts on it takes no   *)
(* file's judgment from it.                                                *)
LEMMA CoveredKept ==
  ASSUME UNCHANGED <<worldVars, projection>>, settledJudgments \subseteq settledJudgments',
         \A c \in Listed : Held(c) => /\ Held(c)' /\ receipts'[c].request = receipts[c].request
                                      /\ (receipts[c].at # "tmp" => receipts'[c].at # "tmp")
  PROVE  Covered \subseteq Covered'
<1>1. Listed' = Listed /\ \A c : SameBasis(c)' <=> SameBasis(c)
  BY DEF Listed, SameBasis, SameWork, worldVars
<1>2. \A c \in Listed : InForce(c) => InForce(c)'
  BY <1>1 DEF InForce, CommittedJudgment
<1>3. QED
  BY <1>1, <1>2 DEF Covered

(* Only a projection changes the list: its judgment takes the place of     *)
(* those about its own files, unless something changed after its plan.     *)
LEMMA ProjectKeepsCovered ==
  ASSUME JudgmentInv, NEW p \in Procs, Project(p), note[p].plan.asof = changes,
         NEW s \in Covered \ Covered'
  PROVE  \E c \in Listed : s \in Group(c) /\ ~Disjoint(c, Mine(p))
<1> DEFINE b == Mine(p)
           plan == note[p].plan
<1>1. /\ pc[p] = "r-rename" /\ projection' = projectionTemp
      /\ UNCHANGED <<worldVars, receipts, settledJudgments>>
  BY DEF Project, At, judgmentVars
<1>2. /\ PlanTimely(b, plan) /\ b.basis = basis
      /\ projection = plan.before /\ projectionTemp = plan.paths
  BY <1>1 DEF JudgmentInv, JudgeInv, Staged, Planned, Judging
<1>3. PICK c \in Listed : InForce(c) /\ s \in Group(c)
  BY DEF Covered
<1>4. \A d : SameBasis(d)' <=> SameBasis(d)
  BY <1>1 DEF SameBasis, SameWork, worldVars
<1>5. c \notin Listed'
  <2>1. SUFFICES ASSUME c \in Listed' PROVE FALSE
    OBVIOUS
  <2>2. InForce(c)'
    BY <1>1, <1>3, <1>4, <2>1 DEF InForce, CommittedJudgment, Held
  <2>3. QED
    BY <1>3, <2>1, <2>2 DEF Covered
<1>6. c \in DOMAIN plan.before \ DOMAIN plan.paths
  BY <1>1, <1>2, <1>5 DEF Listed
<1>7. ~Stays(b, c)
  BY <1>2, <1>6 DEF PlanTimely
<1>8. b.basis = c.basis /\ SameWork(c)
  BY <1>2, <1>3 DEF InForce, SameBasis
<1>9. QED
  BY <1>3, <1>7, <1>8 DEF Stays, Disjoint

(* What is published takes a file's judgment from it only for one about    *)
(* the same files or planned before the last change, and removes no        *)
(* receipt that is listed or that another owner names (cleanup of          *)
(* publish_group).                                                         *)
THEOREM JudgmentsAreKept == ReconciliationSpec => JudgmentsKept
<1> DEFINE lost == \A s \in Covered \ Covered' : \E p \in Procs :
                      /\ At(p, "r-rename")
                      /\ \/ note[p].plan.asof # changes
                         \/ \E b \in Listed : s \in Group(b) /\ ~Disjoint(b, Mine(p))
           removed == \A b \in DOMAIN receipts \ DOMAIN receipts' : b \notin citations /\ b \notin Listed
           kept == (publishedVars' # publishedVars => lost) /\ removed
<1>1. ASSUME JudgmentInv, ReconciliationNext, publishedVars' # publishedVars PROVE lost /\ removed
  <2>1. ASSUME UNCHANGED <<worldVars, projection>>, settledJudgments' = settledJudgments,
               DOMAIN receipts \subseteq DOMAIN receipts',
               \A c \in Listed : Held(c) => /\ receipts'[c].request = receipts[c].request
                                            /\ receipts'[c].at # "torn"
                                            /\ (receipts[c].at # "tmp" => receipts'[c].at # "tmp")
        PROVE  lost /\ removed
    <3>1. Covered \subseteq Covered'
      BY <2>1, CoveredKept DEF Held
    <3>2. QED
      BY <2>1, <3>1
  <2>2. Listed \subseteq DOMAIN receipts
    BY <1>1 DEF JudgmentInv, ProjectionCoherent, Held
  <2>3. ASSUME NEW p \in Procs, StageReceipt(p) PROVE lost /\ removed
    <3>1. UNCHANGED <<worldVars, projection, settledJudgments>>
      BY <2>3 DEF StageReceipt, judgmentVars
    <3>2. /\ DOMAIN receipts \subseteq DOMAIN receipts'
          /\ \A c \in DOMAIN receipts : receipts'[c] = receipts[c]
      BY <2>3 DEF StageReceipt, WithReceipt
    <3>3. QED
      BY <2>1, <2>2, <3>1, <3>2 DEF Held
  <2>4. ASSUME NEW p \in Procs, LinkReceipt(p) \/ UnstageReceipt(p) PROVE lost /\ removed
    <3>1. UNCHANGED <<worldVars, projection, settledJudgments>>
      BY <2>4 DEF LinkReceipt, UnstageReceipt, judgmentVars
    <3>2. PICK b, place : /\ receipts' = [receipts EXCEPT ![b].at = place]
                          /\ place = "path" \/ place = "both" \/ place = receipts[b].at
      BY <2>4 DEF LinkReceipt, UnstageReceipt
    <3>3. /\ DOMAIN receipts' = DOMAIN receipts
          /\ \A c \in DOMAIN receipts : receipts'[c].request = receipts[c].request
          /\ \A c \in DOMAIN receipts : c # b => receipts'[c].at = receipts[c].at
          /\ b \in DOMAIN receipts => receipts'[b].at = place
      BY <1>1, <3>2 DEF JudgmentInv, JudgmentTypeOK, ReceiptFields
    <3>4. QED
      BY <2>1, <2>2, <3>1, <3>2, <3>3 DEF Held
  <2>5. ASSUME NEW p \in Procs, StageProjection(p) PROVE lost /\ removed
    BY <2>1, <2>2, <2>5 DEF StageProjection, judgmentVars, Held
  <2>6. ASSUME NEW p \in Procs, Project(p) PROVE lost /\ removed
    <3>1. At(p, "r-rename") /\ receipts' = receipts
      BY <2>6 DEF Project
    <3>2. QED
      BY <1>1, <2>6, <3>1, ProjectKeepsCovered
  <2>7. ASSUME NEW p \in Procs, RemoveReceipt(p) PROVE lost /\ removed
    <3>1. UNCHANGED <<worldVars, projection, settledJudgments>>
      BY <2>7 DEF RemoveReceipt, judgmentVars
    <3>2. PICK c \in DOMAIN receipts \ (Listed \cup citations) :
             receipts' = [d \in DOMAIN receipts \ {c} |-> receipts[d]]
      BY <1>1, <2>7, RemoveReceiptFacts
    <3>3. DOMAIN receipts' = DOMAIN receipts \ {c} /\ \A d \in DOMAIN receipts' : receipts'[d] = receipts[d]
      BY <3>2
    <3>4. Covered \subseteq Covered'
      BY <2>2, <3>1, <3>2, <3>3, CoveredKept DEF Held
    <3>5. QED
      BY <3>2, <3>3, <3>4
  <2>8. ASSUME NEW p \in Procs, DieReconciling(p) PROVE lost /\ removed
    <3>1. UNCHANGED <<worldVars, projection, settledJudgments>>
      BY <2>8 DEF DieReconciling
    <3>2. /\ DOMAIN receipts \subseteq DOMAIN receipts'
          /\ \A c \in DOMAIN receipts : receipts'[c] = receipts[c]
      BY <2>8 DEF DieReconciling, WithReceipt
    <3>3. QED
      BY <2>1, <2>2, <3>1, <3>2 DEF Held
  <2>9. QED
    BY <1>1, <2>3, <2>4, <2>5, <2>6, <2>7, <2>8
       DEF ReconciliationNext, Confirm, Resume, RepeatJudgment, EnterReconciliation, AdmitJudgment, PlanGroup,
           CheckGroup, CommitJudgment, RefuseReconciliation, Change, reconciliationVars
<1>2. ASSUME JudgmentInv, [ReconciliationNext]_<<procVars, reconciliationVars>>
      PROVE  [kept]_<<procVars, reconciliationVars>>
  <2>1. CASE publishedVars' = publishedVars
    BY <2>1 DEF publishedVars
  <2>2. CASE publishedVars' # publishedVars
    BY <1>1, <1>2, <2>2 DEF reconciliationVars
  <2>3. QED
    BY <2>1, <2>2
<1>3. QED
  BY <1>2, ReconciliationInvariant, PTL DEF ReconciliationSpec, JudgmentsKept

-----------------------------------------------------------------------------
(* Manual carriage, one caller at a time: nothing in it takes a lock.      *)
OneCaller == \A p, q \in Procs : ~At(p, "idle") /\ ~At(q, "idle") => p = q
CarriageSpec ==
    /\ ProcsInit /\ ManualInit
    /\ [][ManualNext /\ OneCaller']_<<procVars, manualVars>>

Stating ==
    {"m-read", "m-recover", "m-admit", "m-carrier", "m-revalidate", "m-terminal", "m-pending", "m-commit", "m-final"}
Withdrawing == {"m-retire", "m-take", "m-examine", "m-remove", "m-receipt"}

EvidenceTypeOK ==
    evidence \in [CarriageEffects -> [FileKinds -> {Absent, Torn, Whole}]]

Settled == {"used", "disposed"}

(* What a retirement of the assignment k may remove: its stages, and the   *)
(* retirement before, which was of another assignment.                     *)
RemovedWith(k) ==
    {e \in StageEffects : e.packet = k} \cup {e \in Retirements : e.packet # k}
FilesOf(k) == {<<e, f>> : e \in RemovedWith(k), f \in FileKinds}

(* The links that are ever written, and those that a stage of k may find.  *)
StageLinks(k) ==
    [kind : {"stage"}, effect : {e \in StageEffects : e.packet = k}, pending : BOOLEAN,
     history : Seq({e \in StageEffects : e.packet = k}),
     former : {None} \cup {e \in Retirements : e.packet # k}]
RetirementLinks(k) ==
    [kind : {"retirement"}, effect : {e \in Retirements : e.packet = k /\ e.ret.stage \in Settled},
     files : Seq(FilesOf(k)), done : BOOLEAN]

AllGone(files) == \A x \in Range(files) : evidence[x[1]][x[2]] = Absent

(* What the link says holds of the files it names.                         *)
LinkInv ==
    /\ link # Absent => \E k \in Packets : link \in StageLinks(k) \cup RetirementLinks(k)
    /\ HoldsStage =>
          /\ Has(link.effect, "attempt")
          /\ evidence[link.effect].result = Absent => link.pending /\ Has(link.effect, "terminal")
    /\ HoldsRetirement =>
          /\ Has(link.effect, "attempt")
          /\ link.done => Has(link.effect, "result")
          /\ evidence[link.effect].result # Absent => AllGone(link.files)

(* The link is one that a new stage of e was allowed on.                   *)
AllowedOn(e) ==
    /\ HoldsStage => link.effect.packet = e.packet /\ SameReturn(e)
    /\ HoldsRetirement => link.done /\ link.effect.packet # e.packet

(* What a call relies on at each of its steps.                             *)
CarrierInv(p) ==
    LET e == job[p] IN
    /\ At(p, "idle") \/ pc[p] \in Stating \cup Withdrawing
    /\ pc[p] \in Stating => e \in StageEffects
    /\ pc[p] \in Withdrawing => e \in Retirements
    /\ pc[p] \in Stating \ {"m-commit", "m-final"} => AllowedOn(e)
    /\ pc[p] \in Stating \ {"m-read", "m-commit", "m-final"} => note[p].link = link
    /\ pc[p] \in Stating \ {"m-read"} =>
          \/ note[p].link = Absent \/ note[p].link \in StageLinks(e.packet)
          \/ \E k \in Packets \ {e.packet} : note[p].link \in RetirementLinks(k)
    /\ pc[p] \in {"m-commit", "m-final"} =>
          \/ note[p].link = link /\ AllowedOn(e) /\ At(p, "m-final")
          \/ HoldsStage /\ link.effect = e
    /\ pc[p] \in {"m-terminal", "m-pending"} => Has(e, "attempt")
    /\ At(p, "m-pending") => Has(e, "terminal")
    /\ pc[p] \in {"m-take", "m-examine"} =>
          \/ /\ HoldsStage /\ link.effect.stage \in Settled /\ e = Retirement(link.effect)
             /\ note[p].files \in Seq(FilesOf(e.packet)) /\ ~note[p].recovering
             /\ At(p, "m-examine") => evidence[e].result = Absent
          \/ At(p, "m-examine") /\ HoldsRetirement /\ link.effect = e /\ note[p].files = link.files
             /\ note[p].recovering /\ ~link.done /\ evidence[e].result # Whole
    /\ pc[p] \in {"m-remove", "m-receipt"} =>
          /\ HoldsRetirement /\ link.effect = e /\ note[p].files = link.files
          /\ At(p, "m-remove") => ~link.done

CarriageInv ==
    /\ EvidenceTypeOK /\ OneCaller /\ packet \in Packets
    /\ DOMAIN pc = Procs /\ DOMAIN job = Procs /\ DOMAIN note = Procs
    /\ LinkInv
    /\ \A p \in Procs : CarrierInv(p)

(* Induction on the natural numbers, for sets.                             *)
LEMMA SetInduction ==
  ASSUME NEW S \in SUBSET Nat, 0 \in S, \A n \in S : n + 1 \in S
  PROVE  S = Nat
<1> DEFINE T == Nat \ S
<1> SUFFICES ASSUME T # {} PROVE FALSE
  BY Zenon
<1>1. PICK x \in T : \A y \in T : <<y, x>> \notin OpToRel(<, Nat)
  <2>1. T \subseteq Nat
    OBVIOUS
  <2> QED
    BY <2>1, WFMin, NatLessThanWellFounded, Zenon
<1>2. x \in Nat /\ x # 0 /\ x - 1 \in Nat /\ x - 1 \notin S
  <2>1. x \in Nat /\ x # 0 /\ x - 1 \in Nat /\ x = (x - 1) + 1
    OBVIOUS
  <2>2. x - 1 \notin S
    BY <2>1
  <2> QED
    BY <2>1, <2>2
<1>3. <<x - 1, x>> \in OpToRel(<, Nat)
  BY <1>2 DEF OpToRel
<1>4. x - 1 \in T
  BY <1>2
<1> HIDE DEF T
<1> QED
  BY <1>1, <1>3, <1>4, Zenon

(* The recursion of Filtered is well defined.                              *)
LEMMA FilteredStep ==
  ASSUME NEW s, NEW wanted, Len(s) \in Nat
  PROVE  \E f : /\ Filtered(s, wanted) = f[Len(s)]
                /\ f[0] = <<>>
                /\ \A n \in 1 .. Len(s) :
                      f[n] = IF s[n] \in wanted THEN Append(f[n - 1], s[n]) ELSE f[n - 1]
<1> DEFINE Is(m, f) == f = [n \in 0 .. m |->
                IF n = 0 THEN <<>>
                ELSE IF s[n] \in wanted THEN Append(f[n - 1], s[n]) ELSE f[n - 1]]
           S == {m \in Nat : \E f : Is(m, f)}
<1>1. 0 \in S
  <2>1. Is(0, [n \in 0 .. 0 |-> <<>>])
    OBVIOUS
  <2> QED
    BY <2>1
<1>2. ASSUME NEW m \in S
      PROVE  m + 1 \in S
  <2>1. PICK old : Is(m, old)
    OBVIOUS
  <2> DEFINE new == IF s[m + 1] \in wanted THEN Append(old[m], s[m + 1]) ELSE old[m]
             g == [n \in 0 .. (m + 1) |-> IF n = m + 1 THEN new ELSE old[n]]
  <2>2. \A n \in 0 .. m : old[n] = IF n = 0 THEN <<>>
                ELSE IF s[n] \in wanted THEN Append(old[n - 1], s[n]) ELSE old[n - 1]
    BY <2>1
  <2>3. \A n \in 0 .. m : g[n] = old[n]
    OBVIOUS
  <2>4. \A n \in 0 .. (m + 1) : n # 0 => n - 1 \in 0 .. m
    OBVIOUS
  <2>5. \A n \in 0 .. (m + 1) : g[n] =
                IF n = 0 THEN <<>>
                ELSE IF s[n] \in wanted THEN Append(g[n - 1], s[n]) ELSE g[n - 1]
    <3> HIDE DEF g
    <3>1. g[m + 1] = new
      BY DEF g
    <3> HIDE DEF new
    <3>2. \A n \in 0 .. (m + 1) : n \in 0 .. m \/ n = m + 1
      OBVIOUS
    <3> QED
      BY <2>2, <2>3, <2>4, <3>1, <3>2 DEF new
  <2>6. Is(m + 1, g)
    BY <2>5
  <2>7. m + 1 \in Nat /\ \E f : Is(m + 1, f)
    <3> HIDE DEF Is, g
    <3> QED
      BY <2>6
  <2> QED
    BY <2>7
<1>3. Len(s) \in S
  <2> HIDE DEF S
  <2> QED
    BY <1>1, <1>2, SetInduction DEF S
<1> DEFINE filtered == CHOOSE f : Is(Len(s), f)
<1>4. Is(Len(s), filtered)
  BY <1>3, Zenon
<1>5. Filtered(s, wanted) = filtered[Len(s)]
  BY DEF Filtered
<1> HIDE DEF filtered
<1>6. filtered[0] = <<>>
  BY <1>4
<1>7. ASSUME NEW n \in 1 .. Len(s)
      PROVE  filtered[n] = IF s[n] \in wanted THEN Append(filtered[n - 1], s[n]) ELSE filtered[n - 1]
  <2>1. n \in 0 .. Len(s) /\ n # 0
    OBVIOUS
  <2> QED
    BY <1>4, <2>1
<1> QED
  BY <1>5, <1>6, <1>7

LEMMA FilteredType ==
  ASSUME NEW S, NEW s \in Seq(S), NEW wanted
  PROVE  Filtered(s, wanted) \in Seq(S)
<1>1. PICK rec : /\ Filtered(s, wanted) = rec[Len(s)]
                 /\ rec[0] = <<>>
                 /\ \A n \in 1 .. Len(s) :
                       rec[n] = IF s[n] \in wanted THEN Append(rec[n - 1], s[n]) ELSE rec[n - 1]
  BY FilteredStep
<1> DEFINE P(n) == n <= Len(s) => rec[n] \in Seq(S)
           N == {n \in Nat : P(n)}
<1>2. P(0)
  BY <1>1
<1>3. ASSUME NEW n \in Nat, P(n)
      PROVE  P(n + 1)
  <2> SUFFICES ASSUME n + 1 <= Len(s)
               PROVE  rec[n + 1] \in Seq(S)
    OBVIOUS
  <2>1. n <= Len(s) /\ n + 1 \in 1 .. Len(s) /\ (n + 1) - 1 = n /\ s[n + 1] \in S
    OBVIOUS
  <2>2. rec[n + 1] = IF s[n + 1] \in wanted THEN Append(rec[n], s[n + 1]) ELSE rec[n]
    BY <1>1, <2>1
  <2>3. rec[n] \in Seq(S)
    BY <1>3, <2>1
  <2> QED
    BY <2>1, <2>2, <2>3
<1>4. Len(s) \in N
  <2> HIDE DEF P
  <2>1. 0 \in N /\ N \in SUBSET Nat /\ \A n \in N : n + 1 \in N
    BY <1>2, <1>3
  <2>2. N = Nat
    <3> HIDE DEF N
    <3> QED
      BY <2>1, SetInduction
  <2> QED
    BY <2>2
<1> QED
  BY <1>1, <1>4

-----------------------------------------------------------------------------
(* The effects of an assignment and what a retirement of it may remove.    *)
LEMMA EffectFacts ==
  /\ \A e \in StageEffects : e.stage \in Stages /\ e.packet \in Packets /\ e = Stage(e.packet, e.stage, e.ret)
  /\ \A e \in StageEffects : Retirement(e) \in Retirements /\ Retirement(e).packet = e.packet
  /\ \A e \in Retirements : e.stage = "retired" /\ e.packet \in Packets /\ e.ret \in StageEffects /\ e.packet = e.ret.packet
  /\ \A e \in Retirements : e \notin StageEffects
  /\ "retired" \notin Stages
<1>1. \A e \in StageEffects : e.stage \in Stages /\ e.packet \in Packets /\ e = Stage(e.packet, e.stage, e.ret)
  BY DEF StageEffects, Stage, Stages
<1>2. "retired" \notin Stages
  BY DEF Stages
<1> QED
  BY <1>1, <1>2 DEF Retirements, Retirement, Stage

(* What is linked for a stage is a link of its assignment.                 *)
LEMMA ExtendedTyped ==
  ASSUME NEW p, NEW k, NEW b \in BOOLEAN, job[p] \in StageEffects, job[p].packet = k,
         \/ note[p].link = Absent \/ note[p].link \in StageLinks(k)
         \/ \E l \in Packets \ {k} : note[p].link \in RetirementLinks(l)
  PROVE  StageLink(job[p], b, Extended(p), Former(p)) \in StageLinks(k)
<1> DEFINE S == {e \in StageEffects : e.packet = k}
<1>1. History(p) \in Seq(S) /\ Former(p) \in {None} \cup {e \in Retirements : e.packet # k}
  <2>1. CASE note[p].link = Absent
    BY <2>1 DEF History, Former, LinkRead
  <2>2. CASE note[p].link \in StageLinks(k)
    BY <2>2 DEF History, Former, LinkRead, StageLinks
  <2>3. CASE \E l \in Packets \ {k} : note[p].link \in RetirementLinks(l)
    BY <2>3 DEF History, Former, LinkRead, RetirementLinks
  <2> QED
    BY <2>1, <2>2, <2>3
<1>2. Extended(p) \in Seq(S)
  <2>1. Filtered(History(p), Range(History(p)) \ {job[p]}) \in Seq(S)
    BY <1>1, FilteredType
  <2>2. job[p] \in S
    OBVIOUS
  <2> HIDE DEF S
  <2> QED
    BY <2>1, <2>2 DEF Extended
<1> QED
  BY <1>1, <1>2 DEF StageLink, StageLinks

(* The files of the lifecycle are files of its stages and of the           *)
(* retirement before it.                                                   *)
LEMMA LifecycleFilesType ==
  ASSUME NEW k, link \in StageLinks(k)
  PROVE  LifecycleFiles \in Seq(FilesOf(k))
<1> DEFINE file == [i \in 1..(4 * Len(Lifecycle)) |->
                       <<Lifecycle[1 + ((i - 1) \div 4)], FileOrder[1 + ((i - 1) % 4)]>>]
<1>1. Lifecycle \in Seq(RemovedWith(k))
  <2>1. link.history \in Seq({e \in StageEffects : e.packet = k})
        /\ link.former \in {None} \cup {e \in Retirements : e.packet # k}
    BY DEF StageLinks
  <2>2. link.history \in Seq(RemovedWith(k))
    BY <2>1 DEF RemovedWith
  <2>3. (IF link.former = None THEN <<>> ELSE <<link.former>>) \in Seq(RemovedWith(k))
    <3>1. link.former = None \/ link.former \in RemovedWith(k)
      BY <2>1 DEF RemovedWith
    <3> QED
      BY <3>1
  <2> QED
    BY <2>2, <2>3 DEF Lifecycle
<1>2. file \in Seq(FilesOf(k))
  <2>1. Len(Lifecycle) \in Nat /\ \A j \in 1..Len(Lifecycle) : Lifecycle[j] \in RemovedWith(k)
    BY <1>1
  <2>2. \A j \in 1..4 : FileOrder[j] \in FileKinds
    BY DEF FileOrder, FileKinds
  <2> DEFINE n == Len(Lifecycle)
  <2>3. \A i \in 1..(4 * n) : 1 + ((i - 1) \div 4) \in 1..n /\ 1 + ((i - 1) % 4) \in 1..4
    <3> HIDE DEF n
    <3>1. n \in Nat
      BY <2>1 DEF n
    <3> QED
      BY <3>1
  <2>4. ASSUME NEW i \in 1..(4 * n)
        PROVE  file[i] \in FilesOf(k)
    <3>1. file[i] = <<Lifecycle[1 + ((i - 1) \div 4)], FileOrder[1 + ((i - 1) % 4)]>>
      OBVIOUS
    <3>2. Lifecycle[1 + ((i - 1) \div 4)] \in RemovedWith(k) /\ FileOrder[1 + ((i - 1) % 4)] \in FileKinds
      <4> HIDE DEF file
      <4> QED
        BY <2>1, <2>2, <2>3
    <3> QED
      BY <3>1, <3>2 DEF FilesOf
  <2>5. 4 * n \in Nat
    BY <2>1
  <2>6. file = [i \in 1..(4 * n) |-> file[i]]
    OBVIOUS
  <2> HIDE DEF file, n
  <2>7. \E m \in Nat : file \in [1..m -> FilesOf(k)]
    BY <2>4, <2>5, <2>6
  <2> QED
    BY <2>7
<1> HIDE DEF file
<1>3. Filtered(file, {x \in Range(file) : evidence[x[1]][x[2]] # Absent}) \in Seq(FilesOf(k))
  BY <1>2, FilteredType
<1> QED
  BY <1>3 DEF LifecycleFiles, file

-----------------------------------------------------------------------------
(* What a list of files ranges over.                                       *)
LEMMA FileFacts ==
  ASSUME NEW k, NEW files \in Seq(FilesOf(k)), NEW x \in Range(files)
  PROVE  /\ x[1] \in CarriageEffects /\ x[2] \in FileKinds
         /\ x[1] \in RemovedWith(k)
<1>1. x \in FilesOf(k)
  BY DEF Range
<1>2. RemovedWith(k) \subseteq CarriageEffects
  BY DEF RemovedWith, CarriageEffects
<1> QED
  BY <1>1, <1>2 DEF FilesOf

(* What a retirement removes is never its own evidence, nor the stages of  *)
(* another assignment.                                                     *)
LEMMA RemovedFacts ==
  ASSUME NEW k, NEW x \in RemovedWith(k)
  PROVE  /\ \A e \in StageEffects : e.packet # k => x # e
         /\ \A e \in Retirements : e.packet = k => x # e
  BY EffectFacts DEF RemovedWith

(* What the link is, by its kind.                                          *)
LEMMA LinkFacts ==
  ASSUME LinkInv
  PROVE  /\ HoldsStage => link.effect \in StageEffects /\ link \in StageLinks(link.effect.packet)
                          /\ link.effect.packet \in Packets
         /\ HoldsRetirement => link.effect \in Retirements /\ link \in RetirementLinks(link.effect.packet)
                          /\ link.effect.packet \in Packets
         /\ link # Absent => HoldsStage \/ HoldsRetirement
         /\ ~(HoldsStage /\ HoldsRetirement)
<1>1. \A k : \A l \in StageLinks(k) : l.kind = "stage" /\ l.effect \in StageEffects /\ l.effect.packet = k
  BY DEF StageLinks
<1>2. \A k : \A l \in RetirementLinks(k) : l.kind = "retirement" /\ l.effect \in Retirements /\ l.effect.packet = k
  BY DEF RetirementLinks
<1>3. link # Absent => \E k \in Packets : link \in StageLinks(k) \/ link \in RetirementLinks(k)
  BY DEF LinkInv
<1> QED
  BY <1>1, <1>2, <1>3 DEF HoldsStage, HoldsRetirement

LEMMA LinksAreLinks ==
  /\ \A k : Absent \notin StageLinks(k)
  /\ \A k : Absent \notin RetirementLinks(k)
<1>1. ASSUME NEW k
      PROVE  StageLinks(k) \subseteq Links
  <2>1. Seq({e \in StageEffects : e.packet = k}) \subseteq Seq(StageEffects)
    OBVIOUS
  <2> QED
    BY <2>1 DEF StageLinks, Links
<1>2. ASSUME NEW k
      PROVE  RetirementLinks(k) \subseteq Links
  <2>1. FilesOf(k) \subseteq CarriageEffects \X FileKinds
    BY DEF FilesOf, RemovedWith, CarriageEffects
  <2>2. Seq(FilesOf(k)) \subseteq Seq(CarriageEffects \X FileKinds)
    BY <2>1
  <2> QED
    BY <2>2 DEF RetirementLinks, Links
<1> QED
  BY <1>1, <1>2, ManualMarksAssumption

(* One file of one effect changes.                                         *)
LEMMA WriteFacts ==
  ASSUME EvidenceTypeOK, NEW e \in CarriageEffects, NEW f \in FileKinds,
         NEW c \in {Absent, Torn, Whole}, Write(e, f, c)
  PROVE  /\ EvidenceTypeOK'
         /\ \A x \in CarriageEffects : \A g \in FileKinds :
               evidence'[x][g] = IF x = e /\ g = f THEN c ELSE evidence[x][g]
  BY DEF EvidenceTypeOK, Write

(* A stage that is allowed is not among what a retirement removes.         *)
LEMMA AllowedElsewhere ==
  ASSUME LinkInv, NEW e \in StageEffects, AllowedOn(e), HoldsRetirement
  PROVE  link.effect # e /\ \A x \in Range(link.files) : x[1] # e
<1>1. /\ link \in RetirementLinks(link.effect.packet) /\ link.effect \in Retirements
      /\ link.effect.packet # e.packet
  BY LinkFacts DEF AllowedOn
<1>2. link.files \in Seq(FilesOf(link.effect.packet))
  BY <1>1 DEF RetirementLinks
<1> QED
  BY <1>1, <1>2, FileFacts, RemovedFacts, EffectFacts

(* A file that is created or torn leaves what the link says true.          *)
LEMMA WriteKeepsLink ==
  ASSUME LinkInv, EvidenceTypeOK, NEW e \in CarriageEffects, NEW f \in FileKinds,
         NEW c \in {Torn, Whole}, Write(e, f, c), UNCHANGED link,
         c = Torn => evidence[e][f] = Absent,
         HoldsRetirement =>
            /\ \A x \in Range(link.files) : x[1] # e
            /\ link.effect = e /\ f = "result" => AllGone(link.files)
  PROVE  LinkInv' /\ EvidenceTypeOK'
<1>1. /\ EvidenceTypeOK'
      /\ \A x \in CarriageEffects : \A g \in FileKinds :
            evidence'[x][g] = IF x = e /\ g = f THEN c ELSE evidence[x][g]
  BY WriteFacts
<1>2. Absent # Whole /\ Absent # Torn /\ Whole # Torn
  BY ManualMarksAssumption
<1>3. "attempt" \in FileKinds /\ "result" \in FileKinds /\ "terminal" \in FileKinds
  BY DEF FileKinds
<1>4. ASSUME NEW x \in CarriageEffects, NEW g \in FileKinds
      PROVE  /\ evidence[x][g] = Whole => evidence'[x][g] = Whole
             /\ evidence'[x][g] = Absent => evidence[x][g] = Absent
             /\ evidence[x][g] = Absent => evidence'[x][g] = Absent \/ (x = e /\ g = f)
  BY <1>1, <1>2
<1>5. (link # Absent => \E k \in Packets : link \in StageLinks(k) \cup RetirementLinks(k))'
  BY DEF LinkInv, StageLinks, RetirementLinks
<1>6. (HoldsStage => /\ Has(link.effect, "attempt")
                     /\ evidence[link.effect].result = Absent => link.pending /\ Has(link.effect, "terminal"))'
  <2>1. HoldsStage => link.effect \in CarriageEffects
    BY LinkFacts DEF CarriageEffects
  <2> QED
    BY <1>3, <1>4, <2>1 DEF LinkInv, HoldsStage, Has
<1>7. (HoldsRetirement => /\ Has(link.effect, "attempt")
                          /\ link.done => Has(link.effect, "result"))'
  <2>1. HoldsRetirement => link.effect \in CarriageEffects
    BY LinkFacts DEF CarriageEffects
  <2> QED
    BY <1>3, <1>4, <2>1 DEF LinkInv, HoldsRetirement, Has
<1>8. ASSUME HoldsRetirement, evidence'[link.effect].result # Absent
      PROVE  AllGone(link.files)'
  <2>1. /\ link.effect \in CarriageEffects
        /\ link.files \in Seq(FilesOf(link.effect.packet))
    BY <1>8, LinkFacts DEF CarriageEffects, RetirementLinks
  <2>2. AllGone(link.files)
    <3>1. CASE link.effect = e /\ f = "result"
      BY <1>8, <3>1
    <3>2. CASE ~(link.effect = e /\ f = "result")
      <4>1. evidence[link.effect].result # Absent
        BY <1>3, <1>4, <1>8, <2>1, <3>2
      <4> QED
        BY <1>8, <4>1 DEF LinkInv
    <3> QED
      BY <3>1, <3>2
  <2>3. ASSUME NEW x \in Range(link.files)
        PROVE  evidence'[x[1]][x[2]] = Absent
    <3>1. x[1] \in CarriageEffects /\ x[2] \in FileKinds /\ x[1] # e
      BY <1>8, <2>1, FileFacts
    <3>2. evidence[x[1]][x[2]] = Absent
      BY <2>2 DEF AllGone
    <3> QED
      BY <1>4, <3>1, <3>2
  <2> QED
    BY <2>3 DEF AllGone
<1> QED
  BY <1>1, <1>5, <1>6, <1>7, <1>8 DEF LinkInv, HoldsRetirement

(* Nobody but the caller is at work, before or after its step.             *)
LEMMA OthersIdle ==
  ASSUME CarriageInv, OneCaller', NEW p \in Procs, ~At(p, "idle") \/ ~At(p, "idle")',
         \A q \in Procs \ {p} : pc'[q] = pc[q]
  PROVE  \A q \in Procs \ {p} : CarrierInv(q)'
<1>1. \A q \in Procs \ {p} : pc'[q] = "idle"
  BY DEF CarriageInv, OneCaller, At
<1> QED
  BY <1>1 DEF CarrierInv, At, Stating, Withdrawing

(* What is kept when one step of the caller keeps the parts.               *)
LEMMA CallerKeeps ==
  ASSUME CarriageInv, OneCaller', NEW p \in Procs, ~At(p, "idle") \/ ~At(p, "idle")',
         \A q \in Procs \ {p} : pc'[q] = pc[q],
         DOMAIN pc' = Procs, DOMAIN job' = Procs, DOMAIN note' = Procs,
         packet' \in Packets, EvidenceTypeOK', LinkInv',
         At(p, "idle")' \/ CarrierInv(p)'
  PROVE  CarriageInv'
<1>1. \A q \in Procs \ {p} : CarrierInv(q)'
  BY OthersIdle
<1>2. At(p, "idle")' => CarrierInv(p)'
  BY DEF CarrierInv, At, Stating, Withdrawing
<1> QED
  BY <1>1, <1>2 DEF CarriageInv

(* Where the caller is after a step, and what it still holds.              *)
LEMMA GoFacts ==
  ASSUME CarriageInv, NEW p \in Procs, NEW s, Go(p, s)
  PROVE  /\ pc'[p] = s /\ \A q \in Procs \ {p} : pc'[q] = pc[q]
         /\ job' = job /\ note' = note
         /\ DOMAIN pc' = Procs /\ DOMAIN job' = Procs /\ DOMAIN note' = Procs
  BY DEF CarriageInv, Go

LEMMA KeepFacts ==
  ASSUME CarriageInv, NEW p \in Procs, NEW s, NEW seen, Keep(p, s, seen)
  PROVE  /\ pc'[p] = s /\ \A q \in Procs \ {p} : pc'[q] = pc[q]
         /\ job' = job /\ note'[p] = seen
         /\ DOMAIN pc' = Procs /\ DOMAIN job' = Procs /\ DOMAIN note' = Procs
  BY DEF CarriageInv, Keep

LEMMA LeaveFacts ==
  ASSUME CarriageInv, NEW p \in Procs, Leave(p)
  PROVE  /\ At(p, "idle")' /\ \A q \in Procs \ {p} : pc'[q] = pc[q]
         /\ DOMAIN pc' = Procs /\ DOMAIN job' = Procs /\ DOMAIN note' = Procs
  BY DEF CarriageInv, Leave, At

(* The link that a new stage finds is none, one of its assignment or the   *)
(* receipt of another.                                                     *)
LEMMA FoundLink ==
  ASSUME LinkInv, NEW e, AllowedOn(e)
  PROVE  \/ link = Absent \/ link \in StageLinks(e.packet)
         \/ \E k \in Packets \ {e.packet} : link \in RetirementLinks(k)
  BY LinkFacts DEF AllowedOn

(* Nothing is disturbed where neither the link nor the evidence changes.   *)
LEMMA LinkStays ==
  ASSUME CarriageInv, UNCHANGED <<link, evidence>>
  PROVE  LinkInv' /\ EvidenceTypeOK'
<1>1. (link # Absent => \E k \in Packets : link \in StageLinks(k) \cup RetirementLinks(k))'
  BY DEF CarriageInv, LinkInv, StageLinks, RetirementLinks
<1>2. EvidenceTypeOK'
  BY DEF CarriageInv, EvidenceTypeOK
<1>3. (HoldsStage => /\ Has(link.effect, "attempt")
                     /\ evidence[link.effect].result = Absent => link.pending /\ Has(link.effect, "terminal"))'
  BY DEF CarriageInv, LinkInv, HoldsStage, Has
<1>4. (HoldsRetirement => /\ Has(link.effect, "attempt")
                          /\ link.done => Has(link.effect, "result")
                          /\ evidence[link.effect].result # Absent => AllGone(link.files))'
  BY DEF CarriageInv, LinkInv, HoldsRetirement, Has, AllGone
<1> QED
  BY <1>1, <1>2, <1>3, <1>4 DEF LinkInv

LEMMA AllowedStays ==
  ASSUME NEW e, AllowedOn(e), UNCHANGED link
  PROVE  AllowedOn(e)'
  BY DEF AllowedOn, HoldsStage, HoldsRetirement, SameReturn

LEMMA EnterManualKeeps ==
  ASSUME CarriageInv, OneCaller', NEW p \in Procs, NEW e \in CarriageEffects, EnterManual(p, e)
  PROVE  CarriageInv'
<1>1. /\ pc'[p] = IF e.stage = "retired" THEN "m-retire" ELSE "m-read"
      /\ \A q \in Procs \ {p} : pc'[q] = pc[q]
      /\ job'[p] = e
      /\ DOMAIN pc' = Procs /\ DOMAIN job' = Procs /\ DOMAIN note' = Procs
  BY DEF CarriageInv, EnterManual, Begin
<1>2. LinkInv' /\ EvidenceTypeOK' /\ packet' \in Packets
  BY LinkStays DEF EnterManual, manualVars, CarriageInv
<1>3. ManualOffered(e) /\ UNCHANGED link
  BY DEF EnterManual, manualVars
<1>4. CASE e.stage = "retired"
  <2>1. e \in Retirements
    BY <1>4, EffectFacts DEF CarriageEffects
  <2>2. pc'[p] = "m-retire"
    BY <1>1, <1>4
  <2>3. CarrierInv(p)'
    BY <1>1, <2>1, <2>2 DEF CarrierInv, At, Stating, Withdrawing
  <2>4. ~At(p, "idle")'
    BY <2>2 DEF At
  <2> QED
    BY <1>1, <1>2, <2>3, <2>4, CallerKeeps
<1>5. CASE e.stage # "retired"
  <2>1. e \in StageEffects
    BY <1>5, EffectFacts DEF CarriageEffects
  <2>2. pc'[p] = "m-read"
    BY <1>1, <1>5
  <2>3. StageOffered(e)
    BY <1>3, <1>5 DEF ManualOffered
  <2>4. AllowedOn(e)
    <3>1. CASE e.stage = "disposed"
      BY <2>3, <3>1 DEF StageOffered, AllowedOn, SameReturn, HoldsStage, HoldsRetirement
    <3>2. CASE e.stage # "disposed"
      BY <2>3, <3>2 DEF StageOffered, AllowedOn, LinkAllows, HoldsStage, HoldsRetirement
    <3> QED
      BY <3>1, <3>2
  <2>5. AllowedOn(e)'
    BY <1>3, <2>4, AllowedStays
  <2>6. CarrierInv(p)'
    BY <1>1, <2>1, <2>2, <2>5 DEF CarrierInv, At, Stating, Withdrawing, AllowedOn, SameReturn
  <2>7. ~At(p, "idle")'
    BY <2>2 DEF At
  <2> QED
    BY <1>1, <1>2, <2>6, <2>7, CallerKeeps
<1> QED
  BY <1>4, <1>5

(* What a caller has while it prepares a stage.                            *)
LEMMA StatingFacts ==
  ASSUME CarriageInv, NEW p \in Procs, pc[p] \in Stating \ {"m-commit", "m-final"}
  PROVE  /\ job[p] \in StageEffects /\ job[p] \in CarriageEffects /\ AllowedOn(job[p])
         /\ pc[p] # "m-read" =>
               /\ note[p].link = link
               /\ \/ note[p].link = Absent \/ note[p].link \in StageLinks(job[p].packet)
                  \/ \E k \in Packets \ {job[p].packet} : note[p].link \in RetirementLinks(k)
         /\ ~At(p, "idle")
  BY DEF CarriageInv, CarrierInv, Stating, At, CarriageEffects

(* A stage that is still prepared after a step that kept the link.         *)
LEMMA PreparingNext ==
  ASSUME NEW p, job'[p] \in StageEffects, AllowedOn(job[p])', UNCHANGED link,
         pc'[p] \in Stating \ {"m-read", "m-commit"},
         note'[p].link = link,
         \/ link = Absent \/ link \in StageLinks(job'[p].packet)
         \/ \E k \in Packets \ {job'[p].packet} : link \in RetirementLinks(k),
         pc'[p] \in {"m-terminal", "m-pending"} => Has(job[p], "attempt")',
         pc'[p] = "m-pending" => Has(job[p], "terminal")'
  PROVE  CarrierInv(p)'
<1>1. pc'[p] # "idle" /\ pc'[p] \notin Withdrawing
  BY DEF Stating, Withdrawing
<1>2. \A k : StageLinks(k)' = StageLinks(k) /\ RetirementLinks(k)' = RetirementLinks(k)
  BY DEF StageLinks, RetirementLinks, FilesOf, RemovedWith
<1>3. pc'[p] \notin {"m-take", "m-examine", "m-remove", "m-receipt", "m-commit"}
  BY DEF Stating
<1> QED
  BY <1>1, <1>2, <1>3 DEF CarrierInv, At

LEMMA ReadStageKeeps ==
  ASSUME CarriageInv, OneCaller', NEW p \in Procs, ReadStage(p)
  PROVE  CarriageInv'
<1>1. pc[p] = "m-read" /\ UNCHANGED manualVars
  BY DEF ReadStage, At
<1>2. job[p] \in StageEffects /\ AllowedOn(job[p]) /\ ~At(p, "idle")
  BY <1>1, StatingFacts DEF Stating
<1>3. PICK s \in {"m-recover", "m-revalidate", "m-admit"} :
         Keep(p, s, [link |-> link, replay |-> Has(job[p], "terminal")])
  BY DEF ReadStage
<1>4. /\ pc'[p] = s /\ \A q \in Procs \ {p} : pc'[q] = pc[q]
      /\ job' = job /\ note'[p].link = link
      /\ DOMAIN pc' = Procs /\ DOMAIN job' = Procs /\ DOMAIN note' = Procs
  BY <1>3, KeepFacts
<1>5. LinkInv' /\ EvidenceTypeOK' /\ packet' \in Packets /\ UNCHANGED link
  BY <1>1, LinkStays DEF manualVars, CarriageInv
<1>6. AllowedOn(job[p])'
  BY <1>2, <1>4, <1>5 DEF AllowedOn, HoldsStage, HoldsRetirement, SameReturn
<1>7. \/ link = Absent \/ link \in StageLinks(job[p].packet)
      \/ \E k \in Packets \ {job[p].packet} : link \in RetirementLinks(k)
  BY <1>2, FoundLink DEF CarriageInv
<1>8. CarrierInv(p)'
  BY <1>2, <1>4, <1>5, <1>6, <1>7, PreparingNext DEF Stating
<1> QED
  BY <1>2, <1>4, <1>5, <1>8, CallerKeeps

(* A step of the preparation that creates a file of the stage, or none.    *)
LEMMA PreparingKeeps ==
  ASSUME CarriageInv, OneCaller', NEW p \in Procs, NEW s,
         pc[p] \in Stating \ {"m-read", "m-commit", "m-final"},
         s \in Stating \ {"m-read", "m-commit"},
         Go(p, s), UNCHANGED <<link, packet>>,
         \/ UNCHANGED evidence
         \/ \E f \in FileKinds : Write(job[p], f, Whole),
         s \in {"m-terminal", "m-pending"} => Has(job[p], "attempt")',
         s = "m-pending" => Has(job[p], "terminal")'
  PROVE  CarriageInv'
<1>1. /\ job[p] \in StageEffects /\ job[p] \in CarriageEffects /\ AllowedOn(job[p])
      /\ note[p].link = link /\ ~At(p, "idle")
      /\ \/ link = Absent \/ link \in StageLinks(job[p].packet)
         \/ \E k \in Packets \ {job[p].packet} : link \in RetirementLinks(k)
  BY StatingFacts
<1>2. /\ pc'[p] = s /\ \A q \in Procs \ {p} : pc'[q] = pc[q]
      /\ job' = job /\ note' = note
      /\ DOMAIN pc' = Procs /\ DOMAIN job' = Procs /\ DOMAIN note' = Procs
  BY GoFacts
<1>3. LinkInv' /\ EvidenceTypeOK'
  <2>1. CASE UNCHANGED evidence
    BY <2>1, LinkStays
  <2>2. CASE \E f \in FileKinds : Write(job[p], f, Whole)
    <3>1. PICK f \in FileKinds : Write(job[p], f, Whole)
      BY <2>2
    <3>2. LinkInv /\ EvidenceTypeOK
      BY DEF CarriageInv
    <3>3. HoldsRetirement => link.effect # job[p] /\ \A x \in Range(link.files) : x[1] # job[p]
      BY <1>1, <3>2, AllowedElsewhere
    <3> QED
      BY <1>1, <3>1, <3>2, <3>3, WriteKeepsLink, ManualMarksAssumption
  <2> QED
    BY <2>1, <2>2
<1>4. AllowedOn(job[p])'
  BY <1>1, <1>2 DEF AllowedOn, HoldsStage, HoldsRetirement, SameReturn
<1>5. packet' \in Packets
  BY DEF CarriageInv
<1>6. CarrierInv(p)'
  BY <1>1, <1>2, <1>4, PreparingNext
<1> QED
  BY <1>1, <1>2, <1>3, <1>5, <1>6, CallerKeeps

LEMMA RecoverStageKeeps ==
  ASSUME CarriageInv, OneCaller', NEW p \in Procs, RecoverStage(p)
  PROVE  CarriageInv'
<1>1. pc[p] = "m-recover" /\ Go(p, "m-final") /\ UNCHANGED <<link, packet>> /\ Write(job[p], "result", Whole)
  BY DEF RecoverStage, At
<1>2. "result" \in FileKinds
  BY DEF FileKinds
<1> QED
  BY <1>1, <1>2, PreparingKeeps DEF Stating

LEMMA AdmitStageKeeps ==
  ASSUME CarriageInv, OneCaller', NEW p \in Procs, AdmitStage(p)
  PROVE  CarriageInv'
<1>1. pc[p] = "m-admit" /\ Go(p, "m-carrier") /\ UNCHANGED <<link, packet>> /\ Write(job[p], "attempt", Whole)
  BY DEF AdmitStage, At
<1>2. "attempt" \in FileKinds
  BY DEF FileKinds
<1> QED
  BY <1>1, <1>2, PreparingKeeps DEF Stating

LEMMA WriteCarrierKeeps ==
  ASSUME CarriageInv, OneCaller', NEW p \in Procs, WriteCarrier(p)
  PROVE  CarriageInv'
<1>1. pc[p] = "m-carrier" /\ Go(p, "m-revalidate") /\ UNCHANGED <<link, packet>> /\ Write(job[p], "carrier", Whole)
  BY DEF WriteCarrier, At
<1>2. "carrier" \in FileKinds
  BY DEF FileKinds
<1> QED
  BY <1>1, <1>2, PreparingKeeps DEF Stating

LEMMA RevalidateStageKeeps ==
  ASSUME CarriageInv, OneCaller', NEW p \in Procs, RevalidateStage(p)
  PROVE  CarriageInv'
<1>1. pc[p] = "m-revalidate" /\ Go(p, "m-terminal") /\ UNCHANGED manualVars
  BY DEF RevalidateStage, At
<1>2. Has(job[p], "attempt")
  BY DEF RevalidateStage, CarriagePrepares
<1>3. Has(job[p], "attempt")'
  BY <1>1, <1>2 DEF Has, Go, manualVars
<1> QED
  BY <1>1, <1>3, PreparingKeeps DEF Stating, manualVars

LEMMA WriteTerminalKeeps ==
  ASSUME CarriageInv, OneCaller', NEW p \in Procs, WriteTerminal(p)
  PROVE  CarriageInv'
<1>1. pc[p] = "m-terminal" /\ Go(p, "m-pending") /\ UNCHANGED <<link, packet>> /\ Write(job[p], "terminal", Whole)
  BY DEF WriteTerminal, At
<1>2. job[p] \in CarriageEffects /\ EvidenceTypeOK /\ Has(job[p], "attempt")
  BY <1>1, StatingFacts DEF Stating, CarriageInv, CarrierInv
<1>3. "terminal" \in FileKinds /\ "attempt" \in FileKinds /\ job' = job
  BY <1>1 DEF FileKinds, Go
<1>4. Has(job[p], "attempt")' /\ Has(job[p], "terminal")'
  BY <1>1, <1>2, <1>3, WriteFacts DEF Has
<1> QED
  BY <1>1, <1>3, <1>4, PreparingKeeps DEF Stating

(* A link that is written names a stage whose files bear it out.           *)
LEMMA StageLinked ==
  ASSUME CarriageInv, NEW p \in Procs, NEW b \in BOOLEAN,
         job[p] \in StageEffects,
         \/ note[p].link = Absent \/ note[p].link \in StageLinks(job[p].packet)
         \/ \E k \in Packets \ {job[p].packet} : note[p].link \in RetirementLinks(k),
         Has(job[p], "attempt"),
         Has(job[p], "result") \/ (b /\ Has(job[p], "terminal")),
         link' = StageLink(job[p], b, Extended(p), Former(p)), UNCHANGED evidence
  PROVE  /\ LinkInv' /\ EvidenceTypeOK'
         /\ HoldsStage' /\ link'.effect = job[p]
<1>1. link' \in StageLinks(job[p].packet) /\ job[p].packet \in Packets
  BY ExtendedTyped, EffectFacts
<1>2. link' # Absent
  BY <1>1, LinksAreLinks
<1>3. link'.kind = "stage" /\ link'.effect = job[p] /\ link'.pending = b
  BY DEF StageLink
<1>4. (link # Absent => \E k \in Packets : link \in StageLinks(k) \cup RetirementLinks(k))'
  BY <1>1 DEF StageLinks, RetirementLinks
<1>5. HoldsStage' /\ ~HoldsRetirement'
  BY <1>2, <1>3 DEF HoldsStage, HoldsRetirement
<1>6. EvidenceTypeOK'
  BY DEF CarriageInv, EvidenceTypeOK
<1>7. /\ evidence'[link'.effect]["attempt"] = Whole
      /\ evidence'[link'.effect].result = Absent =>
            link'.pending /\ evidence'[link'.effect]["terminal"] = Whole
  BY <1>3, ManualMarksAssumption DEF Has
<1> QED
  BY <1>3, <1>4, <1>5, <1>6, <1>7 DEF LinkInv, Has

LEMMA LinkPendingKeeps ==
  ASSUME CarriageInv, OneCaller', NEW p \in Procs, LinkPending(p)
  PROVE  CarriageInv'
<1>1. /\ pc[p] = "m-pending" /\ Go(p, "m-commit") /\ UNCHANGED <<evidence, packet>>
      /\ link' = StageLink(job[p], TRUE, Extended(p), Former(p))
  BY DEF LinkPending, At
<1>2. /\ job[p] \in StageEffects /\ ~At(p, "idle")
      /\ \/ note[p].link = Absent \/ note[p].link \in StageLinks(job[p].packet)
         \/ \E k \in Packets \ {job[p].packet} : note[p].link \in RetirementLinks(k)
  BY <1>1, StatingFacts DEF Stating
<1>3. Has(job[p], "attempt") /\ Has(job[p], "terminal")
  BY <1>1 DEF CarriageInv, CarrierInv, At
<1>4. LinkInv' /\ EvidenceTypeOK' /\ HoldsStage' /\ link'.effect = job[p]
  BY <1>1, <1>2, <1>3, StageLinked
<1>5. /\ pc'[p] = "m-commit" /\ \A q \in Procs \ {p} : pc'[q] = pc[q]
      /\ job' = job /\ note' = note
      /\ DOMAIN pc' = Procs /\ DOMAIN job' = Procs /\ DOMAIN note' = Procs
  BY <1>1, GoFacts
<1>6. packet' \in Packets
  BY <1>1 DEF CarriageInv
<1>7. \A k : StageLinks(k)' = StageLinks(k) /\ RetirementLinks(k)' = RetirementLinks(k)
  BY DEF StageLinks, RetirementLinks, FilesOf, RemovedWith
<1>8. CarrierInv(p)'
  BY <1>2, <1>4, <1>5, <1>7 DEF CarrierInv, At, Stating, Withdrawing
<1> QED
  BY <1>2, <1>4, <1>5, <1>6, <1>8, CallerKeeps

(* What the caller has once the link names its stage.                      *)
LEMMA LinkedFacts ==
  ASSUME CarriageInv, NEW p \in Procs, pc[p] \in {"m-commit", "m-final"}
  PROVE  /\ job[p] \in StageEffects /\ job[p] \in CarriageEffects /\ ~At(p, "idle")
         /\ \/ note[p].link = Absent \/ note[p].link \in StageLinks(job[p].packet)
            \/ \E k \in Packets \ {job[p].packet} : note[p].link \in RetirementLinks(k)
         /\ \/ note[p].link = link /\ AllowedOn(job[p]) /\ pc[p] = "m-final"
            \/ HoldsStage /\ link.effect = job[p]
  BY DEF CarriageInv, CarrierInv, Stating, At, CarriageEffects

LEMMA CommitStageKeeps ==
  ASSUME CarriageInv, OneCaller', NEW p \in Procs, CommitStage(p)
  PROVE  CarriageInv'
<1>1. /\ pc[p] = "m-commit" /\ Go(p, "m-final") /\ UNCHANGED <<link, packet>>
      /\ Write(job[p], "result", Whole)
  BY DEF CommitStage, At
<1>2. /\ job[p] \in StageEffects /\ job[p] \in CarriageEffects /\ ~At(p, "idle")
      /\ \/ note[p].link = Absent \/ note[p].link \in StageLinks(job[p].packet)
         \/ \E k \in Packets \ {job[p].packet} : note[p].link \in RetirementLinks(k)
      /\ HoldsStage /\ link.effect = job[p]
  BY <1>1, LinkedFacts
<1>3. /\ pc'[p] = "m-final" /\ \A q \in Procs \ {p} : pc'[q] = pc[q]
      /\ job' = job /\ note' = note
      /\ DOMAIN pc' = Procs /\ DOMAIN job' = Procs /\ DOMAIN note' = Procs
  BY <1>1, GoFacts
<1>4. LinkInv' /\ EvidenceTypeOK'
  <2>1. LinkInv /\ EvidenceTypeOK /\ ~HoldsRetirement /\ "result" \in FileKinds
    BY <1>2, LinkFacts DEF CarriageInv, FileKinds
  <2> QED
    BY <1>1, <1>2, <2>1, WriteKeepsLink, ManualMarksAssumption
<1>5. packet' \in Packets /\ HoldsStage' /\ link'.effect = job'[p]
  BY <1>1, <1>2, <1>3 DEF CarriageInv, HoldsStage
<1>6. \A k : StageLinks(k)' = StageLinks(k) /\ RetirementLinks(k)' = RetirementLinks(k)
  BY DEF StageLinks, RetirementLinks, FilesOf, RemovedWith
<1>7. CarrierInv(p)'
  BY <1>2, <1>3, <1>5, <1>6 DEF CarrierInv, At, Stating, Withdrawing
<1> QED
  BY <1>2, <1>3, <1>4, <1>5, <1>7, CallerKeeps

LEMMA LinkFinalKeeps ==
  ASSUME CarriageInv, OneCaller', NEW p \in Procs, LinkFinal(p)
  PROVE  CarriageInv'
<1>1. /\ pc[p] = "m-final" /\ Leave(p) /\ UNCHANGED <<evidence, packet>>
      /\ Has(job[p], "attempt") /\ Has(job[p], "result")
      /\ link' = IF KeepsLater(p) THEN link ELSE StageLink(job[p], FALSE, Extended(p), Former(p))
  BY DEF LinkFinal, At, Stop, CarriageCommitted
<1>2. /\ job[p] \in StageEffects /\ ~At(p, "idle")
      /\ \/ note[p].link = Absent \/ note[p].link \in StageLinks(job[p].packet)
         \/ \E k \in Packets \ {job[p].packet} : note[p].link \in RetirementLinks(k)
  BY <1>1, LinkedFacts
<1>3. LinkInv' /\ EvidenceTypeOK'
  <2>1. CASE KeepsLater(p)
    BY <1>1, <2>1, LinkStays
  <2>2. CASE ~KeepsLater(p)
    BY <1>1, <1>2, <2>2, StageLinked
  <2> QED
    BY <2>1, <2>2
<1>4. /\ At(p, "idle")' /\ \A q \in Procs \ {p} : pc'[q] = pc[q]
      /\ DOMAIN pc' = Procs /\ DOMAIN job' = Procs /\ DOMAIN note' = Procs
  BY <1>1, LeaveFacts
<1>5. packet' \in Packets
  BY <1>1 DEF CarriageInv
<1> QED
  BY <1>2, <1>3, <1>4, <1>5, CallerKeeps

(* What the caller of a retirement has before it says so in the link.      *)
LEMMA RetiringFacts ==
  ASSUME CarriageInv, NEW p \in Procs, pc[p] \in {"m-take", "m-examine"}
  PROVE  /\ job[p] \in Retirements /\ job[p] \in CarriageEffects /\ ~At(p, "idle")
         /\ \/ /\ HoldsStage /\ link.effect.stage \in Settled /\ job[p] = Retirement(link.effect)
               /\ note[p].files \in Seq(FilesOf(job[p].packet)) /\ ~note[p].recovering
               /\ pc[p] = "m-examine" => evidence[job[p]].result = Absent
            \/ /\ pc[p] = "m-examine" /\ HoldsRetirement /\ link.effect = job[p] /\ note[p].files = link.files
               /\ note[p].recovering /\ ~link.done /\ evidence[job[p]].result # Whole
  BY DEF CarriageInv, CarrierInv, Withdrawing, At, CarriageEffects

LEMMA RemovingFacts ==
  ASSUME CarriageInv, NEW p \in Procs, pc[p] \in {"m-remove", "m-receipt"}
  PROVE  /\ job[p] \in Retirements /\ job[p] \in CarriageEffects /\ ~At(p, "idle")
         /\ HoldsRetirement /\ link.effect = job[p] /\ note[p].files = link.files
         /\ pc[p] = "m-remove" => ~link.done
         /\ link \in RetirementLinks(job[p].packet) /\ link.files \in Seq(FilesOf(job[p].packet))
         /\ \A x \in Range(link.files) : x[1] # job[p] /\ x[1] \in CarriageEffects /\ x[2] \in FileKinds
<1>1. /\ job[p] \in Retirements /\ job[p] \in CarriageEffects /\ ~At(p, "idle")
      /\ HoldsRetirement /\ link.effect = job[p] /\ note[p].files = link.files
      /\ pc[p] = "m-remove" => ~link.done
  BY DEF CarriageInv, CarrierInv, Withdrawing, At, CarriageEffects
<1>2. link \in RetirementLinks(job[p].packet)
  BY <1>1, LinkFacts DEF CarriageInv
<1>3. link.files \in Seq(FilesOf(job[p].packet))
  BY <1>2 DEF RetirementLinks
<1>4. \A x \in Range(link.files) : x[1] # job[p] /\ x[1] \in CarriageEffects /\ x[2] \in FileKinds
  BY <1>1, <1>3, FileFacts, RemovedFacts
<1> QED
  BY <1>1, <1>2, <1>3, <1>4

(* What a step of a retirement has to leave for the next one.              *)
LEMMA WithdrawingNext ==
  ASSUME NEW p, job'[p] \in Retirements, pc'[p] \in Withdrawing \ {"m-retire"},
         pc'[p] \in {"m-take", "m-examine"} =>
            \/ /\ HoldsStage' /\ link'.effect.stage \in Settled /\ job'[p] = Retirement(link'.effect)
               /\ note'[p].files \in Seq(FilesOf(job'[p].packet)) /\ ~note'[p].recovering
               /\ pc'[p] = "m-examine" => evidence'[job'[p]].result = Absent
            \/ /\ pc'[p] = "m-examine" /\ HoldsRetirement' /\ link'.effect = job'[p] /\ note'[p].files = link'.files
               /\ note'[p].recovering /\ ~link'.done /\ evidence'[job'[p]].result # Whole,
         pc'[p] \in {"m-remove", "m-receipt"} =>
            /\ HoldsRetirement' /\ link'.effect = job'[p] /\ note'[p].files = link'.files
            /\ pc'[p] = "m-remove" => ~link'.done
  PROVE  CarrierInv(p)'
<1>1. pc'[p] # "idle" /\ pc'[p] \notin Stating /\ pc'[p] \notin {"m-commit", "m-final", "m-terminal", "m-pending"}
  BY DEF Stating, Withdrawing
<1>2. \A k : FilesOf(k)' = FilesOf(k)
  BY DEF FilesOf, RemovedWith
<1> QED
  BY <1>1, <1>2 DEF CarrierInv, At, Retirement, Stage

LEMMA ReadRetirementKeeps ==
  ASSUME CarriageInv, OneCaller', NEW p \in Procs, ReadRetirement(p)
  PROVE  CarriageInv'
<1> DEFINE e == job[p]
           seen == [files |-> IF HoldsRetirement THEN link.files ELSE LifecycleFiles,
                    recovering |-> HoldsRetirement]
           s == IF HoldsRetirement /\ Has(e, "result") THEN "m-receipt"
                ELSE IF HoldsRetirement THEN "m-examine" ELSE "m-take"
<1>1. /\ pc[p] = "m-retire" /\ Keep(p, s, seen) /\ UNCHANGED manualVars
      /\ link # Absent /\ ManualOffered(e)
  BY DEF ReadRetirement, At
<1>2. e \in Retirements /\ ~At(p, "idle")
  BY <1>1 DEF CarriageInv, CarrierInv, Withdrawing, At
<1>3. /\ pc'[p] = s /\ \A q \in Procs \ {p} : pc'[q] = pc[q]
      /\ job' = job /\ note'[p] = seen
      /\ DOMAIN pc' = Procs /\ DOMAIN job' = Procs /\ DOMAIN note' = Procs
  BY <1>1, KeepFacts
<1>4. /\ UNCHANGED <<link, evidence>> /\ LinkInv' /\ EvidenceTypeOK' /\ packet' \in Packets
      /\ HoldsStage' = HoldsStage /\ HoldsRetirement' = HoldsRetirement
  BY <1>1, LinkStays DEF manualVars, CarriageInv, HoldsStage, HoldsRetirement
<1>5. IF HoldsRetirement THEN link.effect = e ELSE Terminal /\ e = Retirement(link.effect)
  BY <1>1, <1>2, EffectFacts DEF ManualOffered, RetirementOffered
<1>6. CarrierInv(p)'
  <2>1. CASE HoldsRetirement /\ Has(e, "result")
    <3>1. pc'[p] = "m-receipt" /\ note'[p].files = link.files
      BY <1>3, <2>1
    <3> QED
      BY <1>2, <1>3, <1>4, <1>5, <2>1, <3>1, WithdrawingNext DEF Withdrawing
  <2>2. CASE HoldsRetirement /\ ~Has(e, "result")
    <3>1. pc'[p] = "m-examine" /\ note'[p].files = link.files /\ note'[p].recovering
      BY <1>3, <2>2
    <3>2. ~link.done /\ evidence[e].result # Whole
      BY <1>5, <2>2 DEF CarriageInv, LinkInv, Has
    <3> QED
      BY <1>2, <1>3, <1>4, <1>5, <2>2, <3>1, <3>2, WithdrawingNext DEF Withdrawing
  <2>3. CASE ~HoldsRetirement
    <3>1. pc'[p] = "m-take" /\ note'[p].files = LifecycleFiles /\ ~note'[p].recovering
      BY <1>3, <2>3
    <3>2. HoldsStage /\ link.effect.stage \in Settled /\ e = Retirement(link.effect)
      BY <1>5, <2>3 DEF Terminal, Settled
    <3>3. link.effect \in StageEffects /\ link \in StageLinks(link.effect.packet)
      BY <3>2, LinkFacts DEF CarriageInv
    <3>4. e.packet = link.effect.packet
      BY <3>2, <3>3, EffectFacts
    <3>5. LifecycleFiles \in Seq(FilesOf(e.packet))
      BY <3>3, <3>4, LifecycleFilesType
    <3> QED
      BY <1>2, <1>3, <1>4, <3>1, <3>2, <3>5, WithdrawingNext DEF Withdrawing
  <2> QED
    BY <2>1, <2>2, <2>3
<1> QED
  BY <1>2, <1>3, <1>4, <1>6, CallerKeeps

LEMMA AdmitRetirementKeeps ==
  ASSUME CarriageInv, OneCaller', NEW p \in Procs, AdmitRetirement(p)
  PROVE  CarriageInv'
<1>1. /\ pc[p] = "m-take" /\ Go(p, "m-examine") /\ UNCHANGED <<link, packet>>
      /\ Write(job[p], "attempt", Whole) /\ evidence[job[p]].result = Absent
  BY DEF AdmitRetirement, At
<1>2. /\ job[p] \in Retirements /\ job[p] \in CarriageEffects /\ ~At(p, "idle")
      /\ HoldsStage /\ link.effect.stage \in Settled /\ job[p] = Retirement(link.effect)
      /\ note[p].files \in Seq(FilesOf(job[p].packet)) /\ ~note[p].recovering
  BY <1>1, RetiringFacts
<1>3. /\ pc'[p] = "m-examine" /\ \A q \in Procs \ {p} : pc'[q] = pc[q]
      /\ job' = job /\ note' = note
      /\ DOMAIN pc' = Procs /\ DOMAIN job' = Procs /\ DOMAIN note' = Procs
  BY <1>1, GoFacts
<1>4. LinkInv /\ EvidenceTypeOK /\ ~HoldsRetirement /\ "attempt" \in FileKinds /\ "result" \in FileKinds
  BY <1>2, LinkFacts DEF CarriageInv, FileKinds
<1>5. LinkInv' /\ EvidenceTypeOK'
  BY <1>1, <1>2, <1>4, WriteKeepsLink, ManualMarksAssumption
<1>6. evidence'[job[p]].result = Absent
  BY <1>1, <1>2, <1>4, WriteFacts
<1>7. HoldsStage' /\ packet' \in Packets
  BY <1>1, <1>2 DEF HoldsStage, CarriageInv
<1>8. CarrierInv(p)'
  BY <1>1, <1>2, <1>3, <1>6, <1>7, WithdrawingNext DEF Withdrawing
<1> QED
  BY <1>2, <1>3, <1>5, <1>7, <1>8, CallerKeeps

LEMMA RetiringKeeps ==
  ASSUME CarriageInv, OneCaller', NEW p \in Procs, Retiring(p)
  PROVE  CarriageInv'
<1> DEFINE e == job[p]
<1>1. /\ pc[p] = "m-examine" /\ Go(p, "m-remove") /\ UNCHANGED <<evidence, packet>>
      /\ link' = RetirementLink(e, note[p].files, FALSE)
      /\ Has(e, "attempt") /\ evidence[e].result # Torn
  BY DEF Retiring, At, CarriagePrepares
<1>2. e \in Retirements /\ e \in CarriageEffects /\ ~At(p, "idle")
  BY <1>1, RetiringFacts
<1>3. /\ pc'[p] = "m-remove" /\ \A q \in Procs \ {p} : pc'[q] = pc[q]
      /\ job' = job /\ note' = note
      /\ DOMAIN pc' = Procs /\ DOMAIN job' = Procs /\ DOMAIN note' = Procs
  BY <1>1, GoFacts
<1>4. e.ret.stage \in Settled /\ note[p].files \in Seq(FilesOf(e.packet)) /\ evidence[e].result = Absent
  <2>1. CASE HoldsStage /\ e = Retirement(link.effect) /\ link.effect.stage \in Settled
             /\ note[p].files \in Seq(FilesOf(e.packet)) /\ evidence[e].result = Absent
    BY <2>1 DEF Retirement, Stage
  <2>2. CASE HoldsRetirement /\ link.effect = e /\ note[p].files = link.files /\ evidence[e].result # Whole
    <3>1. link \in RetirementLinks(e.packet)
      BY <2>2, LinkFacts DEF CarriageInv
    <3>2. evidence[e].result \in {Absent, Torn, Whole}
      BY <1>2 DEF CarriageInv, EvidenceTypeOK, FileKinds
    <3> QED
      BY <1>1, <2>2, <3>1, <3>2 DEF RetirementLinks
  <2> QED
    BY <1>1, <2>1, <2>2, RetiringFacts
<1>5. link' \in RetirementLinks(e.packet) /\ e.packet \in Packets
  BY <1>1, <1>2, <1>4, EffectFacts DEF RetirementLinks, RetirementLink
<1>6. link' # Absent /\ link'.kind = "retirement" /\ link'.effect = e /\ link'.files = note[p].files /\ ~link'.done
  BY <1>1, <1>5, LinksAreLinks DEF RetirementLink
<1>7. HoldsRetirement' /\ ~HoldsStage'
  BY <1>6 DEF HoldsRetirement, HoldsStage
<1>8. LinkInv'
  <2>1. (link # Absent => \E k \in Packets : link \in StageLinks(k) \cup RetirementLinks(k))'
    BY <1>5 DEF StageLinks, RetirementLinks, FilesOf, RemovedWith
  <2> QED
    BY <1>1, <1>4, <1>6, <1>7, <2>1 DEF LinkInv, Has
<1>9. EvidenceTypeOK' /\ packet' \in Packets
  BY <1>1 DEF CarriageInv, EvidenceTypeOK
<1>10. CarrierInv(p)'
  BY <1>2, <1>3, <1>6, <1>7, WithdrawingNext DEF Withdrawing
<1> QED
  BY <1>2, <1>3, <1>8, <1>9, <1>10, CallerKeeps

LEMMA LinkTypeStays ==
  ASSUME LinkInv, UNCHANGED link
  PROVE  (link # Absent => \E k \in Packets : link \in StageLinks(k) \cup RetirementLinks(k))'
<1>1. \A k : StageLinks(k)' = StageLinks(k) /\ RetirementLinks(k)' = RetirementLinks(k)
  BY DEF StageLinks, RetirementLinks, FilesOf, RemovedWith
<1> QED
  BY <1>1 DEF LinkInv

LEMMA RemoveFileKeeps ==
  ASSUME CarriageInv, OneCaller', NEW p \in Procs, RemoveFile(p)
  PROVE  CarriageInv'
<1> DEFINE left == Filtered(note[p].files, {x \in Range(note[p].files) : evidence[x[1]][x[2]] # Absent})
           e == job[p]
<1>1. /\ pc[p] = "m-remove" /\ UNCHANGED procVars /\ UNCHANGED <<link, packet>>
      /\ left # <<>> /\ Write(left[1][1], left[1][2], Absent)
  BY DEF RemoveFile, At
<1>2. /\ e \in Retirements /\ e \in CarriageEffects /\ ~At(p, "idle")
      /\ HoldsRetirement /\ link.effect = e /\ note[p].files = link.files /\ ~link.done
      /\ link.files \in Seq(FilesOf(e.packet))
      /\ \A x \in Range(link.files) : x[1] # e /\ x[1] \in CarriageEffects /\ x[2] \in FileKinds
  BY <1>1, RemovingFacts
<1>3. PICK x \in FilesOf(e.packet) : left[1] = x
  <2>1. left \in Seq(FilesOf(e.packet))
    BY <1>2, FilteredType
  <2> HIDE DEF left
  <2> QED
    BY <1>1, <2>1
<1>4. x[1] \in CarriageEffects /\ x[2] \in FileKinds /\ x[1] # e
  <2>1. x[1] \in RemovedWith(e.packet) /\ x[2] \in FileKinds
    BY DEF FilesOf
  <2>2. x[1] \in CarriageEffects
    BY <2>1 DEF RemovedWith, CarriageEffects
  <2> QED
    BY <1>2, <2>1, <2>2, RemovedFacts
<1>5. Write(x[1], x[2], Absent)
  BY <1>1, <1>3
<1>6. LinkInv /\ EvidenceTypeOK
  BY DEF CarriageInv
<1> HIDE DEF left
<1>7. /\ EvidenceTypeOK'
      /\ \A y \in CarriageEffects : \A g \in FileKinds :
            evidence'[y][g] = IF y = x[1] /\ g = x[2] THEN Absent ELSE evidence[y][g]
  BY <1>4, <1>5, <1>6, WriteFacts
<1>8. HoldsRetirement' /\ ~HoldsStage' /\ packet' \in Packets
  BY <1>1, <1>2, <1>6, LinkFacts DEF HoldsRetirement, HoldsStage, CarriageInv
<1>9. LinkInv'
  <2>1. (link # Absent => \E k \in Packets : link \in StageLinks(k) \cup RetirementLinks(k))'
    BY <1>1, <1>6, LinkTypeStays
  <2>2. "attempt" \in FileKinds /\ "result" \in FileKinds
    BY DEF FileKinds
  <2>3. \A g \in FileKinds : evidence'[e][g] = evidence[e][g]
    BY <1>2, <1>4, <1>7
  <2>4. ASSUME evidence'[e].result # Absent, NEW y \in Range(link.files)
        PROVE  evidence'[y[1]][y[2]] = Absent
    <3>1. evidence[y[1]][y[2]] = Absent
      BY <1>2, <1>6, <2>2, <2>3, <2>4 DEF LinkInv, AllGone
    <3> QED
      BY <1>2, <1>7, <3>1
  <2> QED
    BY <1>1, <1>2, <1>6, <1>8, <2>1, <2>2, <2>3, <2>4 DEF LinkInv, Has, AllGone
<1>10. /\ pc' = pc /\ job' = job /\ note' = note
       /\ DOMAIN pc' = Procs /\ DOMAIN job' = Procs /\ DOMAIN note' = Procs
  BY <1>1 DEF procVars, CarriageInv
<1>11. CarrierInv(p)'
  BY <1>1, <1>2, <1>8, <1>10, WithdrawingNext DEF Withdrawing
<1> QED
  BY <1>2, <1>7, <1>8, <1>9, <1>10, <1>11, CallerKeeps

LEMMA CommitRetirementKeeps ==
  ASSUME CarriageInv, OneCaller', NEW p \in Procs, CommitRetirement(p)
  PROVE  CarriageInv'
<1>1. /\ pc[p] = "m-remove" /\ Go(p, "m-receipt") /\ UNCHANGED <<link, packet>>
      /\ Write(job[p], "result", Whole)
      /\ \A x \in Range(note[p].files) : evidence[x[1]][x[2]] = Absent
  BY DEF CommitRetirement, At
<1>2. /\ job[p] \in Retirements /\ job[p] \in CarriageEffects /\ ~At(p, "idle")
      /\ HoldsRetirement /\ link.effect = job[p] /\ note[p].files = link.files
      /\ \A x \in Range(link.files) : x[1] # job[p]
  BY <1>1, RemovingFacts
<1>3. /\ pc'[p] = "m-receipt" /\ \A q \in Procs \ {p} : pc'[q] = pc[q]
      /\ job' = job /\ note' = note
      /\ DOMAIN pc' = Procs /\ DOMAIN job' = Procs /\ DOMAIN note' = Procs
  BY <1>1, GoFacts
<1>4. LinkInv /\ EvidenceTypeOK /\ "result" \in FileKinds /\ AllGone(link.files)
  BY <1>1, <1>2 DEF CarriageInv, FileKinds, AllGone
<1>5. LinkInv' /\ EvidenceTypeOK'
  BY <1>1, <1>2, <1>4, WriteKeepsLink, ManualMarksAssumption
<1>6. HoldsRetirement' /\ packet' \in Packets
  BY <1>1, <1>2 DEF HoldsRetirement, CarriageInv
<1>7. CarrierInv(p)'
  BY <1>1, <1>2, <1>3, <1>6, WithdrawingNext DEF Withdrawing
<1> QED
  BY <1>2, <1>3, <1>5, <1>6, <1>7, CallerKeeps

LEMMA LinkRetiredKeeps ==
  ASSUME CarriageInv, OneCaller', NEW p \in Procs, LinkRetired(p)
  PROVE  CarriageInv'
<1> DEFINE e == job[p]
<1>1. /\ pc[p] = "m-receipt" /\ Leave(p) /\ UNCHANGED <<evidence, packet>>
      /\ link' = RetirementLink(e, note[p].files, TRUE)
      /\ Has(e, "attempt") /\ Has(e, "result")
  BY DEF LinkRetired, At, Stop, CarriageCommitted
<1>2. /\ e \in Retirements /\ ~At(p, "idle") /\ e.packet \in Packets
      /\ HoldsRetirement /\ link.effect = e /\ note[p].files = link.files
      /\ link \in RetirementLinks(e.packet)
  BY <1>1, RemovingFacts, EffectFacts
<1>3. /\ At(p, "idle")' /\ \A q \in Procs \ {p} : pc'[q] = pc[q]
      /\ DOMAIN pc' = Procs /\ DOMAIN job' = Procs /\ DOMAIN note' = Procs
  BY <1>1, LeaveFacts
<1>4. link' \in RetirementLinks(e.packet)
  BY <1>1, <1>2 DEF RetirementLinks, RetirementLink
<1>5. link' # Absent /\ link'.kind = "retirement" /\ link'.effect = e /\ link'.files = link.files /\ link'.done
  BY <1>1, <1>2, <1>4, LinksAreLinks DEF RetirementLink
<1>6. HoldsRetirement' /\ ~HoldsStage'
  BY <1>5 DEF HoldsRetirement, HoldsStage
<1>7. AllGone(link.files)
  BY <1>1, <1>2, ManualMarksAssumption DEF CarriageInv, LinkInv, Has
<1>8. LinkInv'
  <2>1. (link # Absent => \E k \in Packets : link \in StageLinks(k) \cup RetirementLinks(k))'
    BY <1>2, <1>4 DEF StageLinks, RetirementLinks, FilesOf, RemovedWith
  <2> QED
    BY <1>1, <1>5, <1>6, <1>7, <2>1 DEF LinkInv, Has, AllGone
<1>9. EvidenceTypeOK' /\ packet' \in Packets
  BY <1>1 DEF CarriageInv, EvidenceTypeOK
<1> QED
  BY <1>2, <1>3, <1>8, <1>9, CallerKeeps

LEMMA RefuseManualKeeps ==
  ASSUME CarriageInv, OneCaller', NEW p \in Procs, RefuseManual(p)
  PROVE  CarriageInv'
<1>1. ~At(p, "idle") /\ Leave(p) /\ UNCHANGED manualVars
  BY DEF RefuseManual, Stop
<1>2. LinkInv' /\ EvidenceTypeOK' /\ packet' \in Packets
  BY <1>1, LinkStays DEF manualVars, CarriageInv
<1> QED
  BY <1>1, <1>2, LeaveFacts, CallerKeeps

(* A death tears at most the file that was being created.                  *)
LEMMA DieManualKeeps ==
  ASSUME CarriageInv, OneCaller', NEW p \in Procs, DieManual(p)
  PROVE  CarriageInv'
<1> DEFINE e == job[p]
<1>1. ~At(p, "idle") /\ Leave(p) /\ UNCHANGED <<link, packet>>
  BY DEF DieManual, Dies
<1>2. LinkInv' /\ EvidenceTypeOK'
  <2>1. CASE UNCHANGED evidence
    BY <1>1, <2>1, LinkStays
  <2>2. CASE Creating(p) # None /\ evidence[e][Creating(p)] = Absent /\ Write(e, Creating(p), Torn)
    <3> DEFINE f == Creating(p)
    <3>1. LinkInv /\ EvidenceTypeOK
      BY DEF CarriageInv
    <3>2. /\ pc[p] \in {"m-admit", "m-take", "m-carrier", "m-terminal", "m-commit", "m-recover", "m-remove"}
          /\ pc[p] = "m-remove" => \A x \in Range(note[p].files) : evidence[x[1]][x[2]] = Absent
          /\ f \in FileKinds
      <4>1. CASE pc[p] = "m-admit" \/ pc[p] = "m-take"
        BY <4>1 DEF Creating, At, FileKinds
      <4>2. CASE pc[p] = "m-carrier"
        BY <4>2 DEF Creating, At, FileKinds
      <4>3. CASE pc[p] = "m-terminal"
        BY <4>3 DEF Creating, At, FileKinds
      <4>4. CASE pc[p] = "m-commit" \/ pc[p] = "m-recover"
        BY <4>4 DEF Creating, At, FileKinds
      <4>5. CASE pc[p] = "m-remove" /\ \A x \in Range(note[p].files) : evidence[x[1]][x[2]] = Absent
        BY <4>5 DEF Creating, At, FileKinds
      <4>6. CASE /\ pc[p] \notin {"m-admit", "m-take", "m-carrier", "m-terminal", "m-commit", "m-recover"}
                 /\ ~(pc[p] = "m-remove" /\ \A x \in Range(note[p].files) : evidence[x[1]][x[2]] = Absent)
        <5>1. Creating(p) = None
          BY <4>6 DEF Creating, At
        <5> QED
          BY <2>2, <5>1
      <4> QED
        BY <4>1, <4>2, <4>3, <4>4, <4>5, <4>6
    <3>3. /\ e \in CarriageEffects
          /\ HoldsRetirement =>
                /\ \A x \in Range(link.files) : x[1] # e
                /\ link.effect = e /\ f = "result" => AllGone(link.files)
      <4>1. CASE pc[p] \in {"m-admit", "m-carrier", "m-terminal", "m-recover"}
        <5>1. e \in StageEffects /\ e \in CarriageEffects /\ AllowedOn(e)
          BY <4>1, StatingFacts DEF Stating
        <5> QED
          BY <3>1, <5>1, AllowedElsewhere
      <4>2. CASE pc[p] = "m-commit"
        BY <3>1, <4>2, LinkedFacts, LinkFacts
      <4>3. CASE pc[p] = "m-take"
        BY <3>1, <4>3, RetiringFacts, LinkFacts
      <4>4. CASE pc[p] = "m-remove"
        BY <3>2, <4>4, RemovingFacts DEF AllGone
      <4> QED
        BY <3>2, <4>1, <4>2, <4>3, <4>4
    <3>4. Write(e, f, Torn) /\ evidence[e][f] = Absent /\ UNCHANGED link
      BY <1>1, <2>2
    <3> HIDE DEF e, f
    <3> QED
      BY <3>1, <3>2, <3>3, <3>4, WriteKeepsLink
  <2> QED
    BY <2>1, <2>2 DEF DieManual
<1>3. packet' \in Packets
  BY <1>1 DEF CarriageInv
<1> QED
  BY <1>1, <1>2, <1>3, LeaveFacts, CallerKeeps

LEMMA MoveKeeps ==
  ASSUME CarriageInv, OneCaller', Move
  PROVE  CarriageInv'
<1>1. UNCHANGED procVars /\ UNCHANGED <<link, evidence>> /\ packet' \in Packets
  BY DEF Move, CarriageInv
<1>2. LinkInv' /\ EvidenceTypeOK'
  BY <1>1, LinkStays
<1>3. ASSUME NEW p \in Procs
      PROVE  CarrierInv(p)'
  <2>1. CarrierInv(p)
    BY DEF CarriageInv
  <2>2. \A k : StageLinks(k)' = StageLinks(k) /\ RetirementLinks(k)' = RetirementLinks(k) /\ FilesOf(k)' = FilesOf(k)
    BY DEF StageLinks, RetirementLinks, FilesOf, RemovedWith
  <2> QED
    BY <1>1, <2>1, <2>2 DEF CarrierInv, procVars, At, AllowedOn, SameReturn, HoldsStage, HoldsRetirement, Has,
       Retirement, Stage
<1> QED
  BY <1>1, <1>2, <1>3 DEF CarriageInv, procVars

LEMMA CarriageInitInv == ProcsInit /\ ManualInit => CarriageInv
<1> SUFFICES ASSUME ProcsInit, ManualInit
             PROVE  CarriageInv
  OBVIOUS
<1>1. EvidenceTypeOK
  <2>1. NoFiles \in [FileKinds -> {Absent, Torn, Whole}]
    BY DEF NoFiles
  <2> QED
    BY <2>1 DEF ManualInit, EvidenceTypeOK
<1>2. /\ OneCaller /\ packet \in Packets
      /\ DOMAIN pc = Procs /\ DOMAIN job = Procs /\ DOMAIN note = Procs
  BY DEF ProcsInit, ManualInit, OneCaller, At
<1>3. LinkInv
  BY DEF ManualInit, LinkInv, HoldsStage, HoldsRetirement
<1>4. \A p \in Procs : CarrierInv(p)
  <2> SUFFICES ASSUME NEW p \in Procs
               PROVE  CarrierInv(p)
    OBVIOUS
  <2>1. pc = [q \in Procs |-> "idle"]
    BY DEF ProcsInit
  <2>2. pc[p] = "idle"
    BY <2>1
  <2> QED
    BY <2>2 DEF CarrierInv, At, Stating, Withdrawing
<1> QED
  BY <1>1, <1>2, <1>3, <1>4 DEF CarriageInv

LEMMA CarriageStep ==
  ASSUME CarriageInv, [ManualNext /\ OneCaller']_<<procVars, manualVars>>
  PROVE  CarriageInv'
<1>1. CASE UNCHANGED <<procVars, manualVars>>
  <2>1. LinkInv' /\ EvidenceTypeOK'
    BY <1>1, LinkStays DEF manualVars
  <2>2. ASSUME NEW p \in Procs
        PROVE  CarrierInv(p)'
    <3>1. CarrierInv(p)
      BY DEF CarriageInv
    <3>2. \A k : StageLinks(k)' = StageLinks(k) /\ RetirementLinks(k)' = RetirementLinks(k) /\ FilesOf(k)' = FilesOf(k)
      BY DEF StageLinks, RetirementLinks, FilesOf, RemovedWith
    <3> QED
      BY <1>1, <3>1, <3>2 DEF CarrierInv, procVars, manualVars, At, AllowedOn, SameReturn, HoldsStage,
         HoldsRetirement, Has, Retirement, Stage
  <2> QED
    BY <1>1, <2>1, <2>2 DEF CarriageInv, procVars, manualVars, OneCaller, At
<1>2. CASE OneCaller' /\ Move
  BY <1>2, MoveKeeps
<1>3. ASSUME OneCaller', NEW p \in Procs,
             \/ \E e \in CarriageEffects : EnterManual(p, e)
             \/ ReadStage(p) \/ RecoverStage(p) \/ AdmitStage(p) \/ WriteCarrier(p)
             \/ RevalidateStage(p) \/ WriteTerminal(p) \/ LinkPending(p) \/ CommitStage(p)
             \/ LinkFinal(p)
             \/ ReadRetirement(p) \/ AdmitRetirement(p) \/ Retiring(p) \/ RemoveFile(p)
             \/ CommitRetirement(p) \/ LinkRetired(p)
             \/ RefuseManual(p) \/ DieManual(p)
      PROVE  CarriageInv'
  BY <1>3, EnterManualKeeps, ReadStageKeeps, RecoverStageKeeps, AdmitStageKeeps, WriteCarrierKeeps,
     RevalidateStageKeeps, WriteTerminalKeeps, LinkPendingKeeps, CommitStageKeeps, LinkFinalKeeps,
     ReadRetirementKeeps, AdmitRetirementKeeps, RetiringKeeps, RemoveFileKeeps, CommitRetirementKeeps,
     LinkRetiredKeeps, RefuseManualKeeps, DieManualKeeps
<1> QED
  BY <1>1, <1>2, <1>3 DEF ManualNext

(* Between any two steps of manual carriage (native_manual.rs), whatever   *)
(* died in it: the link is of one assignment, names a stage whose attempt  *)
(* is there and whose result or terminal is, or a retirement that removes  *)
(* only what its own assignment left; and whoever is at work has read the  *)
(* link that is there.                                                     *)
THEOREM CarriageInvariant == CarriageSpec => []CarriageInv
<1>1. ProcsInit /\ ManualInit => CarriageInv
  BY CarriageInitInv
<1>2. CarriageInv /\ [ManualNext /\ OneCaller']_<<procVars, manualVars>> => CarriageInv'
  BY CarriageStep
<1> QED
  BY <1>1, <1>2, PTL DEF CarriageSpec

LEMMA CarriageIsConsistent == CarriageInv => ManualConsistent
<1> SUFFICES ASSUME CarriageInv
             PROVE  ManualConsistent
  OBVIOUS
<1>1. /\ HoldsStage => link.effect \in CarriageEffects
      /\ HoldsRetirement => link.effect \in CarriageEffects /\ link.effect \in Retirements
                            /\ link \in RetirementLinks(link.effect.packet)
      /\ ~(HoldsStage /\ HoldsRetirement)
  BY LinkFacts DEF CarriageInv, CarriageEffects
<1>2. "attempt" \in FileKinds /\ "result" \in FileKinds /\ "terminal" \in FileKinds
  BY DEF FileKinds
<1>3. Untorn => \A e \in CarriageEffects : evidence[e]["result"] \in {Absent, Whole}
  BY <1>2 DEF Untorn, CarriageInv, EvidenceTypeOK
<1>4. Absent # Whole /\ Absent # Torn /\ Whole # Torn
  BY ManualMarksAssumption
<1>5. Untorn => LinkLegible
  <2> SUFFICES ASSUME Untorn
               PROVE  LinkLegible
    OBVIOUS
  <2>1. HoldsStage =>
          IF evidence[link.effect].result # Absent THEN CarriageCommitted(link.effect)
          ELSE link.pending /\ Has(link.effect, "terminal") /\ CarriagePrepares(link.effect)
    BY <1>1, <1>3, <1>4 DEF CarriageInv, LinkInv, Has, CarriageCommitted, CarriagePrepares
  <2>2. HoldsRetirement =>
          IF link.done THEN CarriageCommitted(link.effect) ELSE CarriagePrepares(link.effect)
    BY <1>1, <1>3, <1>4 DEF CarriageInv, LinkInv, Has, CarriageCommitted, CarriagePrepares
  <2> QED
    BY <2>1, <2>2 DEF LinkLegible
<1>6. RetiredClean
  <2>1. HoldsRetirement => link.effect.ret.stage \in {"used", "disposed"}
    BY <1>1 DEF RetirementLinks, Settled
  <2>2. HoldsRetirement /\ link.done => AllGone(link.files)
    BY <1>4 DEF CarriageInv, LinkInv, Has
  <2> QED
    BY <2>1, <2>2 DEF RetiredClean, AllGone
<1>7. RetirementResumable
  <2> SUFFICES ASSUME HoldsRetirement, ~link.done, Untorn
               PROVE  /\ ~named => ManualOffered(link.effect)
                      /\ \A p \in Procs : At(p, "m-examine") => MayManual(p)
    BY DEF RetirementResumable
  <2>1. ManualOffered(link.effect) \/ named
    <3>1. link.effect.stage = "retired"
      BY <1>1, EffectFacts
    <3>2. EntryReadable
      BY <1>1, <1>5 DEF EntryReadable, RetirementReadable, Terminal
    <3> QED
      BY <3>1, <3>2 DEF ManualOffered, RetirementOffered
  <2>2. ASSUME NEW p \in Procs, At(p, "m-examine")
        PROVE  MayManual(p)
    <3>1. pc[p] = "m-examine" /\ link.effect = job[p] /\ note[p].recovering
      BY <1>1, <2>2, RetiringFacts DEF At
    <3>2. Remaining(p)
      BY <3>1 DEF Remaining, Recovering
    <3>3. CarriagePrepares(job[p])
      BY <1>1, <1>2, <3>1 DEF CarriageInv, LinkInv, CarriagePrepares, Untorn
    <3> QED
      BY <3>1, <3>2, <3>3 DEF MayManual, At
  <2> QED
    BY <2>1, <2>2
<1> QED
  BY <1>5, <1>6, <1>7 DEF ManualConsistent, LinkReadable

(* With no file torn the link of the task can be read, whatever died; a    *)
(* retirement that is done has left none of its files, and one that was    *)
(* interrupted can be taken up by its own invocation (native_manual.rs:    *)
(* held, retirement, execute_retirement).                                  *)
THEOREM CarriageStaysConsistent == CarriageSpec => []ManualConsistent
BY CarriageInvariant, CarriageIsConsistent, PTL

LEMMA StageForwardStep ==
  ASSUME CarriageInv, [ManualNext /\ OneCaller']_<<procVars, manualVars>>,
         HoldsStage, HoldsStage', link'.effect.packet = link.effect.packet
  PROVE  /\ \/ link'.pending
            \/ StageRank(link.effect.stage) <= StageRank(link'.effect.stage)
         /\ link'.effect.stage = "reported" =>
               link.effect.ret \in {None, link'.effect.ret}
<1>1. \A s : StageRank(s) \in Nat
  BY DEF StageRank
<1>2. CASE UNCHANGED link
  BY <1>1, <1>2
<1>3. ASSUME NEW p \in Procs, LinkPending(p)
      PROVE  link'.pending /\ link'.effect = job[p] /\ SameReturn(job[p])
  <2>1. pc[p] = "m-pending" /\ link' = StageLink(job[p], TRUE, Extended(p), Former(p))
    BY <1>3 DEF LinkPending, At
  <2>2. AllowedOn(job[p])
    BY <2>1, StatingFacts DEF Stating
  <2> QED
    BY <2>1, <2>2 DEF StageLink, AllowedOn
<1>4. ASSUME NEW p \in Procs, LinkFinal(p), ~UNCHANGED link
      PROVE  /\ link'.effect = job[p]
             /\ StageRank(link.effect.stage) <= StageRank(job[p].stage)
             /\ link.effect = job[p] \/ SameReturn(job[p])
  <2>1. /\ pc[p] = "m-final" /\ ~KeepsLater(p)
        /\ link' = StageLink(job[p], FALSE, Extended(p), Former(p))
    BY <1>4 DEF LinkFinal, At
  <2>2. link'.effect = job[p]
    BY <2>1 DEF StageLink
  <2>3. CASE link.effect = job[p]
    BY <1>1, <2>2, <2>3
  <2>4. CASE note[p].link = link /\ AllowedOn(job[p])
    <3>1. ~(StageRank(link.effect.stage) > StageRank(job[p].stage))
      BY <2>1, <2>2, <2>4 DEF KeepsLater, LinkRead, HoldsStage
    <3>2. SameReturn(job[p])
      BY <2>4 DEF AllowedOn
    <3> QED
      BY <1>1, <2>2, <3>1, <3>2
  <2> QED
    BY <2>1, <2>3, <2>4, LinkedFacts
<1>5. UNCHANGED link \/ (\E p \in Procs : LinkPending(p)) \/ (\E p \in Procs : LinkFinal(p))
  <2>1. \A p \in Procs : Retiring(p) \/ LinkRetired(p) => ~HoldsStage'
    BY DEF Retiring, LinkRetired, RetirementLink, HoldsStage
  <2> QED
    BY <2>1 DEF ManualNext, EnterManual, ReadStage, RecoverStage, AdmitStage, WriteCarrier, RevalidateStage,
       WriteTerminal, CommitStage, ReadRetirement, AdmitRetirement, RemoveFile, CommitRetirement, RefuseManual,
       DieManual, Move, manualVars
<1> QED
  BY <1>2, <1>3, <1>4, <1>5 DEF SameReturn

(* For one assignment the link never goes back to an earlier stage, except *)
(* to one that is still to be carried out, and no report takes the place   *)
(* of another return (native_manual.rs: execute, the last link it writes,  *)
(* and relation).                                                          *)
THEOREM CarriageGoesForward == CarriageSpec => StageForward
<1>1. CarriageInv /\ [ManualNext /\ OneCaller']_<<procVars, manualVars>>
        => [HoldsStage /\ HoldsStage' /\ link'.effect.packet = link.effect.packet =>
              /\ \/ link'.pending
                 \/ StageRank(link.effect.stage) <= StageRank(link'.effect.stage)
              /\ link'.effect.stage = "reported" =>
                    link.effect.ret \in {None, link'.effect.ret}]_manualVars
  BY StageForwardStep
<1> QED
  BY <1>1, CarriageInvariant, PTL DEF CarriageSpec, StageForward
=============================================================================
