------------------------------- MODULE Scratch -------------------------------
(***************************************************************************)
(* The scratch container of one task (native_resources.rs): a directory    *)
(* under .agentic-workspace/local/scratch whose marker file is the owner's *)
(* custody of it.  Every operation is proposed from what a reader sees,    *)
(* then performed under resources.lock after the same is seen again.  A    *)
(* removal first writes down, outside the directory, what it is removing,  *)
(* so that it can be finished when the marker is already gone.             *)
(***************************************************************************)
EXTENDS Processes

CONSTANTS
    Works,          \* tasks (with their changed paths) that ask
    Own,            \* the task the container is derived from
    Empty,          \* a directory without a marker and without contents
    MaxStamp,       \* how many times a directory or a marker is written
    MaxTurns        \* how many changes others make to contents, policy and references

ASSUME ScratchAssumption ==
    /\ Own \in Works
    /\ MaxStamp \in Nat /\ MaxTurns \in Nat

(* What is written in a marker and in the record of a removal, and what a  *)
(* proposal is bound to.                                                   *)
Markers == [retain : BOOLEAN, stamp : Nat]
Containers == [made : Nat, marker : Markers \cup {Absent, Torn}, filled : BOOLEAN]
RemovalKeys == [op : {"remove"}, work : Works, policy : {0, 1}, seen : Markers]
RemovalRecords == [made : Nat, key : RemovalKeys]

(* No file, a torn one and a directory without a marker are none of these. *)
ASSUME ScratchMarksAssumption ==
    /\ Absent # Torn /\ Absent # Empty /\ Torn # Empty
    /\ {Absent, Torn, Empty} \cap Markers = {}
    /\ Absent \notin Containers \cup RemovalRecords
    /\ Torn \notin RemovalRecords
    /\ None \notin Procs

VARIABLES
    container,      \* Absent, or the directory: [made, marker, filled]
    removal,        \* Absent, or the record of a removal: [made, key]
    removalTemp,    \* the temporary of that record, possibly Torn
    admissions,     \* intact attempts of removals, by their key
    spoiled,        \* torn ones
    resourceLock,   \* who holds resources.lock
    policy,         \* revision of configuration and instructions
    referenced,     \* whether another owner names the container
    stamp,          \* times and inodes given out so far
    turns,          \* changes made by others so far
    retained        \* history: a retention was answered, and no release written since

scratchFiles == <<container, removal, removalTemp, admissions, spoiled>>
scratchWorld == <<policy, referenced, turns>>
scratchVars == <<scratchFiles, resourceLock, scratchWorld, stamp, retained>>

ScratchInit ==
    /\ container = Absent /\ removal = Absent /\ removalTemp = Absent
    /\ admissions = {} /\ spoiled = {}
    /\ resourceLock = None
    /\ policy = 0 /\ referenced = FALSE
    /\ stamp = 0 /\ turns = 0
    /\ retained = FALSE

-----------------------------------------------------------------------------
(* What a reader makes of the directory.  Contents are not observed beyond *)
(* being there; a marker it cannot read, or contents without one, is an    *)
(* error.                                                                  *)
Snapshot ==
    CASE container = Absent -> Absent
      [] container # Absent /\ container.marker = Absent -> IF container.filled THEN Torn ELSE Empty
      [] OTHER -> container.marker

Present == Snapshot \notin {Absent, Empty, Torn}

(* Mutant: a removal is taken up for whatever directory is there.          *)
ResumableByName(work) ==
    /\ removal.key \in admissions
    /\ removal.key.work = work /\ removal.key.policy = policy

(* Mutant: a removal is taken up only while the marker is still there.     *)
ResumableByMarker(work) ==
    /\ removal.key \in admissions
    /\ removal.key.work = work /\ removal.key.policy = policy
    /\ container # Absent =>
          /\ container.made = removal.made
          /\ container.marker = removal.key.seen

(* A recorded removal is taken up again by the same task under the same    *)
(* policy, for the same directory with the same marker or none.            *)
Resumable(work) ==
    /\ removal.key \in admissions
    /\ removal.key.work = work /\ removal.key.policy = policy
    /\ container # Absent =>
          /\ container.made = removal.made
          /\ container.marker \in {Absent, removal.key.seen}

Removable == Present => ~referenced /\ ~Snapshot.retain

(* The proposal has no blocker.                                            *)
Permitted(op, work) ==
    /\ op = "remove" =>
          IF removal # Absent THEN Resumable(work) /\ ~referenced
          ELSE Snapshot \notin {Torn, Empty} /\ Removable
    /\ op # "remove" => removal = Absent /\ Snapshot # Torn
    /\ op = "create" => work = Own
    /\ op = "prune" => Snapshot # Empty /\ Removable
    /\ op \in {"retain", "release"} => Present

(* The revision a proposal returns and its effect must bring back.         *)
Revision(op, work) ==
    [op |-> op, work |-> work, policy |-> policy,
     seen |-> IF removal = Absent THEN Snapshot ELSE [of |-> removal.key, gone |-> container = Absent]]

Current(p) == Permitted(job[p].op, job[p].work) /\ Revision(job[p].op, job[p].work) = job[p]

-----------------------------------------------------------------------------
ScratchOps == {"create", "remove", "prune", "retain", "release"}

ProposeScratch(p, op, work) ==
    /\ Permitted(op, work)
    /\ op \in {"create", "retain", "release"} => stamp < MaxStamp
    /\ Begin(p, "s-proposed", Revision(op, work))
    /\ UNCHANGED scratchVars

(* The view is made once more, then the lock is tried.                     *)
TakeScratch(p) ==
    /\ At(p, "s-proposed") /\ Current(p) /\ resourceLock = None
    /\ resourceLock' = p
    /\ Go(p, "s-locked")
    /\ UNCHANGED <<scratchFiles, scratchWorld, stamp, retained>>

Reobserve(p) ==
    /\ At(p, "s-locked") /\ Current(p)
    /\ Go(p, "s-barrier")
    /\ UNCHANGED scratchVars

(* What is left to do for the operation, on what its proposal saw.         *)
EffectOf(op) ==
    CASE op = "create" /\ Snapshot = Absent -> "s-mkdir"
      [] op = "create" /\ Snapshot = Empty -> "s-mark"
      [] op = "remove" /\ removal # Absent -> "s-delete"
      [] op = "remove" /\ removal = Absent /\ Present -> "s-admit"
      [] op = "prune" /\ Present -> "s-prune"
      [] op \in {"retain", "release"} -> "s-rewrite"
      [] OTHER -> "s-done"

(* The snapshot alone is compared a last time.                             *)
Barrier(p) ==
    /\ At(p, "s-barrier")
    /\ Revision(job[p].op, job[p].work).seen = job[p].seen
    /\ Go(p, EffectOf(job[p].op))
    /\ UNCHANGED scratchVars

-----------------------------------------------------------------------------
MakeDirectory(p) ==
    /\ At(p, "s-mkdir") /\ container = Absent
    /\ container' = [made |-> stamp, marker |-> Absent, filled |-> FALSE]
    /\ stamp' = stamp + 1
    /\ Go(p, "s-mark")
    /\ UNCHANGED <<removal, removalTemp, admissions, spoiled, resourceLock, scratchWorld, retained>>

Mark(p) ==
    /\ At(p, "s-mark")
    /\ container # Absent /\ container.marker = Absent
    /\ container' = [container EXCEPT !.marker = [retain |-> FALSE, stamp |-> stamp]]
    /\ stamp' = stamp + 1
    /\ Go(p, "s-done")
    /\ UNCHANGED <<removal, removalTemp, admissions, spoiled, resourceLock, scratchWorld, retained>>

(* Retention and release write the marker over.                            *)
Rewrite(p) ==
    /\ At(p, "s-rewrite") /\ container # Absent
    /\ container' = [container EXCEPT !.marker = [retain |-> job[p].op = "retain", stamp |-> stamp]]
    /\ stamp' = stamp + 1
    /\ retained' = (retained /\ job[p].op = "retain")
    /\ Go(p, "s-done")
    /\ UNCHANGED <<removal, removalTemp, admissions, spoiled, resourceLock, scratchWorld>>

Prune(p) ==
    /\ At(p, "s-prune") /\ Snapshot = job[p].seen
    /\ container' = [container EXCEPT !.filled = FALSE]
    /\ Go(p, "s-done")
    /\ UNCHANGED <<removal, removalTemp, admissions, spoiled, resourceLock, scratchWorld, stamp, retained>>

-----------------------------------------------------------------------------
(* The directory's identity is read and the attempt created, only once.    *)
AdmitRemoval(p) ==
    /\ At(p, "s-admit") /\ container # Absent
    /\ job[p] \notin admissions \cup spoiled
    /\ admissions' = admissions \cup {job[p]}
    /\ Keep(p, "s-record", [made |-> container.made, key |-> job[p]])
    /\ UNCHANGED <<container, removal, removalTemp, spoiled, resourceLock, scratchWorld, stamp, retained>>

(* A temporary of the same record is reused, any other is preserved.       *)
WriteTemporary(p) ==
    /\ At(p, "s-record") /\ removalTemp \in {Absent, note[p]}
    /\ removalTemp' = note[p]
    /\ Go(p, "s-publish")
    /\ UNCHANGED <<container, removal, admissions, spoiled, resourceLock, scratchWorld, stamp, retained>>

PublishRemoval(p) ==
    /\ At(p, "s-publish")
    /\ removal' = note[p] /\ removalTemp' = Absent
    /\ Go(p, "s-delete")
    /\ UNCHANGED <<container, admissions, spoiled, resourceLock, scratchWorld, stamp, retained>>

(* The tree goes entry by entry, in no order; the directory comes last.    *)
DeleteEntry(p) ==
    /\ At(p, "s-delete") /\ container # Absent
    /\ \/ /\ container.marker # Absent
          /\ container' = [container EXCEPT !.marker = Absent]
       \/ /\ container.filled
          /\ container' = [container EXCEPT !.filled = FALSE]
       \/ /\ container.marker = Absent /\ ~container.filled
          /\ container' = Absent
    /\ UNCHANGED <<procVars, removal, removalTemp, admissions, spoiled, resourceLock, scratchWorld, stamp, retained>>

(* Absence is confirmed and the attempt still read, then the record goes.  *)
ForgetRecord(p) ==
    /\ At(p, "s-delete") /\ container = Absent
    /\ removal.key \in admissions
    /\ removal' = Absent
    /\ Keep(p, "s-forget", removal.key)
    /\ UNCHANGED <<container, removalTemp, admissions, spoiled, resourceLock, scratchWorld, stamp, retained>>

ForgetAttempt(p) ==
    /\ At(p, "s-forget")
    /\ admissions' = admissions \ {note[p]}
    /\ Go(p, "s-done")
    /\ UNCHANGED <<container, removal, removalTemp, spoiled, resourceLock, scratchWorld, stamp, retained>>

(* The caller is answered and the lock given back.                         *)
FinishScratch(p) ==
    /\ At(p, "s-done")
    /\ resourceLock' = None
    /\ retained' = CASE job[p].op = "retain" -> TRUE
                     [] job[p].op \in {"release", "create", "remove"} -> Present /\ Snapshot.retain
                     [] OTHER -> retained
    /\ Stop(p)
    /\ UNCHANGED <<scratchFiles, scratchWorld, stamp>>

(* What fails is an error return, which gives the lock back.               *)
MayScratch(p) ==
    CASE At(p, "s-proposed") -> Current(p) /\ resourceLock = None
      [] At(p, "s-locked") -> Current(p)
      [] At(p, "s-barrier") -> Revision(job[p].op, job[p].work).seen = job[p].seen
      [] At(p, "s-mkdir") -> container = Absent
      [] At(p, "s-mark") -> container # Absent /\ container.marker = Absent
      [] At(p, "s-rewrite") -> container # Absent
      [] At(p, "s-prune") -> Snapshot = job[p].seen
      [] At(p, "s-admit") -> container # Absent /\ job[p] \notin admissions \cup spoiled
      [] At(p, "s-record") -> removalTemp \in {Absent, note[p]}
      [] OTHER -> TRUE

Releases(p) == resourceLock' = IF resourceLock = p THEN None ELSE resourceLock

RefuseScratch(p) ==
    /\ ~At(p, "idle") /\ ~MayScratch(p)
    /\ Releases(p)
    /\ Stop(p)
    /\ UNCHANGED <<scratchFiles, scratchWorld, stamp, retained>>

(* A death gives the lock back too and may tear the file being written.    *)
DieScratch(p) ==
    /\ Dies(p)
    /\ Releases(p)
    /\ \/ UNCHANGED scratchFiles
       \/ /\ pc[p] \in {"s-mark", "s-rewrite"} /\ container # Absent
          /\ At(p, "s-mark") => container.marker = Absent
          /\ container' = [container EXCEPT !.marker = Torn]
          /\ UNCHANGED <<removal, removalTemp, admissions, spoiled>>
       \/ /\ At(p, "s-admit") /\ container # Absent
          /\ job[p] \notin admissions \cup spoiled
          /\ spoiled' = spoiled \cup {job[p]}
          /\ UNCHANGED <<container, removal, removalTemp, admissions>>
       \/ /\ At(p, "s-record") /\ removalTemp = Absent
          /\ removalTemp' = Torn
          /\ UNCHANGED <<container, removal, admissions, spoiled>>
    /\ UNCHANGED <<scratchWorld, stamp, retained>>

-----------------------------------------------------------------------------
(* The task fills its container at any time.                               *)
Fill ==
    /\ container # Absent /\ ~container.filled
    /\ turns < MaxTurns /\ turns' = turns + 1
    /\ container' = [container EXCEPT !.filled = TRUE]
    /\ UNCHANGED <<procVars, removal, removalTemp, admissions, spoiled, resourceLock, policy, referenced, stamp, retained>>

(* Between invocations somebody replaces the directory by another of the   *)
(* same name, without a marker.                                            *)
Replace ==
    /\ container # Absent /\ stamp < MaxStamp
    /\ resourceLock = None
    /\ container' = [made |-> stamp, marker |-> Absent, filled |-> TRUE]
    /\ stamp' = stamp + 1
    /\ retained' = FALSE
    /\ UNCHANGED <<procVars, removal, removalTemp, admissions, spoiled, resourceLock, scratchWorld>>

(* Configuration, instructions and the other owners' sources change at     *)
(* any time.                                                               *)
Turn ==
    /\ turns < MaxTurns
    /\ turns' = turns + 1
    /\ \/ policy' = 1 - policy /\ UNCHANGED referenced
       \/ referenced' = ~referenced /\ UNCHANGED policy
    /\ UNCHANGED <<procVars, scratchFiles, resourceLock, stamp, retained>>

ScratchStep(p) ==
    \/ TakeScratch(p) \/ Reobserve(p) \/ Barrier(p)
    \/ MakeDirectory(p) \/ Mark(p) \/ Rewrite(p) \/ Prune(p)
    \/ AdmitRemoval(p) \/ WriteTemporary(p) \/ PublishRemoval(p)
    \/ DeleteEntry(p) \/ ForgetRecord(p) \/ ForgetAttempt(p)
    \/ FinishScratch(p) \/ RefuseScratch(p)

ScratchNext ==
    \/ \E p \in Procs :
          \/ \E op \in ScratchOps, work \in Works : ProposeScratch(p, op, work)
          \/ ScratchStep(p)
          \/ DieScratch(p)
    \/ Fill \/ Replace \/ Turn

(* A call runs to its end, and an interrupted removal is asked for again.  *)
AskAgain ==
    /\ removal # Absent
    /\ \E p \in Procs : ProposeScratch(p, "remove", removal.key.work)

ScratchFairness ==
    /\ \A p \in Procs : WF_<<procVars, scratchVars>>(ScratchStep(p))
    /\ WF_<<procVars, scratchVars>>(AskAgain)

-----------------------------------------------------------------------------
(* "Retained material blocks scratch cleanup": from the answer to a        *)
(* retention on, until a release is written, nothing is being deleted and  *)
(* no removal is recorded, whatever was proposed before it.                *)
RetainedKept ==
    retained => removal = Absent /\ \A p \in Procs : pc[p] \notin {"s-delete", "s-prune"}

(* What is being deleted is the directory that was recorded while its      *)
(* marker could be read and was not retained, never another of its name.   *)
OnlyRecordedDeleted ==
    \A p \in Procs : At(p, "s-delete") =>
        /\ removal # Absent /\ ~removal.key.seen.retain
        /\ container # Absent =>
              /\ container.made = removal.made
              /\ container.marker \in {Absent, removal.key.seen}

(* A recorded removal can be read for as long as it is recorded.           *)
RemovalLegible == removal # Absent => removal.key \in admissions

(* Effects on the container exclude each other.                            *)
EffectSteps == {"s-mkdir", "s-mark", "s-rewrite", "s-prune", "s-admit", "s-record", "s-publish", "s-delete", "s-forget"}

OneEffect ==
    \A p \in Procs : pc[p] \in EffectSteps => resourceLock = p

ScratchConsistent == RetainedKept /\ OnlyRecordedDeleted /\ RemovalLegible /\ OneEffect

(* An interrupted removal is finished by asking for it again, unless       *)
(* policy, references or the directory itself have changed.                *)
RemovalSettles ==
    removal # Absent ~>
        \/ removal = Absent
        \/ policy # removal.key.policy \/ referenced
        \/ container # Absent /\ container.made # removal.made
=============================================================================
