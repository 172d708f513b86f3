--------------------------- MODULE PlanningOwner ---------------------------
(***************************************************************************)
(* One plan of .agentic-workspace/planning/execplans and the three effects *)
(* that touch it: planning.create writes it without a lock at the path its *)
(* work derives, planning.update replaces it under the Planning lock, and  *)
(* planning.update-recover finalises an update whose writer died between   *)
(* the rename and its result.  Editors take no lock.                       *)
(*                                                                         *)
(* Every update names the digest of the bytes it replaces, and the bytes   *)
(* carry the provenance of the update that wrote them; a plan is therefore *)
(* the sequence of what was done to it, and an update is the sequence it   *)
(* produces.  An edit keeps the provenance: one that drops it only makes   *)
(* the plan historical and read-only.                                      *)
(***************************************************************************)
EXTENDS AttemptStore, Integers, Sequences, SequencesExt, FiniteSetsExt

CONSTANTS
    Procs,          \* processes of the native core
    Materials,      \* material and frontier a caller may ask to be written
    Edited,         \* a change made outside the owner
    Done,           \* the outcome of an effect, determined by its invocation
    None,           \* nobody, nothing
    MaxLength,      \* bound: writes and edits of the plan
    MaxEdits,       \* bound: edits
    MaxTries,       \* bound: recovery invocations for one update
    MaxCrashes,     \* bound: deaths
    Tearing         \* may a process die inside the creation of a record?

ASSUME PlanningAssumption ==
    /\ Edited \notin Materials
    /\ None \notin Procs
    /\ Done \in Outcomes
    /\ MaxLength \in Nat \ {0} /\ MaxEdits \in Nat /\ MaxTries \in Nat /\ MaxCrashes \in Nat
    /\ Tearing \in BOOLEAN

VARIABLES
    file,       \* the plan: Absent, Torn, or the sequence done to it
    temps,      \* updates whose temporary lies beside the plan
    lock,       \* holder of owner-selection.lock, or None
    pc,         \* where each process is
    job,        \* its effect, and the custody it was dispatched with
    edits,
    crashes

vars == <<attempts, results, file, temps, lock, pc, job, edits, crashes>>
diskVars == <<attempts, results, file, temps>>

(* The effects: try 0 writes the plan, the others recover that write.      *)
Post(u) == [of |-> u, try |-> 0]
Recovery(u, n) == [of |-> u, try |-> n]

Chains == UNION {[1 .. n -> Materials \cup {Edited}] : n \in 1 .. MaxLength}

(* What can have been done to a plan: it begins with a write, and no two   *)
(* writes in a row are the same.  An effect is a write that ends a plan,   *)
(* or a recovery of an update.                                             *)
Possible(c) == c[1] # Edited /\ \A i \in 2 .. Len(c) : c[i] = c[i - 1] => c[i] = Edited

Written == {c \in Chains : Possible(c) /\ c[Len(c)] # Edited}

ASSUME EffectsAssumption ==
    /\ Effects = {Post(u) : u \in Written}
                   \cup {Recovery(u, n) : u \in {c \in Written : Len(c) > 1}, n \in 1 .. MaxTries}
    /\ {Absent, Torn} \cap Chains = {}
    /\ None \notin {"pending", "final"}
    /\ None \notin [effect : Effects, custody : {None, "pending", "final"}]

Init ==
    /\ StoreInit
    /\ file = Absent
    /\ temps = {}
    /\ lock = None
    /\ pc = [p \in Procs |-> "idle"]
    /\ job = [p \in Procs |-> None]
    /\ edits = 0 /\ crashes = 0

-----------------------------------------------------------------------------
(* What a view makes of the plan.                                          *)
Whole == file \notin {Absent, Torn}

(* The last write: the one whose provenance the plan carries.              *)
LatestWrite(c) == SubSeq(c, 1, Max({i \in 1 .. Len(c) : c[i] # Edited}))

Updated(c) == Len(LatestWrite(c)) > 1

(* inspect_origin: nothing is done with a plan whose creation has no       *)
(* committed custody.                                                      *)
OriginCommitted(c) == Committed(Post(SubSeq(c, 1, 1)))

(* inspect: the update the plan names has a readable attempt and no other  *)
(* result; until it is committed the plan must be its exact postimage.     *)
Usable(c) ==
    /\ OriginCommitted(c)
    /\ LET w == LatestWrite(c)
       IN Len(w) > 1 =>
            /\ CanPrepare(Post(w), Done)
            /\ Committed(Post(w)) \/ w = c

Pending(c) == Updated(c) /\ ~Committed(Post(LatestWrite(c)))

(* Mutant: the bound revision is the number in the plan, not its bytes.    *)
BoundByNumber(u) == Whole /\ Len(SelectSeq(file, LAMBDA x : x # Edited)) =
                             Len(SelectSeq(Front(u), LAMBDA x : x # Edited))

(* The plan is still the bytes the update was computed from.               *)
BoundTo(u) == Whole /\ file = Front(u)

(* The plan is the exact postimage of the update.                          *)
Published(u) == Whole /\ file = u /\ Len(u) > 1 /\ Last(u) # Edited

(* An update is offered on the current bytes, after every earlier one is   *)
(* settled, and only for material that is not already there.               *)
Fresh(u) ==
    /\ BoundTo(u)
    /\ Usable(file)
    /\ ~Pending(file)
    /\ Last(u) # Last(file)

(* An update that is in the plan may be replayed or recovered.             *)
Retained(u) == Published(u) /\ Usable(file)

(* Mutant: an unfinished update keeps naming the result it prepared.       *)
CustodyPrepared(u) == "final"

(* What the caller of a retained update is given: the custody names the    *)
(* result only when it exists.                                             *)
Custody(u) == IF Committed(Post(u)) THEN "final" ELSE "pending"

-----------------------------------------------------------------------------
At(p, step) == pc[p] = step

Start(p, step, e, custody) ==
    /\ At(p, "idle")
    /\ pc' = [pc EXCEPT ![p] = step]
    /\ job' = [job EXCEPT ![p] = [effect |-> e, custody |-> custody]]
    /\ UNCHANGED <<diskVars, lock>>

Continue(p, step) ==
    /\ pc' = [pc EXCEPT ![p] = step]
    /\ UNCHANGED <<job, lock>>

(* The call returns or its process dies; the lock goes with its handle.    *)
Leave(p) ==
    /\ pc' = [pc EXCEPT ![p] = "idle"]
    /\ job' = [job EXCEPT ![p] = None]
    /\ lock' = IF lock = p THEN None ELSE lock

Effect(p) == job[p].effect
Target(p) == job[p].effect.of

-----------------------------------------------------------------------------
(* The check the code makes at each step; where it fails the call returns  *)
(* an error and changes nothing more.                                      *)
CanAnswer(p) ==      \* commit with the custody the call was dispatched with
    IF job[p].custody = "final" THEN Committed(Effect(p)) ELSE CanCommit(Effect(p))

CanInstall(p) == BoundTo(Target(p)) /\ Fresh(Target(p))

CanFinalise(p) ==
    LET post == Post(Target(p))
    IN /\ Retained(Target(p))
       /\ IF job[p].custody = "final" THEN Committed(post) ELSE CanCommit(post)

May(p) ==
    CASE At(p, "c-admit") -> CanAdmit(Effect(p))
      [] At(p, "c-open") -> file = Absent
      [] At(p, "c-write") -> TRUE
      [] At(p, "c-commit") -> CanCommit(Effect(p))
      [] At(p, "u-lock") -> lock = None
      [] At(p, "u-check") -> Fresh(Target(p)) \/ Retained(Target(p))
      [] At(p, "u-admit") -> IF job[p].custody = None
                             THEN CanAdmit(Effect(p))
                             ELSE CanPrepare(Effect(p), Done)
      [] At(p, "u-temp") -> \/ Published(Target(p))
                            \/ BoundTo(Target(p)) /\ Effect(p) \notin temps
      [] At(p, "u-rename") -> CanInstall(p)
      [] At(p, "u-commit") -> CanAnswer(p)
      [] At(p, "r-lock") -> lock = None
      [] At(p, "r-check") -> /\ Retained(Target(p))
                             /\ job[p].custody = Custody(Target(p))
      [] At(p, "r-admit") -> CanAdmit(Effect(p))
      [] At(p, "r-final") -> CanFinalise(p)
      [] At(p, "r-commit") -> CanCommit(Effect(p))
      [] OTHER -> FALSE

Refuse(p) ==
    /\ ~At(p, "idle")
    /\ ~May(p)
    /\ Leave(p)
    /\ UNCHANGED diskVars

(* Mutant: a busy owner is entered all the same.                           *)
LockShared(p, from, to) ==
    /\ At(p, from)
    /\ lock' = p
    /\ pc' = [pc EXCEPT ![p] = to]
    /\ UNCHANGED <<diskVars, job>>

(* owner_lock does not wait: a busy owner is an error.                     *)
Lock(p, from, to) ==
    /\ At(p, from)
    /\ May(p)
    /\ lock' = p
    /\ pc' = [pc EXCEPT ![p] = to]
    /\ UNCHANGED <<diskVars, job>>

AdmitAt(p, from, to) ==
    /\ At(p, from)
    /\ May(p)
    /\ Admit(Effect(p))
    /\ Continue(p, to)
    /\ UNCHANGED <<file, temps>>

CommitAt(p, from) ==
    /\ At(p, from)
    /\ May(p)
    /\ Commit(Effect(p), Done)
    /\ Leave(p)
    /\ UNCHANGED <<file, temps>>

-----------------------------------------------------------------------------
(* planning.create: no lock, create_new is the only exclusion.  The replay *)
(* of a committed creation reads and answers, and is no step here.         *)
BeginCreate(p, m) ==
    /\ file = Absent
    /\ Start(p, "c-admit", Post(<<m>>), None)

AdmitCreate(p) == AdmitAt(p, "c-admit", "c-open")

OpenCreate(p) ==
    /\ At(p, "c-open")
    /\ May(p)
    /\ file' = Torn
    /\ Continue(p, "c-write")
    /\ UNCHANGED <<attempts, results, temps>>

WriteCreate(p) ==
    /\ At(p, "c-write")
    /\ file' = Target(p)
    /\ Continue(p, "c-commit")
    /\ UNCHANGED <<attempts, results, temps>>

CommitCreate(p) == CommitAt(p, "c-commit")

Create(p) ==
    \/ \E m \in Materials : BeginCreate(p, m)
    \/ AdmitCreate(p)
    \/ OpenCreate(p)
    \/ WriteCreate(p)
    \/ CommitCreate(p)

-----------------------------------------------------------------------------
(* planning.update.  A first invocation has no custody; an invocation that *)
(* is already in the plan comes back with the custody the plan carries.    *)
BeginUpdate(p, m) ==
    LET u == Append(file, m)
    IN /\ Whole
       /\ Len(file) < MaxLength
       /\ Fresh(u)
       /\ Start(p, "u-lock", Post(u), None)

ResumeUpdate(p) ==
    /\ Whole
    /\ Retained(file)
    /\ Start(p, "u-lock", Post(file), Custody(file))

LockUpdate(p) == Lock(p, "u-lock", "u-check")

CheckUpdate(p) ==
    /\ At(p, "u-check")
    /\ May(p)
    /\ Continue(p, "u-admit")
    /\ UNCHANGED diskVars

AdmitUpdate(p) ==
    \/ /\ At(p, "u-admit") /\ job[p].custody = None
       /\ AdmitAt(p, "u-admit", "u-temp")
    \/ /\ At(p, "u-admit") /\ job[p].custody # None
       /\ May(p)
       /\ Continue(p, "u-temp")
       /\ UNCHANGED diskVars

TempUpdate(p) ==
    /\ At(p, "u-temp")
    /\ May(p)
    /\ IF Published(Target(p))
       THEN Continue(p, "u-commit") /\ UNCHANGED diskVars
       ELSE /\ temps' = temps \cup {Effect(p)}
            /\ Continue(p, "u-rename")
            /\ UNCHANGED <<attempts, results, file>>

RenameUpdate(p) ==
    /\ At(p, "u-rename")
    /\ May(p)
    /\ file' = Target(p)
    /\ temps' = temps \ {Effect(p)}
    /\ Continue(p, "u-commit")
    /\ UNCHANGED <<attempts, results>>

CommitUpdate(p) ==
    \/ /\ At(p, "u-commit") /\ job[p].custody # "final"
       /\ CommitAt(p, "u-commit")
    \/ /\ At(p, "u-commit") /\ job[p].custody = "final"
       /\ May(p)
       /\ Leave(p)
       /\ UNCHANGED diskVars

Update(p) ==
    \/ \E m \in Materials : BeginUpdate(p, m)
    \/ ResumeUpdate(p)
    \/ LockUpdate(p)
    \/ CheckUpdate(p)
    \/ AdmitUpdate(p)
    \/ TempUpdate(p)
    \/ RenameUpdate(p)
    \/ CommitUpdate(p)

-----------------------------------------------------------------------------
(* planning.update-recover: an effect of its own, bound to the postimage,  *)
(* which finalises the old outcome and writes no material.                 *)
BeginRecover(p, n) ==
    /\ Whole
    /\ Retained(file)
    /\ Start(p, "r-lock", Recovery(file, n), Custody(file))

LockRecover(p) == Lock(p, "r-lock", "r-check")

CheckRecover(p) ==
    /\ At(p, "r-check")
    /\ May(p)
    /\ Continue(p, "r-admit")
    /\ UNCHANGED diskVars

AdmitRecover(p) == AdmitAt(p, "r-admit", "r-final")

(* Mutant: the recovery answers for an outcome it did not finalise.        *)
SkipFinalise(p) ==
    /\ At(p, "r-final")
    /\ May(p)
    /\ Continue(p, "r-commit")
    /\ UNCHANGED diskVars

FinaliseOriginal(p) ==
    /\ At(p, "r-final")
    /\ May(p)
    /\ IF job[p].custody = "final"
       THEN UNCHANGED <<attempts, results>>
       ELSE Commit(Post(Target(p)), Done)
    /\ Continue(p, "r-commit")
    /\ UNCHANGED <<file, temps>>

CommitRecover(p) == CommitAt(p, "r-commit")

Recover(p) ==
    \/ \E n \in 1 .. MaxTries : BeginRecover(p, n)
    \/ LockRecover(p)
    \/ CheckRecover(p)
    \/ AdmitRecover(p)
    \/ FinaliseOriginal(p)
    \/ CommitRecover(p)

-----------------------------------------------------------------------------
(* Deaths: between any two steps, or inside the creation of a record.      *)
DieAdmitting(p) ==
    /\ pc[p] \in {"c-admit", "u-admit", "r-admit"}
    /\ TearAttempt(Effect(p))

DieCommitting(p) ==
    \/ pc[p] \in {"c-commit", "u-commit", "r-commit"} /\ TearResult(Effect(p))
    \/ At(p, "r-final") /\ Retained(Target(p)) /\ TearResult(Post(Target(p)))

Death(p) ==
    /\ crashes < MaxCrashes
    /\ ~At(p, "idle")
    /\ crashes' = crashes + 1
    /\ \/ UNCHANGED <<attempts, results>>
       \/ Tearing /\ (DieAdmitting(p) \/ DieCommitting(p))
    /\ Leave(p)
    /\ UNCHANGED <<file, temps, edits>>

(* An editor, a merge or a checkout changes a plan that keeps provenance.  *)
Alter ==
    /\ Whole
    /\ Len(file) < MaxLength
    /\ edits < MaxEdits
    /\ edits' = edits + 1
    /\ file' = Append(file, Edited)
    /\ UNCHANGED <<attempts, results, temps, lock, pc, job, crashes>>

Proceed(p) ==
    /\ Create(p) \/ Update(p) \/ Recover(p) \/ Refuse(p)
    /\ UNCHANGED <<edits, crashes>>

Next ==
    \/ Alter
    \/ \E p \in Procs : Proceed(p) \/ Death(p)

Spec == Init /\ [][Next]_vars

-----------------------------------------------------------------------------
(* Fairness.  A process that was started takes its steps: none of them     *)
(* waits, the lock included.  That somebody comes back for an update that  *)
(* has no result is the caller's part, and an assumption.                  *)
Working(p) == ~At(p, "idle") /\ Proceed(p)

Returning(p) == ResumeUpdate(p) /\ UNCHANGED <<edits, crashes>>

PlanningFairness ==
    \A p \in Procs : WF_vars(Working(p)) /\ SF_vars(Returning(p))

FairSpec == Spec /\ PlanningFairness

-----------------------------------------------------------------------------
Steps == {"idle", "c-admit", "c-open", "c-write", "c-commit",
          "u-lock", "u-check", "u-admit", "u-temp", "u-rename", "u-commit",
          "r-lock", "r-check", "r-admit", "r-final", "r-commit"}

(* The types of the state, and the lock is held exactly by the process     *)
(* that is past acquiring it.                                              *)
TypeOK ==
    /\ StoreTypeOK
    /\ file \in Chains \cup {Absent, Torn}
    /\ temps \subseteq {e \in Effects : e.try = 0}
    /\ pc \in [Procs -> Steps]
    /\ \A p \in Procs :
          /\ job[p] = None \/ job[p] \in [effect : Effects,
                                          custody : {None, "pending", "final"}]
          /\ At(p, "idle") <=> job[p] = None
          /\ lock = p <=> pc[p] \in {"u-check", "u-admit", "u-temp", "u-rename", "u-commit",
                                     "r-check", "r-admit", "r-final", "r-commit"}
    /\ lock \in Procs \cup {None}
    /\ edits \in 0 .. MaxEdits /\ crashes \in 0 .. MaxCrashes

(* The plan is an append-only history: an update lands on the exact bytes  *)
(* it was computed from, only when the creation and every earlier update   *)
(* are settled; no edit is overwritten, no update lost; and a result is    *)
(* committed only for a write that is part of the plan.                    *)
History == INSTANCE OwnerHistory WITH
    Writes <- Materials,
    history <- IF Whole THEN file ELSE <<>>,
    settled <- {e.of : e \in {x \in Effects : x.try = 0 /\ Committed(x)}}

ImplementsOwnerHistory == History!HistorySpec

(* Every write in the plan has an intact attempt: whoever meets the plan   *)
(* can tell who wrote it, and no second admission of it is possible.       *)
WritesAttributed ==
    Whole => \A v \in History!Versions(file) : attempts[Post(v)] = Admitted

(* A temporary that is left behind is never mistaken for the plan: its     *)
(* update is not part of it, and will not be.                              *)
LeftoverNotPublished ==
    \A e \in temps : ~(Whole /\ IsPrefix(e.of, file)) /\ results[e] = Absent

(* A recovery answers only for an update whose own result it, or somebody  *)
(* before it, committed; the two outcomes stay distinct.                   *)
RecoveryAnswersForOriginal ==
    \A e \in Effects : Committed(e) /\ e.try > 0 => Committed(Post(e.of))

(* Recovery writes no material: while a process holds the lock to recover  *)
(* an update the plan changes only by an edit.                             *)
RecoveryWritesNothing ==
    [][\A p \in Procs : pc[p] \in {"r-check", "r-admit", "r-final", "r-commit"} =>
          file' = file \/ edits' # edits]_vars

(* The plan ends with an update that has no result.                        *)
Outstanding == Whole /\ Published(file) /\ ~Committed(Post(file))

(* A death inside the creation of its result, or of the attempt of the     *)
(* recovery, has left a record that cannot be read.                        *)
Spoilt ==
    Whole /\ Torn \in {results[Post(file)]} \cup {attempts[Recovery(file, n)] : n \in 1 .. MaxTries}

(* An update that is in the plan and was not edited is settled at last,    *)
(* although its writer died, if somebody comes back for it and no record   *)
(* was torn; of two deaths nothing is said.                                *)
PostimageSettles == Outstanding ~> ~Outstanding \/ Spoilt \/ crashes > 1

(* What holds of the plan between any two steps: its types and lock, the   *)
(* attribution of what is in it, leftovers kept apart, and recoveries that *)
(* answer for a result that is there.                                      *)
PlanConsistent ==
    TypeOK /\ WritesAttributed /\ LeftoverNotPublished /\ RecoveryAnswersForOriginal
=============================================================================
