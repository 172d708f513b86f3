-------------------------- MODULE MemoryRetirement --------------------------
(***************************************************************************)
(* memory.retire-terminal and its recovery: one declared note that no      *)
(* other source mentions is taken out of the manifest and then removed.    *)
(* The request binds the manifest, the note and a guard over every other   *)
(* source of the repository; all of it is verified again before each       *)
(* write.  One record carries an interrupted retirement and the recovery   *)
(* that was last admitted for it.                                          *)
(***************************************************************************)
EXTENDS MemoryStore

InMemory == {"source", "manifest", "dispose"}

(* What observe_sources reads besides note n and the manifest: the other   *)
(* notes, the temporaries left among them, and who mentions what.          *)
Guard(n) ==
    [notes |-> [m \in Notes \ {n} |-> notes[m]],
     files |-> {f \in temps \cup torn : f[1] \in InMemory},
     cited |-> cited]

(* A temporary of the manifest mentions what it declares.  (A torn one is  *)
(* torn before its first declaration.)                                     *)
Mentioned(n) ==
    \/ n \in cited
    \/ \E f \in temps : f[1] \in {"manifest", "dispose"} /\ issued[f[2]].post[n] # None

Retirable(n) ==
    /\ notes[n] # Absent
    /\ Row(manifest, n) # None
    /\ ~Mentioned(n)

Retirement(n, t) ==
    [op |-> "retire", note |-> n, content |-> notes[n], before |-> manifest,
     post |-> WithRow(manifest, n, None), guard |-> Guard(n), task |-> t]

RetirementAccepted(i) ==
    /\ Legible /\ pending = None
    /\ Retirable(i.note)
    /\ i = Retirement(i.note, i.task)

(* A recovery names the record, with the recovery the record names.        *)
RetirementRecovery(record, t) == [op |-> "recover-retirement", record |-> record, task |-> t]

RetirementRecoveryAccepted(r) == Legible /\ pending # None /\ r.record = pending

RetirementRequests(n, t) ==
    LET retirements == IF Retirable(n) THEN {Retirement(n, t)} ELSE {}
        recoveries == IF pending = None THEN {} ELSE {RetirementRecovery(pending, t)}
    IN {i \in retirements : RetirementAccepted(i)}
         \cup {r \in recoveries : RetirementRecoveryAccepted(r)}

-----------------------------------------------------------------------------
Recovering(p) == Op(p) = "recover-retirement"
Original(p) == IF Recovering(p) THEN Invocation(p).record.of ELSE job[p]
Retiring(p) == issued[Original(p)]

RetirementStillAccepted(p) ==
    IF Recovering(p) THEN RetirementRecoveryAccepted(Invocation(p)) ELSE RetirementAccepted(Invocation(p))

(* Mutant: what the other sources say is not part of the comparison.       *)
VerifiedUnguarded(i, gone) ==
    /\ manifest = i.before \/ (gone /\ manifest = i.post)
    /\ notes[i.note] = i.content \/ (gone /\ notes[i.note] = Absent)

(* verify; what a recovery may find already done is allowed.               *)
Verified(i, gone) ==
    /\ manifest = i.before \/ (gone /\ manifest = i.post)
    /\ notes[i.note] = i.content \/ (gone /\ notes[i.note] = Absent)
    /\ Guard(i.note) = i.guard

Record(p) == [of |-> Original(p), recovery |-> IF Recovering(p) THEN job[p] ELSE None]

MayRetire(p) ==
    LET i == Retiring(p)
    IN CASE At(p, "q-record") -> Verified(i, Recovering(p))
         [] At(p, "q-pending") -> /\ RetirementStillAccepted(p)
                                  /\ ~Recovering(p) => Verified(i, FALSE)
         [] At(p, "q-stage") -> /\ Verified(i, Recovering(p))
                                /\ manifest = i.post \/ <<"retire", job[p]>> \notin torn
         [] At(p, "q-barrier") -> Verified(i, Recovering(p))
         [] At(p, "q-install") -> TRUE
         [] At(p, "q-verify") -> Verified(i, TRUE)
         [] At(p, "q-unlink") -> TRUE
         [] At(p, "q-original") -> Committed(Original(p)) \/ CanCommit(Original(p))
         [] At(p, "q-commit") -> CanCommit(job[p])
         [] At(p, "q-clear") -> TRUE
         [] OTHER -> FALSE

WriteRecord(p) ==
    /\ At(p, "q-record") /\ MayRetire(p)
    /\ temps' = temps \cup {<<"record", job[p]>>}
    /\ Continue(p, "q-pending")
    /\ UNCHANGED <<attempts, results, spent, notes, manifest, marker, filed, filedTorn, pending, torn>>

InstallRecord(p) ==
    /\ At(p, "q-pending") /\ MayRetire(p)
    /\ pending' = Record(p)
    /\ temps' = temps \ {<<"record", job[p]>>}
    /\ Continue(p, "q-stage")
    /\ UNCHANGED <<attempts, results, spent, notes, manifest, marker, filed, filedTorn, torn>>

StageRetirement(p) ==
    /\ At(p, "q-stage") /\ MayRetire(p)
    /\ LET done == manifest = Retiring(p).post
       IN /\ temps' = IF done THEN temps ELSE temps \cup {<<"retire", job[p]>>}
          /\ Continue(p, IF done THEN "q-verify" ELSE "q-barrier")
    /\ UNCHANGED <<attempts, results, spent, notes, manifest, marker, filed, filedTorn, pending, torn>>

BarrierRetirement(p) ==
    /\ At(p, "q-barrier") /\ MayRetire(p)
    /\ Continue(p, "q-install")
    /\ UNCHANGED diskVars

InstallRetirement(p) ==
    /\ At(p, "q-install")
    /\ manifest' = Retiring(p).post
    /\ temps' = temps \ {<<"retire", job[p]>>}
    /\ Continue(p, "q-verify")
    /\ UNCHANGED <<attempts, results, spent, notes, marker, filed, filedTorn, pending, torn>>

VerifyRemoval(p) ==
    /\ At(p, "q-verify") /\ MayRetire(p)
    /\ Continue(p, "q-unlink")
    /\ UNCHANGED diskVars

Remove(p) ==
    /\ At(p, "q-unlink")
    /\ notes' = [notes EXCEPT ![Retiring(p).note] = Absent]
    /\ Continue(p, "q-original")
    /\ UNCHANGED <<attempts, results, spent, manifest, marker, filed, filedTorn, pending, temps, torn>>

(* The original result may be there already.                               *)
CommitRetirement(p) ==
    /\ At(p, "q-original") /\ MayRetire(p)
    /\ IF CanCommit(Original(p)) THEN Finish(Original(p)) ELSE UNCHANGED <<attempts, results, spent>>
    /\ Continue(p, IF Recovering(p) THEN "q-commit" ELSE "q-clear")
    /\ UNCHANGED fileVars

CommitRetirementRecovery(p) ==
    /\ At(p, "q-commit") /\ MayRetire(p)
    /\ Finish(job[p])
    /\ Continue(p, "q-clear")
    /\ UNCHANGED fileVars

ClearRecord(p) ==
    /\ At(p, "q-clear")
    /\ pending' = None
    /\ Leave(p)
    /\ UNCHANGED <<attempts, results, spent, notes, manifest, marker, filed, filedTorn, temps, torn, boundVars>>

Retire(p) ==
    \/ WriteRecord(p)
    \/ InstallRecord(p)
    \/ StageRetirement(p)
    \/ BarrierRetirement(p)
    \/ InstallRetirement(p)
    \/ VerifyRemoval(p)
    \/ Remove(p)
    \/ CommitRetirement(p)
    \/ CommitRetirementRecovery(p)
    \/ ClearRecord(p)
=============================================================================
