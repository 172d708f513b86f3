------------------------- MODULE MemoryDisposition -------------------------
(***************************************************************************)
(* memory.dispose and its recovery: a declaration is given a disposition   *)
(* (retain, retire, promote; here that it is nominated for retirement).    *)
(* The write is bound to the selected notes and to the manifest as they    *)
(* are, and its marker is named by the postimage of the manifest.          *)
(***************************************************************************)
EXTENDS MemoryStore

Selected == [n \in {x \in Notes : notes[x] # Absent /\ Row(manifest, x) # None} |-> notes[n]]

Disposal(n, t) ==
    [op |-> "dispose", note |-> n, sources |-> Selected, before |-> manifest,
     post |-> WithRow(manifest, n, [manifest[n] EXCEPT !.status = "retire"]), task |-> t]

Disposable(n) == n \in DOMAIN Selected /\ manifest[n].status # "retire"

(* The disposition whose marker is named by manifest m.                    *)
Filed(m) == {e \in filed : issued[e].post = m}
FiledReadable(m) == m \notin filedTorn /\ \A e \in Filed(m) : Held(e)

DisposalAccepted(i) ==
    /\ Legible /\ FiledReadable(manifest)
    /\ Disposable(i.note)
    /\ i = Disposal(i.note, i.task)

DisposalRecovery(e, t) ==
    [op |-> "recover-disposition", of |-> e, sources |-> Selected, task |-> t]

DisposalRecoveryAccepted(r) ==
    /\ Legible /\ FiledReadable(manifest)
    /\ r.of \in Filed(manifest)
    /\ r = DisposalRecovery(r.of, r.task)
    /\ Selected # <<>>
    /\ \A n \in DOMAIN Selected :
          n \in DOMAIN issued[r.of].sources /\ issued[r.of].sources[n] = Selected[n]

(* Recoveries are listed while the disposition has no result.              *)
DisposalRequests(n, t) ==
    LET disposals == IF Disposable(n) THEN {Disposal(n, t)} ELSE {}
        recoveries == {DisposalRecovery(e, t) : e \in {x \in Filed(manifest) : results[x] = Absent}}
    IN {i \in disposals : DisposalAccepted(i)} \cup {r \in recoveries : DisposalRecoveryAccepted(r)}

-----------------------------------------------------------------------------
CanDispose(e) ==
    LET post == issued[e].post
    IN /\ FiledReadable(post)
       /\ Filed(post) \subseteq {e}
       /\ e \in filed => ~Committed(e)
       /\ e \notin filed => <<"dispose", e>> \notin temps \cup torn

MayDispose(p) ==
    CASE At(p, "d-mark") -> Filed(Invocation(p).post) = {} /\ Invocation(p).post \notin filedTorn
      [] At(p, "d-stage") -> <<"dispose", job[p]>> \notin torn
      [] At(p, "d-barrier") -> DisposalAccepted(Invocation(p))
      [] At(p, "d-install") -> TRUE
      [] At(p, "d-verify") -> DisposalRecoveryAccepted(Invocation(p))
      [] At(p, "d-original") -> CanCommit(Invocation(p).of)
      [] OTHER -> FALSE

AfterDispositionAdmission(p) ==
    IF Op(p) = "recover-disposition" THEN "d-verify"
    ELSE IF job[p] \in filed THEN "d-stage" ELSE "d-mark"

FileDisposition(p) ==
    /\ At(p, "d-mark") /\ MayDispose(p)
    /\ filed' = filed \cup {job[p]}
    /\ Continue(p, "d-stage")
    /\ UNCHANGED <<attempts, results, spent, notes, manifest, marker, filedTorn, pending, temps, torn>>

StageDisposition(p) ==
    /\ At(p, "d-stage") /\ MayDispose(p)
    /\ temps' = temps \cup {<<"dispose", job[p]>>}
    /\ Continue(p, "d-barrier")
    /\ UNCHANGED <<attempts, results, spent, notes, manifest, marker, filed, filedTorn, pending, torn>>

BarrierDisposition(p) ==
    /\ At(p, "d-barrier") /\ MayDispose(p)
    /\ Continue(p, "d-install")
    /\ UNCHANGED diskVars

InstallDisposition(p) ==
    /\ At(p, "d-install")
    /\ manifest' = Invocation(p).post
    /\ temps' = temps \ {<<"dispose", job[p]>>}
    /\ Continue(p, "answer")
    /\ UNCHANGED <<attempts, results, spent, notes, marker, filed, filedTorn, pending, torn>>

VerifyDisposition(p) ==
    /\ At(p, "d-verify") /\ MayDispose(p)
    /\ Continue(p, "d-original")
    /\ UNCHANGED diskVars

CommitDisposition(p) ==
    /\ At(p, "d-original") /\ MayDispose(p)
    /\ Finish(Invocation(p).of)
    /\ Continue(p, "answer")
    /\ UNCHANGED fileVars

Dispose(p) ==
    \/ FileDisposition(p)
    \/ StageDisposition(p)
    \/ BarrierDisposition(p)
    \/ InstallDisposition(p)
    \/ VerifyDisposition(p)
    \/ CommitDisposition(p)
=============================================================================
