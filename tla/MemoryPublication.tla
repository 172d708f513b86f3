------------------------- MODULE MemoryPublication -------------------------
(***************************************************************************)
(* memory.capture-decision, memory.capture-advisory and their recoveries.  *)
(* A publication is two files: the note, named by its identity, and the    *)
(* manifest that declares it.  Its marker is named by the note; a revision *)
(* of advice replaces the marker of the publication it revises, and takes  *)
(* that publication's attempt and result away once its own is committed.   *)
(***************************************************************************)
EXTENDS MemoryStore

(* A new note: no file, no declaration, no publication that was committed. *)
NewNote(n) ==
    /\ notes[n] = Absent
    /\ Row(manifest, n) = None
    /\ Retained(n) # None => ~Committed(marker[n])

CleanupPending(i) ==
    i.replaces # None /\ ~(attempts[i.replaces] = Absent /\ results[i.replaces] = Absent)

(* A revision: declared advice whose former publication is settled.        *)
Revisable(n) ==
    /\ n \in Advice
    /\ notes[n] # Absent
    /\ Row(manifest, n) # None
    /\ Retained(n) # None => Committed(marker[n]) /\ ~CleanupPending(issued[marker[n]])

(* The proposal an authorising answer names; a revision of advice renews   *)
(* the cues of its declaration and keeps its disposition.                  *)
Proposal(n, c, t) ==
    LET row == Row(manifest, n)
    IN [op |-> "capture", note |-> n, content |-> c, source_before |-> notes[n],
        before |-> manifest, replaces |-> IF notes[n] = Absent THEN None ELSE Retained(n),
        post |-> WithRow(manifest, n, IF row = None THEN Declaration(c) ELSE [row EXCEPT !.cues = c]),
        task |-> t]

ManifestCurrent(i) == manifest = i.post

(* Mutant: recovery trusts the binding and not the manifest.               *)
ManifestExpectedAny(i) == i.post \in Manifests

ManifestExpected(i) == manifest \in {i.before, i.post}

(* The row says at least what the publication declared.                    *)
DeclarationCurrent(i) ==
    LET row == Row(manifest, i.note)
        expected == i.post[i.note]
    IN /\ row # None /\ row.cues = expected.cues
       /\ expected.status # "open" => row.status = expected.status

Unchanged(i) == notes[i.note] = i.content /\ DeclarationCurrent(i)

(* confirmed_publication: what lets provisional evidence be cleaned up.    *)
Confirmed(n) ==
    /\ n \in Advice /\ Retained(n) # None
    /\ Committed(marker[n])
    /\ notes[n] = issued[marker[n]].content
    /\ DeclarationCurrent(issued[marker[n]])

Proposed(i) ==
    /\ NewNote(i.note) \/ Revisable(i.note)
    /\ i = Proposal(i.note, i.content, i.task)
    /\ ~Unchanged(i)

(* The exact request of an interrupted publication keeps its binding.      *)
Resumed(i) == Retained(i.note) # None /\ issued[marker[i.note]] = i
Resumable(i) == ManifestExpected(i) /\ notes[i.note] \in {i.content, i.source_before}

CaptureAccepted(i) ==
    /\ Legible /\ Readable(i.note)
    /\ IF Resumed(i) /\ ~Committed(marker[i.note]) THEN Resumable(i) ELSE Proposed(i)

(* Mutant: a decision is recovered before its note is there.               *)
RecoveryAcceptedEarly(r) ==
    LET i == issued[r.of]
    IN /\ Legible /\ Readable(i.note)
       /\ marker[i.note] = r.of
       /\ r.task = i.task
       /\ ~Committed(r.of) \/ CleanupPending(i)
       /\ ManifestExpected(i)
       /\ notes[i.note] \in {i.content, i.source_before}

(* Recovery names the record; the work is that of the publication, advice  *)
(* may still hold what the revision replaces.                              *)
RecoveryAccepted(r) ==
    LET i == issued[r.of]
    IN /\ Legible /\ Readable(i.note)
       /\ marker[i.note] = r.of
       /\ r.task = i.task
       /\ ~Committed(r.of) \/ CleanupPending(i)
       /\ ManifestExpected(i)
       /\ \/ notes[i.note] = i.content
          \/ i.note \in Advice /\ notes[i.note] = i.source_before

Recovery(e, t) == [op |-> "recover", of |-> e, task |-> t]

(* What a view lists for note n: proposals, the request of an interrupted  *)
(* publication, or its recovery once the note is there.                    *)
PublicationRequests(n, t) ==
    LET proposals == IF NewNote(n) \/ Revisable(n) THEN {Proposal(n, c, t) : c \in Contents} ELSE {}
        unfinished == Retained(n) # None /\ ~Committed(marker[n])
        pendingCleanup == Retained(n) # None /\ CleanupPending(issued[marker[n]])
        interrupted == IF unfinished /\ issued[marker[n]].task = t THEN {issued[marker[n]]} ELSE {}
        recoveries == IF unfinished \/ pendingCleanup THEN {Recovery(marker[n], t)} ELSE {}
    IN {i \in proposals \cup interrupted : CaptureAccepted(i)}
         \cup {r \in recoveries : RecoveryAccepted(r)}

-----------------------------------------------------------------------------
(* The publication a call works on: its own, or the one it recovers.       *)
Subject(p) == IF Op(p) = "recover" THEN Invocation(p).of ELSE job[p]
Publication(p) == issued[Subject(p)]
Note(p) == Publication(p).note

PublicationAccepted(p) ==
    IF Op(p) = "recover" THEN RecoveryAccepted(Invocation(p)) ELSE CaptureAccepted(Invocation(p))

Replacing(i) == i.replaces # None /\ marker[i.note] = i.replaces

(* Under the lock: no other attempt holds the marker, and no temporary     *)
(* lies there that this call does not own.                                 *)
CanPublish(e) ==
    LET i == issued[e]
    IN /\ Retained(i.note) # None => marker[i.note] = e \/ Replacing(i)
       /\ Retained(i.note) = None =>
             /\ <<"source", e>> \notin temps \cup torn
             /\ i.note \in Decisions => <<"manifest", e>> \notin temps \cup torn

JournalFree(e) ==
    \A f \in temps \cup torn :
        f[1] = "journal" /\ issued[f[2]].note = issued[e].note =>
            f = <<"journal", e>> /\ f \notin torn

MayPublish(p) ==
    LET e == Subject(p)
        i == Publication(p)
    IN CASE At(p, "journal") -> JournalFree(e)
         [] At(p, "swap") -> marker[i.note] = i.replaces
         [] At(p, "mark") -> marker[i.note] = Absent
         [] At(p, "stage") -> <<"source", e>> \notin torn
         [] At(p, "barrier") -> /\ PublicationAccepted(p)
                                /\ i.source_before # Absent =>
                                      notes[i.note] \in {i.content, i.source_before}
         [] At(p, "install") -> i.source_before = Absent => notes[i.note] = Absent
         [] At(p, "r-check") -> PublicationAccepted(p)
         [] At(p, "m-stage") -> ManifestExpected(i) /\ (ManifestCurrent(i) \/ <<"manifest", e>> \notin torn)
         [] At(p, "m-barrier") -> ManifestExpected(i)
         [] At(p, "m-install") -> i.before = Absent => manifest = Absent
         [] OTHER -> FALSE

(* Where a publication goes once it is admitted.                           *)
AfterPublicationAdmission(p) ==
    IF Op(p) = "recover" THEN "r-check"
    ELSE IF Retained(Note(p)) = job[p] THEN "stage"
    ELSE IF Retained(Note(p)) # None THEN "journal" ELSE "mark"

-----------------------------------------------------------------------------
(* marker.tmp, then the marker it replaces is compared once more.          *)
Journal(p) ==
    /\ At(p, "journal") /\ MayPublish(p)
    /\ temps' = temps \cup {<<"journal", job[p]>>}
    /\ Continue(p, "swap")
    /\ UNCHANGED <<attempts, results, spent, notes, manifest, marker, filed, filedTorn, pending, torn>>

Swap(p) ==
    /\ At(p, "swap") /\ MayPublish(p)
    /\ marker' = [marker EXCEPT ![Note(p)] = job[p]]
    /\ temps' = temps \ {<<"journal", job[p]>>}
    /\ Continue(p, "stage")
    /\ UNCHANGED <<attempts, results, spent, notes, manifest, filed, filedTorn, pending, torn>>

Mark(p) ==
    /\ At(p, "mark") /\ MayPublish(p)
    /\ marker' = [marker EXCEPT ![Note(p)] = job[p]]
    /\ Continue(p, "stage")
    /\ UNCHANGED <<attempts, results, spent, notes, manifest, filed, filedTorn, pending, temps, torn>>

Stage(p) ==
    /\ At(p, "stage") /\ MayPublish(p)
    /\ temps' = temps \cup {<<"source", Subject(p)>>}
    /\ Continue(p, "barrier")
    /\ UNCHANGED <<attempts, results, spent, notes, manifest, marker, filed, filedTorn, pending, torn>>

(* The last look at the note: what is already published drops its          *)
(* temporary.                                                              *)
Barrier(p) ==
    /\ At(p, "barrier") /\ MayPublish(p)
    /\ LET there == notes[Note(p)] = Publication(p).content
       IN /\ temps' = IF there THEN temps \ {<<"source", Subject(p)>>} ELSE temps
          /\ Continue(p, IF there THEN "m-stage" ELSE "install")
    /\ UNCHANGED <<attempts, results, spent, notes, manifest, marker, filed, filedTorn, pending, torn>>

(* A new note is linked, a revision is renamed over what it revises.       *)
Install(p) ==
    /\ At(p, "install") /\ MayPublish(p)
    /\ notes' = [notes EXCEPT ![Note(p)] = Publication(p).content]
    /\ temps' = temps \ {<<"source", Subject(p)>>}
    /\ Continue(p, "m-stage")
    /\ UNCHANGED <<attempts, results, spent, manifest, marker, filed, filedTorn, pending, torn>>

(* The recovery of a decision looks again after it admitted itself.        *)
CheckRecovery(p) ==
    /\ At(p, "r-check") /\ MayPublish(p)
    /\ Continue(p, "m-stage")
    /\ UNCHANGED diskVars

-----------------------------------------------------------------------------
(* publish_manifest.                                                       *)
StageManifest(p) ==
    /\ At(p, "m-stage") /\ MayPublish(p)
    /\ LET i == Publication(p)
       IN /\ temps' = IF ManifestCurrent(i) THEN temps ELSE temps \cup {<<"manifest", Subject(p)>>}
          /\ Continue(p, IF ManifestCurrent(i) THEN "commit" ELSE "m-barrier")
    /\ UNCHANGED <<attempts, results, spent, notes, manifest, marker, filed, filedTorn, pending, torn>>

BarrierManifest(p) ==
    /\ At(p, "m-barrier") /\ MayPublish(p)
    /\ Continue(p, "m-install")
    /\ UNCHANGED diskVars

InstallManifest(p) ==
    /\ At(p, "m-install") /\ MayPublish(p)
    /\ manifest' = Publication(p).post
    /\ temps' = temps \ {<<"manifest", Subject(p)>>}
    /\ Continue(p, "commit")
    /\ UNCHANGED <<attempts, results, spent, notes, marker, filed, filedTorn, pending, torn>>

-----------------------------------------------------------------------------
(* The result.  Only the recovery of advice may find it already there.     *)
CanSettle(p) ==
    \/ CanCommit(Subject(p))
    \/ Op(p) = "recover" /\ Note(p) \in Advice /\ Committed(Subject(p))

AfterSettling(p) ==
    IF Op(p) = "recover" /\ Note(p) \in Decisions THEN "answer"
    ELSE IF Publication(p).replaces # None THEN "clean" ELSE "idle"

Settle(p) ==
    /\ At(p, "commit") /\ Op(p) \in {"capture", "recover"} /\ CanSettle(p)
    /\ IF CanCommit(Subject(p)) THEN Finish(Subject(p)) ELSE UNCHANGED <<attempts, results, spent>>
    /\ IF AfterSettling(p) = "idle"
       THEN Leave(p) /\ UNCHANGED boundVars
       ELSE Continue(p, AfterSettling(p))
    /\ UNCHANGED fileVars

(* Mutant: the result of the replaced publication is removed first.        *)
CleanResultFirst(p) ==
    LET old == Publication(p).replaces
    IN /\ At(p, "clean")
       /\ IF results[old] # Absent
          THEN /\ results' = [results EXCEPT ![old] = Absent]
               /\ UNCHANGED attempts
               /\ Continue(p, "clean")
          ELSE /\ attempts' = [attempts EXCEPT ![old] = Absent]
               /\ UNCHANGED results
               /\ Leave(p) /\ UNCHANGED boundVars
       /\ UNCHANGED <<spent, fileVars>>

(* cleanup_receipts: the attempt of the replaced publication, then its     *)
(* result.                                                                 *)
Clean(p) ==
    LET old == Publication(p).replaces
    IN /\ At(p, "clean")
       /\ IF attempts[old] # Absent
          THEN /\ attempts' = [attempts EXCEPT ![old] = Absent]
               /\ UNCHANGED results
               /\ Continue(p, "clean")
          ELSE /\ results' = [results EXCEPT ![old] = Absent]
               /\ UNCHANGED attempts
               /\ Leave(p) /\ UNCHANGED boundVars
       /\ UNCHANGED <<spent, fileVars>>

Publish(p) ==
    \/ Journal(p)
    \/ Swap(p)
    \/ Mark(p)
    \/ Stage(p)
    \/ Barrier(p)
    \/ Install(p)
    \/ CheckRecovery(p)
    \/ StageManifest(p)
    \/ BarrierManifest(p)
    \/ InstallManifest(p)
    \/ Settle(p)
    \/ Clean(p)
=============================================================================
