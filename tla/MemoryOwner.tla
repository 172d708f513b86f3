---------------------------- MODULE MemoryOwner ----------------------------
(***************************************************************************)
(* The writers of Memory together: publication, disposition and retirement *)
(* under memory.lock, among processes that die and editors that take no    *)
(* lock.                                                                   *)
(***************************************************************************)
EXTENDS MemoryPublication, MemoryDisposition, MemoryRetirement

Init ==
    /\ StoreInit
    /\ issued = <<>>
    /\ notes \in [Notes -> Contents \cup {Absent}]
    /\ manifest \in Manifests
    /\ marker = [n \in Notes |-> Absent]
    /\ filed = {} /\ filedTorn = {}
    /\ pending = None
    /\ temps = {} /\ torn = {}
    /\ cited \in SUBSET Notes
    /\ lock = None
    /\ pc = [p \in Procs |-> "idle"]
    /\ job = [p \in Procs |-> None]
    /\ window = {} /\ spent = {}
    /\ edits = 0 /\ crashes = 0

Requests(n, t) == PublicationRequests(n, t) \cup DisposalRequests(n, t) \cup RetirementRequests(n, t)

-----------------------------------------------------------------------------
Begin(p, i) ==
    /\ At(p, "idle")
    /\ Slot(i) \in Effects
    /\ issued' = IF Issued(i) THEN issued ELSE Append(issued, i)
    /\ pc' = [pc EXCEPT ![p] = "lock"]
    /\ job' = [job EXCEPT ![p] = Slot(i)]
    /\ UNCHANGED <<diskVars, lock, window, boundVars>>

(* Under the lock the view is made again, and each operation looks at what *)
(* recovery evidence its effect would collide with.                        *)
MayStart(p) ==
    LET i == Invocation(p)
    IN CASE i.op = "capture" -> CaptureAccepted(i) /\ CanPublish(job[p])
         [] i.op = "recover" -> RecoveryAccepted(i)
         [] i.op = "dispose" -> DisposalAccepted(i) /\ CanDispose(job[p])
         [] i.op = "recover-disposition" -> DisposalRecoveryAccepted(i)
         [] i.op = "retire" -> RetirementAccepted(i)
         [] i.op = "recover-retirement" -> RetirementRecoveryAccepted(i)

(* The recovery of advice answers with the original outcome and has no     *)
(* attempt of its own.                                                     *)
AnswersAlone(p) == Op(p) = "recover" /\ Note(p) \in Advice

(* Admission with the custody of a publication that is resumed.            *)
HasCustody(p) ==
    \/ Op(p) = "capture" /\ Retained(Note(p)) = job[p]
    \/ Op(p) = "dispose" /\ job[p] \in filed

AfterAdmission(p) ==
    CASE Op(p) \in {"capture", "recover"} -> AfterPublicationAdmission(p)
      [] Op(p) \in {"dispose", "recover-disposition"} -> AfterDispositionAdmission(p)
      [] OTHER -> "q-record"

May(p) ==
    CASE At(p, "lock") -> lock = None /\ MayStart(p)
      [] At(p, "admit") -> HasCustody(p) \/ CanAdmit(job[p])
      [] At(p, "commit") -> CanSettle(p)
      [] At(p, "clean") -> TRUE
      [] At(p, "answer") -> CanCommit(job[p])
      [] OTHER -> MayPublish(p) \/ MayDispose(p) \/ MayRetire(p)

(* Where a check fails the call returns an error and changes nothing more. *)
Refuse(p) ==
    /\ ~At(p, "idle")
    /\ ~May(p)
    /\ Leave(p)
    /\ UNCHANGED <<diskVars, boundVars>>

(* memory.lock does not wait: a busy owner is an error.                    *)
Lock(p) ==
    /\ At(p, "lock") /\ May(p)
    /\ lock' = p
    /\ pc' = [pc EXCEPT ![p] = IF AnswersAlone(p) THEN "stage" ELSE "admit"]
    /\ UNCHANGED <<diskVars, issued, job, window, boundVars>>

Admission(p) ==
    /\ At(p, "admit") /\ May(p)
    /\ IF HasCustody(p) THEN UNCHANGED <<attempts, results>> ELSE Admit(job[p])
    /\ Continue(p, AfterAdmission(p))
    /\ UNCHANGED <<spent, fileVars>>

(* The result of the call itself.                                          *)
Answer(p) ==
    /\ At(p, "answer") /\ May(p)
    /\ Finish(job[p])
    /\ Leave(p)
    /\ UNCHANGED <<fileVars, boundVars>>

-----------------------------------------------------------------------------
(* Deaths: between any two steps, or inside the creation of a file.        *)
TearTemp(p) ==
    \E f \in {<<"journal", "journal">>, <<"stage", "source">>, <<"m-stage", "manifest">>,
              <<"d-stage", "dispose">>, <<"q-record", "record">>, <<"q-stage", "retire">>} :
        LET e == IF f[2] \in {"source", "manifest"} THEN Subject(p) ELSE job[p]
        IN /\ At(p, f[1]) /\ May(p)
           /\ <<f[2], e>> \notin temps
           /\ f[2] = "manifest" => ~ManifestCurrent(Publication(p))
           /\ f[2] = "retire" => manifest # Retiring(p).post
           /\ torn' = torn \cup {<<f[2], e>>}

Committing(p) ==
    CASE At(p, "commit") -> Subject(p)
      [] At(p, "d-original") -> Invocation(p).of
      [] At(p, "q-original") -> Original(p)
      [] pc[p] \in {"answer", "q-commit"} -> job[p]
      [] OTHER -> None

Tear(p) ==
    \/ /\ TearTemp(p)
       /\ UNCHANGED <<attempts, results, marker, filedTorn>>
    \/ /\ At(p, "admit") /\ ~HasCustody(p) /\ TearAttempt(job[p])
       /\ UNCHANGED <<torn, marker, filedTorn>>
    \/ /\ At(p, "mark") /\ May(p)
       /\ marker' = [marker EXCEPT ![Note(p)] = Torn]
       /\ UNCHANGED <<attempts, results, torn, filedTorn>>
    \/ /\ At(p, "d-mark") /\ May(p)
       /\ filedTorn' = filedTorn \cup {Invocation(p).post}
       /\ UNCHANGED <<attempts, results, torn, marker>>
    \/ /\ Committing(p) # None /\ TearResult(Committing(p))
       /\ UNCHANGED <<torn, marker, filedTorn>>

Death(p) ==
    /\ crashes < MaxCrashes
    /\ pc[p] \notin {"idle", "lock"}
    /\ crashes' = crashes + 1
    /\ \/ UNCHANGED <<attempts, results, torn, marker, filedTorn>>
       \/ Tearing /\ Tear(p)
    /\ Leave(p)
    /\ UNCHANGED <<spent, notes, manifest, filed, pending, temps, cited, edits>>

(* Editors and other owners: a note, the declarations of one note, or a    *)
(* source that begins or ceases to mention one.                            *)
Edit(n) ==
    /\ edits < MaxEdits
    /\ edits' = edits + 1
    /\ window' = window \cup Exposed
    /\ \/ \E c \in Contents \cup {Absent} :
             /\ c # notes[n]
             /\ notes' = [notes EXCEPT ![n] = c]
             /\ UNCHANGED <<manifest, cited>>
       \/ \E row \in Declarations \cup {None} :
             /\ row # Row(manifest, n)
             /\ manifest' = WithRow(manifest, n, row)
             /\ UNCHANGED <<notes, cited>>
       \/ /\ cited' = IF n \in cited THEN cited \ {n} ELSE cited \cup {n}
          /\ UNCHANGED <<notes, manifest>>
    /\ UNCHANGED <<attempts, results, spent, marker, filed, filedTorn, pending, temps, torn,
                   issued, lock, pc, job, crashes>>

Proceed(p) ==
    \/ Lock(p)
    \/ Admission(p)
    \/ Publish(p)
    \/ Dispose(p)
    \/ Retire(p)
    \/ Answer(p)
    \/ Refuse(p)
    \/ Death(p)

Next ==
    \/ \E n \in Notes : Edit(n)
    \/ \E p \in Procs, n \in Notes, t \in Tasks : \E i \in Requests(n, t) : Begin(p, i)
    \/ \E p \in Procs : Proceed(p)

Spec == Init /\ [][Next]_vars

-----------------------------------------------------------------------------
Steps == {"idle", "lock", "admit", "journal", "swap", "mark", "stage", "barrier", "install",
          "r-check", "m-stage", "m-barrier", "m-install", "commit", "clean", "answer",
          "d-mark", "d-stage", "d-barrier", "d-install", "d-verify", "d-original",
          "q-record", "q-pending", "q-stage", "q-barrier", "q-install", "q-verify",
          "q-unlink", "q-original", "q-commit", "q-clear"}

Files == {"journal", "source", "manifest", "dispose", "record", "retire"} \X Effects

(* The types of the state; memory.lock is held exactly by the process that *)
(* is past acquiring it.                                                   *)
MemoryTypeOK ==
    /\ StoreTypeOK
    /\ Len(issued) <= MaxCalls
    /\ notes \in [Notes -> Contents \cup {Absent}]
    /\ manifest \in Manifests
    /\ \A n \in Notes : marker[n] \in {Absent, Torn} \/ marker[n] \in 1 .. Len(issued)
    /\ filed \subseteq Effects /\ filedTorn \subseteq Manifests
    /\ pending # None => pending.of \in Effects /\ pending.recovery \in Effects \cup {None}
    /\ temps \subseteq Files /\ torn \subseteq Files
    /\ cited \subseteq Notes
    /\ pc \in [Procs -> Steps]
    /\ \A p \in Procs : At(p, "idle") <=> job[p] = None
    /\ \A p \in Procs : lock = p <=> pc[p] \notin {"idle", "lock"}
    /\ window \subseteq Procs /\ spent \subseteq Effects
    /\ edits \in 0 .. MaxEdits /\ crashes \in 0 .. MaxCrashes

(* The manifest is one file for every note: whoever replaces it whole      *)
(* changes the declaration of its own note only, unless somebody edited    *)
(* it after the last look.                                                 *)
SiblingsKept ==
    [][\A p \in Procs :
          /\ pc[p] \in {"m-install", "d-install", "q-install"}
          /\ pc'[p] \in {"commit", "answer", "q-verify"}
          /\ p \notin window
          => LET own == CASE At(p, "m-install") -> Note(p)
                          [] At(p, "d-install") -> Invocation(p).note
                          [] At(p, "q-install") -> Retiring(p).note
             IN \A n \in Notes \ {own} : Row(manifest', n) = Row(manifest, n)]_vars

(* A death between any two of the files of an effect leaves a record that  *)
(* leads to it: a publication past its marker owns the marker of its note, *)
(* a disposition the marker of its postimage, a retirement the record; and *)
(* what is so named has its attempt: receipts are removed only after       *)
(* nothing names them.                                                     *)
MemoryTraceable ==
    /\ \A p \in Procs :
        /\ pc[p] \in {"stage", "barrier", "install", "m-stage", "m-barrier", "m-install", "commit", "clean"} =>
              marker[Note(p)] = Subject(p)
        /\ pc[p] \in {"d-stage", "d-barrier", "d-install"} => job[p] \in filed
        /\ pc[p] \in {"q-stage", "q-barrier", "q-install", "q-verify", "q-unlink", "q-original", "q-commit"} =>
              pending = Record(p)
    /\ \A n \in Notes : Retained(n) # None => attempts[marker[n]] = Admitted
    /\ \A e \in filed : attempts[e] = Admitted
    /\ pending # None => attempts[pending.of] = Admitted

(* An effect whose result was committed is not there to be committed       *)
(* again, not even when its receipts are taken away.                       *)
SpentForEver ==
    \A e \in spent : attempts[e] = Admitted => results[e] # Absent

(* A publication is committed when its note and its declaration are what   *)
(* was decided, unless they were edited after the last look.               *)
CommittedAsDecided ==
    [][\A e \in spent' \ spent :
          issued[e].op = "capture" /\ window = {} =>
            notes[issued[e].note] = issued[e].content /\ DeclarationCurrent(issued[e])]_vars

(* A note is removed only as the request read it, while nothing mentions   *)
(* it and after its declaration is gone, unless somebody moved them after  *)
(* the last look.  (An editor that puts the manifest back to exactly what  *)
(* the request named has the note removed under a declaration: verify      *)
(* accepts either image of the manifest.)                                  *)
RetiredKnowingly ==
    [][\A p \in Procs :
          At(p, "q-unlink") /\ pc'[p] = "q-original" /\ p \notin window =>
            LET i == Retiring(p)
            IN /\ notes[i.note] \in {i.content, Absent}
               /\ edits = 0 => Row(manifest, i.note) = None
               /\ ~Mentioned(i.note)]_vars

(* What holds of the notes between any two steps: types and the lock, a    *)
(* way back to everything that is under way, and no result that could be   *)
(* committed again.                                                        *)
MemoryConsistent == MemoryTypeOK /\ MemoryTraceable /\ SpentForEver
=============================================================================
