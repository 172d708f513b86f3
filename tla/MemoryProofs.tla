---------------------------- MODULE MemoryProofs ----------------------------
(***************************************************************************)
(* Proofs about the writers of Memory, for any notes, contents, tasks,     *)
(* processes and bounds.                                                   *)
(***************************************************************************)
EXTENDS MemoryCandidates, WellFoundedInduction, TLAPS

MemorySpec == MemoryInit /\ [][MemoryNext]_<<vars, candidateVars>>

(* The types of what is issued.                                            *)
Images == [Notes -> Declarations \cup {None}]
Selections == UNION {[S -> Contents] : S \in SUBSET Notes}
Guards ==
    [notes : UNION {[Notes \ {n} -> Contents \cup {Absent}] : n \in Notes},
     files : SUBSET Files, cited : SUBSET Notes]
Records == [of : Effects, recovery : Effects \cup {None}]

Captures ==
    [op : {"capture"}, note : Notes, content : Contents, source_before : Contents \cup {Absent},
     before : Manifests, replaces : Effects \cup {None}, post : Images, task : Tasks]
Recoveries == [op : {"recover"}, of : Effects, task : Tasks]
Disposals ==
    [op : {"dispose"}, note : Notes, sources : Selections, before : Manifests, post : Images, task : Tasks]
DisposalRecoveries == [op : {"recover-disposition"}, of : Effects, sources : Selections, task : Tasks]
Retirements ==
    [op : {"retire"}, note : Notes, content : Contents, before : Manifests, post : Images,
     guard : Guards, task : Tasks]
RetirementRecoveries == [op : {"recover-retirement"}, record : Records, task : Tasks]

Invocations ==
    Captures \cup Recoveries \cup Disposals \cup DisposalRecoveries \cup Retirements \cup RetirementRecoveries

Types ==
    /\ StoreTypeOK
    /\ issued \in Seq(Invocations) /\ Len(issued) <= MaxCalls
    /\ notes \in [Notes -> Contents \cup {Absent}]
    /\ manifest \in Manifests
    /\ marker \in [Notes -> Effects \cup {Absent, Torn}]
    /\ filed \subseteq Effects /\ filedTorn \subseteq Manifests
    /\ pending \in Records \cup {None}
    /\ temps \subseteq Files /\ torn \subseteq Files
    /\ cited \subseteq Notes
    /\ pc \in [Procs -> Steps]
    /\ job \in [Procs -> Effects \cup {None}]
    /\ window \subseteq Procs /\ spent \subseteq Effects
    /\ edits \in 0 .. MaxEdits /\ crashes \in 0 .. MaxCrashes

(* memory.lock is held exactly by the process that is past acquiring it.   *)
HolderInv ==
    /\ \A p \in Procs : lock = p <=> pc[p] \notin {"idle", "lock"}
    /\ \A p \in Procs : pc[p] = "idle" <=> job[p] = None

Known(e) == e \in 1 .. Len(issued)

Capturing(e) == Known(e) /\ issued[e].op = "capture"

(* A write of the manifest is about the row of one note.                   *)
OwnRow(i) == \A n \in Notes \ {i.note} : Row(i.post, n) = Row(i.before, n)

Declaring == {"manifest", "dispose"}

(* What invocation i, the e-th, says is of the state it was issued on.     *)
Sound(e, i) ==
    /\ i.op = "capture" =>
          /\ OwnRow(i) /\ i.post[i.note] # None
          /\ i.replaces # None =>
                i.replaces < e /\ Capturing(i.replaces) /\ issued[i.replaces].note = i.note
    /\ i.op = "recover" => Capturing(i.of)
    /\ i.op = "dispose" => OwnRow(i)
    /\ i.op = "recover-disposition" => Known(i.of) /\ issued[i.of].op = "dispose"
    /\ i.op = "retire" =>
          /\ OwnRow(i) /\ i.post[i.note] = None
          /\ i.note \notin i.guard.cited
          /\ \A f \in i.guard.files :
                /\ Known(f[2])
                /\ f[1] \in Declaring => f \in torn \/ issued[f[2]].post[i.note] = None
    /\ i.op = "recover-retirement" => Known(i.record.of) /\ issued[i.record.of].op = "retire"

InvocationInv(e) == Sound(e, issued[e])

InvocationsInv == \A e \in 1 .. Len(issued) : InvocationInv(e)

(* Records lead to intact attempts of the operation that wrote them.       *)
MarkersInv ==
    \A n \in Notes : marker[n] \notin {Absent, Torn} =>
        Capturing(marker[n]) /\ issued[marker[n]].note = n /\ attempts[marker[n]] = Admitted

FiledInv == \A e \in filed : Known(e) /\ issued[e].op = "dispose" /\ attempts[e] = Admitted

PendingInv ==
    pending # None =>
        /\ Known(pending.of) /\ issued[pending.of].op = "retire" /\ attempts[pending.of] = Admitted

(* A temporary that is not whole never becomes so.                         *)
FilesInv ==
    /\ \A f \in temps \cup torn : Known(f[2])
    /\ \A f \in temps : f[1] \in Declaring => f \notin torn

(* A committed effect has its result, or it was a publication that a later *)
(* one has replaced: markers only move forward.                            *)
SpentInv ==
    \A e \in spent :
        /\ Known(e)
        /\ \/ attempts[e] = Admitted /\ results[e] # Absent
           \/ /\ attempts[e] # Admitted /\ issued[e].op = "capture"
              /\ Known(marker[issued[e].note]) /\ marker[issued[e].note] > e

MarkedSteps == {"stage", "barrier", "install", "m-stage", "m-barrier", "m-install", "commit", "clean"}
FiledSteps == {"d-stage", "d-barrier", "d-install"}
RecordedSteps == {"q-stage", "q-barrier", "q-install", "q-verify", "q-unlink", "q-original", "q-commit"}
RetireSteps == RecordedSteps \cup {"q-record", "q-pending", "q-clear"}

(* What a process is carrying out.                                         *)
OpInv(p) ==
    /\ pc[p] # "idle" => Known(job[p])
    /\ pc[p] \in {"journal", "swap", "mark"} => Op(p) = "capture"
    /\ pc[p] \in MarkedSteps => Op(p) \in {"capture", "recover"}
    /\ pc[p] = "r-check" => Op(p) = "recover"
    /\ pc[p] \in {"admit", "r-check"} /\ Op(p) = "recover" => Note(p) \notin Advice
    /\ pc[p] = "answer" => Op(p) # "capture"
    /\ pc[p] \in FiledSteps \cup {"d-mark"} => Op(p) = "dispose"
    /\ pc[p] \in {"d-verify", "d-original"} => Op(p) = "recover-disposition"
    /\ pc[p] \in RetireSteps => Op(p) \in {"retire", "recover-retirement"}
    /\ pc[p] = "q-commit" => Op(p) = "recover-retirement"

(* What it has found and written under the lock.                           *)
EvidenceInv(p) ==
    /\ pc[p] = "admit" /\ Op(p) = "capture" =>
          marker[Note(p)] \in {Absent, job[p], Publication(p).replaces}
    /\ pc[p] \in {"journal", "swap", "mark", "d-mark"} => attempts[job[p]] = Admitted
    /\ pc[p] \in {"q-record", "q-pending"} /\ Op(p) = "retire" => attempts[job[p]] = Admitted
    /\ pc[p] \in MarkedSteps => marker[Note(p)] = Subject(p)
    /\ pc[p] = "clean" => Publication(p).replaces # None
    /\ pc[p] \in FiledSteps => job[p] \in filed
    /\ pc[p] \in RecordedSteps => pending = Record(p)

(* What is still as at its last look, unless somebody moved it.            *)
LookInv(p) ==
    /\ pc[p] \in {"m-stage", "m-barrier", "m-install", "commit"} /\ p \notin window =>
          notes[Note(p)] = Publication(p).content
    /\ pc[p] = "m-install" /\ p \notin window => ManifestExpected(Publication(p))
    /\ pc[p] = "commit" /\ p \notin window => manifest = Publication(p).post
    /\ pc[p] = "d-install" /\ p \notin window => manifest = Invocation(p).before
    /\ pc[p] = "q-install" /\ p \notin window => manifest \in {Retiring(p).before, Retiring(p).post}
    /\ pc[p] \in {"q-verify", "q-unlink"} /\ edits = 0 => manifest = Retiring(p).post
    /\ pc[p] = "q-unlink" /\ p \notin window =>
          /\ notes[Retiring(p).note] \in {Retiring(p).content, Absent}
          /\ ~Mentioned(Retiring(p).note)

ProcInv(p) == OpInv(p) /\ EvidenceInv(p) /\ LookInv(p)

MemoryInv ==
    /\ Types /\ HolderInv /\ InvocationsInv
    /\ MarkersInv /\ FiledInv /\ PendingInv /\ FilesInv /\ SpentInv
    /\ \A p \in Procs : ProcInv(p)


-----------------------------------------------------------------------------
LEMMA InitInv == Init => MemoryInv
<1> SUFFICES ASSUME Init PROVE MemoryInv
  OBVIOUS
<1>1. issued \in Seq(Invocations) /\ Len(issued) = 0
  BY DEF Init
<1>2. Types
  BY <1>1, MemoryAssumption DEF Init, StoreInit, StoreTypeOK, Types, Steps
<1>3. HolderInv
  BY MemoryAssumption DEF Init, HolderInv
<1>4. InvocationsInv
  BY <1>1 DEF InvocationsInv
<1>5. MarkersInv /\ FiledInv /\ PendingInv /\ FilesInv /\ SpentInv
  BY DEF Init, MarkersInv, FiledInv, PendingInv, FilesInv, SpentInv
<1>6. ASSUME NEW p \in Procs PROVE ProcInv(p)
  <2>1. pc[p] = "idle"
    BY DEF Init
  <2>2. QED
    BY <2>1 DEF ProcInv, OpInv, EvidenceInv, LookInv, MarkedSteps, FiledSteps, RecordedSteps, RetireSteps
<1>7. QED
  BY <1>2, <1>3, <1>4, <1>5, <1>6 DEF MemoryInv

(* What an issued invocation is.                                           *)
LEMMA KnownInvocation ==
  ASSUME MemoryInv, NEW e, Known(e)
  PROVE  e \in Effects /\ e \in Nat /\ issued[e] \in Invocations /\ InvocationInv(e)
BY MemoryAssumption DEF Known, MemoryInv, Types, InvocationsInv

(* By its operation it has the fields of that operation.                   *)
LEMMA Fields ==
  ASSUME NEW i \in Invocations
  PROVE  /\ i.op = "capture" => i \in Captures
         /\ i.op = "recover" => i \in Recoveries
         /\ i.op = "dispose" => i \in Disposals
         /\ i.op = "recover-disposition" => i \in DisposalRecoveries
         /\ i.op = "retire" => i \in Retirements
         /\ i.op = "recover-retirement" => i \in RetirementRecoveries
         /\ i.op \in {"capture", "recover", "dispose", "recover-disposition", "retire", "recover-retirement"}
BY DEF Invocations, Captures, Recoveries, Disposals, DisposalRecoveries, Retirements, RetirementRecoveries

(* The publication a process carries out or recovers.                      *)
LEMMA SubjectFacts ==
  ASSUME MemoryInv, NEW p \in Procs, Known(job[p]), Op(p) \in {"capture", "recover"}
  PROVE  /\ Capturing(Subject(p)) /\ Subject(p) \in Effects /\ Subject(p) \in Nat
         /\ Publication(p) \in Captures /\ Note(p) \in Notes
         /\ InvocationInv(Subject(p)) /\ Publication(p) = issued[Subject(p)]
<1>1. InvocationInv(job[p])
  BY KnownInvocation
<1>2. Capturing(Subject(p))
  BY <1>1 DEF Capturing, Subject, Op, Invocation, InvocationInv, Sound
<1>3. QED
  BY <1>2, KnownInvocation, Fields DEF Capturing, Publication, Note, Captures

(* The retirement a process carries out or recovers.                       *)
LEMMA RetiringFacts ==
  ASSUME MemoryInv, NEW p \in Procs, Known(job[p]), Op(p) \in {"retire", "recover-retirement"}
  PROVE  /\ Known(Original(p)) /\ Original(p) \in Effects /\ Retiring(p).op = "retire"
         /\ Retiring(p) \in Retirements /\ InvocationInv(Original(p)) /\ Retiring(p) = issued[Original(p)]
<1>1. InvocationInv(job[p])
  BY KnownInvocation
<1>2. Known(Original(p)) /\ Retiring(p).op = "retire"
  BY <1>1 DEF Original, Recovering, Retiring, Op, Invocation, InvocationInv, Sound
<1>3. QED
  BY <1>2, KnownInvocation, Fields DEF Retiring

(* Whoever is past acquiring the lock is the only one.                     *)
LEMMA OthersWait ==
  ASSUME MemoryInv, NEW p \in Procs, lock = p \/ lock = None
  PROVE  \A q \in Procs : q # p => pc[q] \in {"idle", "lock"}
BY MemoryAssumption DEF MemoryInv, HolderInv

(* A process that waits relies on its invocation alone.                    *)
LEMMA WaitingInv ==
  ASSUME NEW p \in Procs, pc[p] \in {"idle", "lock"}, pc[p] # "idle" => Known(job[p])
  PROVE  ProcInv(p)
BY DEF ProcInv, OpInv, EvidenceInv, LookInv, MarkedSteps, FiledSteps, RecordedSteps, RetireSteps

(* A step of the one that may have the lock: what it relies on itself, and *)
(* what holds of the files.                                                *)
LEMMA HolderStep ==
  ASSUME MemoryInv, NEW p \in Procs, lock = p \/ lock = None, issued' = issued,
         NEW to, pc' = [pc EXCEPT ![p] = to], \A q \in Procs : q # p => job'[q] = job[q],
         Types', HolderInv', InvocationsInv', MarkersInv', FiledInv', PendingInv', FilesInv', SpentInv',
         ProcInv(p)'
  PROVE  MemoryInv'
<1>1. ASSUME NEW q \in Procs, q # p PROVE ProcInv(q)'
  <2>1. pc[q] \in {"idle", "lock"} /\ pc'[q] = pc[q] /\ job'[q] = job[q]
    BY <1>1, OthersWait DEF MemoryInv, Types
  <2>2. pc[q] # "idle" => Known(job[q])
    BY DEF MemoryInv, ProcInv, OpInv
  <2>3. QED
    BY <2>1, <2>2 DEF Known, ProcInv, OpInv, EvidenceInv, LookInv, MarkedSteps, FiledSteps, RecordedSteps, RetireSteps
<1>2. QED
  BY <1>1 DEF MemoryInv

(* A step under the lock, to another step under it.                        *)
LEMMA HolderContinues ==
  ASSUME MemoryInv, NEW p \in Procs, pc[p] \notin {"idle", "lock"}, NEW to \in Steps \ {"idle", "lock"},
         Continue(p, to)
  PROVE  /\ lock = p /\ HolderInv' /\ issued' = issued /\ job' = job /\ lock' = lock
         /\ pc' = [pc EXCEPT ![p] = to] /\ pc'[p] = to /\ pc' \in [Procs -> Steps]
         /\ window' = window /\ cited' = cited /\ edits' = edits /\ crashes' = crashes
BY DEF MemoryInv, HolderInv, Types, Continue, boundVars

(* The call of a process ends.                                             *)
LEMMA HolderLeaves ==
  ASSUME MemoryInv, NEW p \in Procs, pc[p] # "idle", Leave(p)
  PROVE  /\ lock = p <=> pc[p] # "lock"
         /\ HolderInv' /\ issued' = issued /\ pc' = [pc EXCEPT ![p] = "idle"]
         /\ \A q \in Procs : q # p => job'[q] = job[q]
         /\ pc'[p] = "idle" /\ pc' \in [Procs -> Steps] /\ job' \in [Procs -> Effects \cup {None}]
         /\ window' \subseteq Procs /\ ProcInv(p)'
<1>1. /\ pc' = [pc EXCEPT ![p] = "idle"] /\ job' = [job EXCEPT ![p] = None] /\ window' = window \ {p}
      /\ lock' = (IF lock = p THEN None ELSE lock) /\ issued' = issued
  BY DEF Leave
<1>2. /\ pc'[p] = "idle" /\ job'[p] = None /\ pc' \in [Procs -> Steps] /\ job' \in [Procs -> Effects \cup {None}]
      /\ \A q \in Procs : q # p => pc'[q] = pc[q] /\ job'[q] = job[q]
  BY <1>1 DEF MemoryInv, Types, Steps
<1>3. lock = p <=> pc[p] # "lock"
  BY DEF MemoryInv, HolderInv
<1>4. HolderInv'
  BY <1>1, <1>2, MemoryAssumption DEF MemoryInv, HolderInv
<1>5. ProcInv(p)'
  BY <1>2 DEF ProcInv, OpInv, EvidenceInv, LookInv, MarkedSteps, FiledSteps, RecordedSteps, RetireSteps
<1>6. QED
  BY <1>1, <1>2, <1>3, <1>4, <1>5 DEF MemoryInv, Types


(* Torn temporaries only become more.                                      *)
LEMMA InvocationsKept ==
  ASSUME MemoryInv, issued' = issued, torn \subseteq torn'
  PROVE  InvocationsInv'
<1>1. ASSUME NEW e \in 1 .. Len(issued) PROVE InvocationInv(e)'
  <2>1. InvocationInv(e)
    BY DEF MemoryInv, InvocationsInv
  <2>2. QED
    BY <2>1 DEF InvocationInv, Sound, OwnRow, Row, Capturing, Known
<1>2. QED
  BY <1>1 DEF InvocationsInv

(* Steps that write notes, the manifest and temporaries, and no record.    *)
LEMMA HolderWrites ==
  ASSUME MemoryInv, NEW p \in Procs, pc[p] \notin {"idle", "lock"}, NEW to \in Steps \ {"idle", "lock"},
         Continue(p, to),
         UNCHANGED <<attempts, results, spent, marker, filed, filedTorn, pending, torn>>,
         notes' \in [Notes -> Contents \cup {Absent}], manifest' \in Manifests,
         \A f \in temps' \ temps : f \in Files /\ Known(f[2]) /\ (f[1] \in Declaring => f \notin torn),
         ProcInv(p)'
  PROVE  MemoryInv'
<1>1. /\ lock = p /\ HolderInv' /\ issued' = issued /\ job' = job
      /\ pc' = [pc EXCEPT ![p] = to] /\ pc' \in [Procs -> Steps]
      /\ window' = window /\ cited' = cited /\ edits' = edits /\ crashes' = crashes
  BY HolderContinues
<1>2. Types'
  BY <1>1 DEF MemoryInv, Types, StoreTypeOK
<1>3. InvocationsInv'
  BY <1>1, InvocationsKept
<1>4. MarkersInv' /\ FiledInv' /\ PendingInv' /\ SpentInv'
  BY <1>1 DEF MemoryInv, MarkersInv, FiledInv, PendingInv, SpentInv, Known, Capturing
<1>5. FilesInv'
  BY <1>1 DEF MemoryInv, FilesInv, Known
<1>6. QED
  BY <1>1, <1>2, <1>3, <1>4, <1>5, HolderStep

(* Its invocation is the same after a step of the call.                    *)
LEMMA SameInvocation ==
  ASSUME NEW p \in Procs, issued' = issued, job' = job
  PROVE  /\ Op(p)' = Op(p) /\ Invocation(p)' = Invocation(p) /\ Subject(p)' = Subject(p)
         /\ Publication(p)' = Publication(p) /\ Note(p)' = Note(p)
         /\ Original(p)' = Original(p) /\ Retiring(p)' = Retiring(p) /\ Record(p)' = Record(p)
         /\ \A e : Known(e)' <=> Known(e)
BY DEF Op, Invocation, Subject, Publication, Note, Original, Retiring, Record, Recovering, Known

-----------------------------------------------------------------------------
(* The steps of a publication.                                             *)
LEMMA StageKeeps ==
  ASSUME MemoryInv, NEW p \in Procs, Stage(p)
  PROVE  MemoryInv'
<1>1. /\ pc[p] = "stage" /\ Continue(p, "barrier") /\ temps' = temps \cup {<<"source", Subject(p)>>}
      /\ UNCHANGED <<attempts, results, spent, notes, manifest, marker, filed, filedTorn, pending, torn>>
  BY DEF Stage, At
<1>2. /\ issued' = issued /\ job' = job /\ pc'[p] = "barrier"
  BY <1>1, HolderContinues DEF Steps
<1>3. ProcInv(p)
  BY DEF MemoryInv
<1>4. Known(job[p]) /\ Op(p) \in {"capture", "recover"} /\ marker[Note(p)] = Subject(p)
  BY <1>1, <1>3 DEF ProcInv, OpInv, EvidenceInv, MarkedSteps
<1>5. ProcInv(p)'
  BY <1>1, <1>2, <1>4, SameInvocation DEF ProcInv, OpInv, EvidenceInv, LookInv,
     MarkedSteps, FiledSteps, RecordedSteps, RetireSteps
<1>6. <<"source", Subject(p)>> \in Files /\ Known(Subject(p))
  BY <1>4, SubjectFacts DEF Files, Capturing
<1>7. \A f \in temps' \ temps : f \in Files /\ Known(f[2]) /\ (f[1] \in Declaring => f \notin torn)
  BY <1>1, <1>6 DEF Declaring
<1>8. QED
  BY <1>1, <1>5, <1>7, HolderWrites DEF Steps, MemoryInv, Types

LEMMA BarrierKeeps ==
  ASSUME MemoryInv, NEW p \in Procs, Barrier(p)
  PROVE  MemoryInv'
<1>1. PICK to \in {"install", "m-stage"} :
      /\ pc[p] = "barrier" /\ Continue(p, to) /\ temps' \subseteq temps
      /\ UNCHANGED <<attempts, results, spent, notes, manifest, marker, filed, filedTorn, pending, torn>>
      /\ to = "m-stage" => notes[Note(p)] = Publication(p).content
  BY DEF Barrier, At
<1>2. /\ issued' = issued /\ job' = job /\ pc'[p] = to
  BY <1>1, HolderContinues DEF Steps
<1>3. Known(job[p]) /\ Op(p) \in {"capture", "recover"} /\ marker[Note(p)] = Subject(p)
  BY <1>1 DEF MemoryInv, ProcInv, OpInv, EvidenceInv, MarkedSteps
<1>4. ProcInv(p)'
  BY <1>1, <1>2, <1>3, SameInvocation DEF ProcInv, OpInv, EvidenceInv, LookInv,
     MarkedSteps, FiledSteps, RecordedSteps, RetireSteps
<1>5. QED
  BY <1>1, <1>4, HolderWrites DEF Steps, MemoryInv, Types

LEMMA InstallKeeps ==
  ASSUME MemoryInv, NEW p \in Procs, Install(p)
  PROVE  MemoryInv'
<1>1. /\ pc[p] = "install" /\ Continue(p, "m-stage") /\ temps' \subseteq temps
      /\ notes' = [notes EXCEPT ![Note(p)] = Publication(p).content]
      /\ UNCHANGED <<attempts, results, spent, manifest, marker, filed, filedTorn, pending, torn>>
  BY DEF Install, At
<1>2. /\ issued' = issued /\ job' = job /\ pc'[p] = "m-stage"
  BY <1>1, HolderContinues DEF Steps
<1>3. Known(job[p]) /\ Op(p) \in {"capture", "recover"} /\ marker[Note(p)] = Subject(p)
  BY <1>1 DEF MemoryInv, ProcInv, OpInv, EvidenceInv, MarkedSteps
<1>4. Note(p) \in Notes /\ Publication(p).content \in Contents
  BY <1>3, SubjectFacts DEF Captures
<1>5. notes' \in [Notes -> Contents \cup {Absent}] /\ notes'[Note(p)] = Publication(p).content
  BY <1>1, <1>4 DEF MemoryInv, Types
<1>6. ProcInv(p)'
  BY <1>1, <1>2, <1>3, <1>5, SameInvocation DEF ProcInv, OpInv, EvidenceInv, LookInv,
     MarkedSteps, FiledSteps, RecordedSteps, RetireSteps
<1>7. QED
  BY <1>1, <1>5, <1>6, HolderWrites DEF Steps, MemoryInv, Types

LEMMA CheckRecoveryKeeps ==
  ASSUME MemoryInv, NEW p \in Procs, CheckRecovery(p)
  PROVE  MemoryInv'
<1>1. /\ pc[p] = "r-check" /\ Continue(p, "m-stage") /\ PublicationAccepted(p)
      /\ UNCHANGED <<attempts, results, spent, notes, manifest, marker, filed, filedTorn, pending, torn, temps>>
  BY DEF CheckRecovery, MayPublish, At, diskVars, fileVars
<1>2. /\ issued' = issued /\ job' = job /\ pc'[p] = "m-stage"
  BY <1>1, HolderContinues DEF Steps
<1>3. Known(job[p]) /\ Op(p) = "recover" /\ Note(p) \notin Advice
  BY <1>1 DEF MemoryInv, ProcInv, OpInv
<1>4. marker[Note(p)] = Subject(p) /\ notes[Note(p)] = Publication(p).content
  BY <1>1, <1>3 DEF PublicationAccepted, RecoveryAccepted, Op, Note, Publication, Subject
<1>5. ProcInv(p)'
  BY <1>1, <1>2, <1>3, <1>4, SameInvocation DEF ProcInv, OpInv, EvidenceInv, LookInv,
     MarkedSteps, FiledSteps, RecordedSteps, RetireSteps
<1>6. QED
  BY <1>1, <1>5, HolderWrites DEF Steps, MemoryInv, Types

LEMMA StageManifestKeeps ==
  ASSUME MemoryInv, NEW p \in Procs, StageManifest(p)
  PROVE  MemoryInv'
<1>1. PICK to \in {"commit", "m-barrier"} :
      /\ pc[p] = "m-stage" /\ Continue(p, to)
      /\ UNCHANGED <<attempts, results, spent, notes, manifest, marker, filed, filedTorn, pending, torn>>
      /\ to = "commit" => temps' = temps /\ manifest = Publication(p).post
      /\ to = "m-barrier" => /\ temps' = temps \cup {<<"manifest", Subject(p)>>}
                             /\ <<"manifest", Subject(p)>> \notin torn
  BY DEF StageManifest, MayPublish, ManifestCurrent, At
<1>2. /\ issued' = issued /\ job' = job /\ pc'[p] = to /\ window' = window
  BY <1>1, HolderContinues DEF Steps
<1>3. /\ Known(job[p]) /\ Op(p) \in {"capture", "recover"} /\ marker[Note(p)] = Subject(p)
      /\ p \notin window => notes[Note(p)] = Publication(p).content
  BY <1>1 DEF MemoryInv, ProcInv, OpInv, EvidenceInv, LookInv, MarkedSteps
<1>4. ProcInv(p)'
  BY <1>1, <1>2, <1>3, SameInvocation DEF ProcInv, OpInv, EvidenceInv, LookInv,
     MarkedSteps, FiledSteps, RecordedSteps, RetireSteps
<1>5. <<"manifest", Subject(p)>> \in Files /\ Known(Subject(p))
  BY <1>3, SubjectFacts DEF Files, Capturing
<1>6. \A f \in temps' \ temps : f \in Files /\ Known(f[2]) /\ (f[1] \in Declaring => f \notin torn)
  BY <1>1, <1>5
<1>7. QED
  BY <1>1, <1>4, <1>6, HolderWrites DEF Steps, MemoryInv, Types

LEMMA BarrierManifestKeeps ==
  ASSUME MemoryInv, NEW p \in Procs, BarrierManifest(p)
  PROVE  MemoryInv'
<1>1. /\ pc[p] = "m-barrier" /\ Continue(p, "m-install") /\ ManifestExpected(Publication(p))
      /\ UNCHANGED <<attempts, results, spent, notes, manifest, marker, filed, filedTorn, pending, torn, temps>>
  BY DEF BarrierManifest, MayPublish, At, diskVars, fileVars
<1>2. /\ issued' = issued /\ job' = job /\ pc'[p] = "m-install" /\ window' = window
  BY <1>1, HolderContinues DEF Steps
<1>3. /\ Known(job[p]) /\ Op(p) \in {"capture", "recover"} /\ marker[Note(p)] = Subject(p)
      /\ p \notin window => notes[Note(p)] = Publication(p).content
  BY <1>1 DEF MemoryInv, ProcInv, OpInv, EvidenceInv, LookInv, MarkedSteps
<1>4. ProcInv(p)'
  BY <1>1, <1>2, <1>3, SameInvocation DEF ProcInv, OpInv, EvidenceInv, LookInv, ManifestExpected,
     MarkedSteps, FiledSteps, RecordedSteps, RetireSteps
<1>5. QED
  BY <1>1, <1>4, HolderWrites DEF Steps, MemoryInv, Types

LEMMA InstallManifestKeeps ==
  ASSUME MemoryInv, NEW p \in Procs, InstallManifest(p)
  PROVE  MemoryInv'
<1>1. /\ pc[p] = "m-install" /\ Continue(p, "commit") /\ temps' \subseteq temps
      /\ manifest' = Publication(p).post
      /\ UNCHANGED <<attempts, results, spent, notes, marker, filed, filedTorn, pending, torn>>
  BY DEF InstallManifest, At
<1>2. /\ issued' = issued /\ job' = job /\ pc'[p] = "commit" /\ window' = window
  BY <1>1, HolderContinues DEF Steps
<1>3. /\ Known(job[p]) /\ Op(p) \in {"capture", "recover"} /\ marker[Note(p)] = Subject(p)
      /\ p \notin window => notes[Note(p)] = Publication(p).content
  BY <1>1 DEF MemoryInv, ProcInv, OpInv, EvidenceInv, LookInv, MarkedSteps
<1>4. manifest' \in Manifests
  BY <1>1, <1>3, SubjectFacts DEF Captures, Images, Manifests
<1>5. ProcInv(p)'
  BY <1>1, <1>2, <1>3, SameInvocation DEF ProcInv, OpInv, EvidenceInv, LookInv,
     MarkedSteps, FiledSteps, RecordedSteps, RetireSteps
<1>6. QED
  BY <1>1, <1>4, <1>5, HolderWrites DEF Steps, MemoryInv, Types


LEMMA JournalKeeps ==
  ASSUME MemoryInv, NEW p \in Procs, Journal(p)
  PROVE  MemoryInv'
<1>1. /\ pc[p] = "journal" /\ Continue(p, "swap") /\ temps' = temps \cup {<<"journal", job[p]>>}
      /\ UNCHANGED <<attempts, results, spent, notes, manifest, marker, filed, filedTorn, pending, torn>>
  BY DEF Journal, At
<1>2. /\ issued' = issued /\ job' = job /\ pc'[p] = "swap"
  BY <1>1, HolderContinues DEF Steps
<1>3. Known(job[p]) /\ Op(p) = "capture" /\ attempts[job[p]] = Admitted
  BY <1>1 DEF MemoryInv, ProcInv, OpInv, EvidenceInv
<1>4. ProcInv(p)'
  BY <1>1, <1>2, <1>3, SameInvocation DEF ProcInv, OpInv, EvidenceInv, LookInv,
     MarkedSteps, FiledSteps, RecordedSteps, RetireSteps
<1>5. <<"journal", job[p]>> \in Files
  BY <1>3, KnownInvocation DEF Files
<1>6. \A f \in temps' \ temps : f \in Files /\ Known(f[2]) /\ (f[1] \in Declaring => f \notin torn)
  BY <1>1, <1>3, <1>5 DEF Declaring
<1>7. QED
  BY <1>1, <1>4, <1>6, HolderWrites DEF Steps, MemoryInv, Types

(* A marker is created, or moves to the publication that replaces its own. *)
LEMMA MarkerMoves ==
  ASSUME MemoryInv, NEW e, Capturing(e), attempts[e] = Admitted,
         marker[issued[e].note] = Absent \/ (Known(marker[issued[e].note]) /\ marker[issued[e].note] < e),
         marker' = [marker EXCEPT ![issued[e].note] = e],
         UNCHANGED <<issued, attempts, results, spent>>
  PROVE  MarkersInv' /\ SpentInv' /\ marker' \in [Notes -> Effects \cup {Absent, Torn}]
         /\ marker'[issued[e].note] = e
<1> DEFINE n == issued[e].note
<1>1. e \in Effects /\ e \in Nat /\ n \in Notes
  BY KnownInvocation, Fields DEF Capturing, Captures
<1> HIDE DEF n
<1>2. /\ marker' \in [Notes -> Effects \cup {Absent, Torn}] /\ marker'[n] = e
      /\ \A m \in Notes : m # n => marker'[m] = marker[m]
  BY <1>1 DEF MemoryInv, Types, n
<1>3. MarkersInv'
  BY <1>2 DEF MemoryInv, MarkersInv, Capturing, Known, n
<1>4. ASSUME NEW s \in spent
      PROVE  /\ Known(s)
             /\ \/ attempts[s] = Admitted /\ results[s] # Absent
                \/ /\ attempts[s] # Admitted /\ issued[s].op = "capture"
                   /\ Known(marker'[issued[s].note]) /\ marker'[issued[s].note] > s
  <2>1. Known(s) /\ s \in Nat
    BY KnownInvocation DEF MemoryInv, SpentInv
  <2>2. CASE attempts[s] = Admitted /\ results[s] # Absent
    BY <2>1, <2>2
  <2>3. CASE /\ attempts[s] # Admitted /\ issued[s].op = "capture"
             /\ Known(marker[issued[s].note]) /\ marker[issued[s].note] > s
    <3>1. issued[s].note \in Notes
      BY <2>1, <2>3, KnownInvocation, Fields DEF Captures
    <3>2. CASE issued[s].note # n
      BY <1>2, <2>1, <2>3, <3>1, <3>2
    <3>3. CASE issued[s].note = n
      <4>1. marker[n] \in Nat /\ marker[n] # Absent
        BY <2>3, <3>3, KnownInvocation, MemoryMarksAssumption
      <4>2. marker[n] < e
        BY <4>1 DEF n
      <4>3. marker'[n] > s
        BY <1>1, <1>2, <2>1, <2>3, <3>3, <4>1, <4>2
      <4>4. QED
        BY <1>2, <2>1, <2>3, <3>3, <4>3 DEF Capturing
    <3>4. QED
      BY <3>2, <3>3
  <2>4. QED
    BY <2>2, <2>3 DEF MemoryInv, SpentInv
<1>5. SpentInv'
  BY <1>4 DEF SpentInv, Known
<1>6. QED
  BY <1>2, <1>3, <1>5 DEF n

(* Creating and replacing a marker.                                        *)
LEMMA MarkingKeeps ==
  ASSUME MemoryInv, NEW p \in Procs, Swap(p) \/ Mark(p)
  PROVE  MemoryInv'
<1>1. /\ pc[p] \in {"swap", "mark"} /\ Continue(p, "stage") /\ temps' \subseteq temps
      /\ marker' = [marker EXCEPT ![Note(p)] = job[p]]
      /\ UNCHANGED <<attempts, results, spent, notes, manifest, filed, filedTorn, pending, torn>>
      /\ pc[p] = "swap" => marker[Note(p)] = Publication(p).replaces
      /\ pc[p] = "mark" => marker[Note(p)] = Absent
  BY DEF Swap, Mark, MayPublish, Note, At
<1>2. /\ lock = p /\ HolderInv' /\ issued' = issued /\ job' = job
      /\ pc' = [pc EXCEPT ![p] = "stage"] /\ pc'[p] = "stage" /\ pc' \in [Procs -> Steps]
      /\ window' = window /\ cited' = cited /\ edits' = edits /\ crashes' = crashes
  BY <1>1, HolderContinues DEF Steps
<1>3. Known(job[p]) /\ Op(p) = "capture" /\ attempts[job[p]] = Admitted
  BY <1>1 DEF MemoryInv, ProcInv, OpInv, EvidenceInv
<1>4. /\ Subject(p) = job[p] /\ Capturing(job[p]) /\ Publication(p) = issued[job[p]]
      /\ Note(p) = issued[job[p]].note /\ Note(p) \in Notes /\ InvocationInv(job[p])
  BY <1>3, SubjectFacts DEF Subject, Note
<1>5. marker[Note(p)] = Absent \/ (Known(marker[Note(p)]) /\ marker[Note(p)] < job[p])
  <2>1. CASE pc[p] = "mark"
    BY <1>1, <2>1
  <2>2. CASE pc[p] = "swap"
    <3>1. marker[Note(p)] # None
      BY <1>4, MemoryAssumption, MemoryMarksAssumption DEF MemoryInv, Types
    <3>2. QED
      BY <1>1, <1>3, <1>4, <2>2, <3>1 DEF InvocationInv, Sound, Capturing, Op, Invocation
  <2>3. QED
    BY <1>1, <2>1, <2>2
<1>6. MarkersInv' /\ SpentInv' /\ marker' \in [Notes -> Effects \cup {Absent, Torn}] /\ marker'[Note(p)] = job[p]
  BY <1>1, <1>2, <1>3, <1>4, <1>5, MarkerMoves
<1>7. Types'
  BY <1>1, <1>2, <1>6 DEF MemoryInv, Types, StoreTypeOK
<1>8. InvocationsInv'
  BY <1>1, <1>2, InvocationsKept
<1>9. FiledInv' /\ PendingInv' /\ FilesInv'
  BY <1>1, <1>2 DEF MemoryInv, FiledInv, PendingInv, FilesInv, Known
<1>10. ProcInv(p)'
  BY <1>1, <1>2, <1>3, <1>4, <1>6, SameInvocation DEF ProcInv, OpInv, EvidenceInv, LookInv,
     MarkedSteps, FiledSteps, RecordedSteps, RetireSteps
<1>11. QED
  BY <1>2, <1>6, <1>7, <1>8, <1>9, <1>10, HolderStep

(* A result is committed.                                                  *)
LEMMA Finished ==
  ASSUME MemoryInv, NEW e, Known(e), Finish(e), issued' = issued, marker' = marker
  PROVE  attempts' = attempts /\ StoreTypeOK' /\ SpentInv' /\ spent' \subseteq Effects
<1>1. /\ attempts' = attempts /\ attempts[e] = Admitted /\ results' = [results EXCEPT ![e] = Done]
      /\ spent' = spent \cup {e}
  BY DEF Finish, Commit, CanCommit
<1>2. e \in Effects /\ Done \in Outcomes /\ Done # Absent
  BY KnownInvocation, MemoryAssumption, StoreAssumption
<1>3. StoreTypeOK' /\ spent' \subseteq Effects
  BY <1>1, <1>2 DEF MemoryInv, Types, StoreTypeOK
<1>4. results'[e] = Done /\ \A s \in Effects : s # e => results'[s] = results[s]
  BY <1>1, <1>2 DEF MemoryInv, Types, StoreTypeOK
<1>5. SpentInv'
  <2>1. \A s \in spent : s \in Effects
    BY DEF MemoryInv, Types
  <2>2. QED
    BY <1>1, <1>2, <1>4, <2>1 DEF MemoryInv, SpentInv, Known
<1>6. QED
  BY <1>1, <1>3, <1>5

(* A step that at most commits, with or without the end of the call.       *)
LEMMA CommitContinues ==
  ASSUME MemoryInv, NEW p \in Procs, pc[p] \notin {"idle", "lock"}, NEW to \in Steps \ {"idle", "lock"},
         Continue(p, to), UNCHANGED fileVars, NEW e, Known(e),
         Finish(e) \/ UNCHANGED <<attempts, results, spent>>, ProcInv(p)'
  PROVE  MemoryInv'
<1>1. /\ lock = p /\ HolderInv' /\ issued' = issued /\ job' = job
      /\ pc' = [pc EXCEPT ![p] = to] /\ pc' \in [Procs -> Steps]
      /\ window' = window /\ cited' = cited /\ edits' = edits /\ crashes' = crashes
  BY HolderContinues
<1>2. UNCHANGED <<notes, manifest, marker, filed, filedTorn, pending, temps, torn>>
  BY DEF fileVars
<1>3. attempts' = attempts /\ StoreTypeOK' /\ SpentInv' /\ spent' \subseteq Effects
  <2>1. CASE Finish(e)
    BY <1>1, <1>2, <2>1, Finished
  <2>2. CASE UNCHANGED <<attempts, results, spent>>
    BY <1>1, <1>2, <2>2 DEF MemoryInv, Types, StoreTypeOK, SpentInv, Known
  <2>3. QED
    BY <2>1, <2>2
<1>4. Types'
  BY <1>1, <1>2, <1>3 DEF MemoryInv, Types
<1>5. InvocationsInv'
  BY <1>1, <1>2, InvocationsKept
<1>6. MarkersInv' /\ FiledInv' /\ PendingInv' /\ FilesInv'
  BY <1>1, <1>2, <1>3 DEF MemoryInv, MarkersInv, FiledInv, PendingInv, FilesInv, Known, Capturing
<1>7. QED
  BY <1>1, <1>3, <1>4, <1>5, <1>6, HolderStep

LEMMA CommitLeaves ==
  ASSUME MemoryInv, NEW p \in Procs, pc[p] \notin {"idle", "lock"},
         Leave(p), UNCHANGED boundVars, UNCHANGED fileVars, NEW e, Known(e),
         Finish(e) \/ UNCHANGED <<attempts, results, spent>>
  PROVE  MemoryInv'
<1>1. /\ lock = p /\ HolderInv' /\ issued' = issued /\ pc' = [pc EXCEPT ![p] = "idle"]
      /\ \A q \in Procs : q # p => job'[q] = job[q]
      /\ pc' \in [Procs -> Steps] /\ job' \in [Procs -> Effects \cup {None}]
      /\ window' \subseteq Procs /\ ProcInv(p)'
  BY HolderLeaves
<1>2. UNCHANGED <<notes, manifest, marker, filed, filedTorn, pending, temps, torn, cited, edits, crashes>>
  BY DEF fileVars, boundVars
<1>3. attempts' = attempts /\ StoreTypeOK' /\ SpentInv' /\ spent' \subseteq Effects
  <2>1. CASE Finish(e)
    BY <1>1, <1>2, <2>1, Finished
  <2>2. CASE UNCHANGED <<attempts, results, spent>>
    BY <1>1, <1>2, <2>2 DEF MemoryInv, Types, StoreTypeOK, SpentInv, Known
  <2>3. QED
    BY <2>1, <2>2
<1>4. Types'
  BY <1>1, <1>2, <1>3 DEF MemoryInv, Types
<1>5. InvocationsInv'
  BY <1>1, <1>2, InvocationsKept
<1>6. MarkersInv' /\ FiledInv' /\ PendingInv' /\ FilesInv'
  BY <1>1, <1>2, <1>3 DEF MemoryInv, MarkersInv, FiledInv, PendingInv, FilesInv, Known, Capturing
<1>7. QED
  BY <1>1, <1>3, <1>4, <1>5, <1>6, HolderStep


LEMMA SettleKeeps ==
  ASSUME MemoryInv, NEW p \in Procs, Settle(p)
  PROVE  MemoryInv'
<1>1. /\ pc[p] = "commit" /\ UNCHANGED fileVars
      /\ Finish(Subject(p)) \/ UNCHANGED <<attempts, results, spent>>
      /\ IF AfterSettling(p) = "idle" THEN Leave(p) /\ UNCHANGED boundVars ELSE Continue(p, AfterSettling(p))
  BY DEF Settle, At
<1>2. Known(job[p]) /\ Op(p) \in {"capture", "recover"} /\ marker[Note(p)] = Subject(p)
  BY <1>1 DEF MemoryInv, ProcInv, OpInv, EvidenceInv, MarkedSteps
<1>3. Known(Subject(p))
  BY <1>2, SubjectFacts DEF Capturing
<1>4. CASE AfterSettling(p) = "idle"
  BY <1>1, <1>3, <1>4, CommitLeaves
<1>5. CASE AfterSettling(p) # "idle"
  <2>1. PICK to \in {"answer", "clean"} :
           /\ Continue(p, to)
           /\ to = "answer" => Op(p) = "recover"
           /\ to = "clean" => Publication(p).replaces # None
    BY <1>1, <1>5 DEF AfterSettling
  <2>2. issued' = issued /\ job' = job /\ pc'[p] = to /\ marker' = marker
    BY <1>1, <2>1, HolderContinues DEF Steps, fileVars
  <2>3. ProcInv(p)'
    BY <1>2, <2>1, <2>2, SameInvocation DEF ProcInv, OpInv, EvidenceInv, LookInv,
       MarkedSteps, FiledSteps, RecordedSteps, RetireSteps
  <2>4. QED
    BY <1>1, <1>3, <2>1, <2>3, CommitContinues DEF Steps
<1>6. QED
  BY <1>4, <1>5

(* The receipts of a publication that was replaced are named by nothing.   *)
LEMMA CleanFacts ==
  ASSUME MemoryInv, NEW p \in Procs, Clean(p)
  PROVE  LET old == Publication(p).replaces
         IN /\ Capturing(old) /\ old \in Effects /\ pc[p] = "clean"
            /\ Known(marker[issued[old].note]) /\ marker[issued[old].note] > old
            /\ \A n \in Notes : marker[n] # old
            /\ old \notin filed
            /\ pending # None => pending.of # old
<1> DEFINE old == Publication(p).replaces
<1>1. pc[p] = "clean"
  BY DEF Clean, At
<1>2. Known(job[p]) /\ Op(p) \in {"capture", "recover"} /\ marker[Note(p)] = Subject(p) /\ old # None
  BY <1>1 DEF MemoryInv, ProcInv, OpInv, EvidenceInv, MarkedSteps
<1>3. /\ Capturing(Subject(p)) /\ Subject(p) \in Nat /\ Subject(p) \in Effects /\ Note(p) \in Notes
      /\ Publication(p) = issued[Subject(p)] /\ InvocationInv(Subject(p))
  BY <1>2, SubjectFacts
<1>4. /\ old < Subject(p) /\ Capturing(old) /\ issued[old].note = Note(p)
  BY <1>2, <1>3 DEF InvocationInv, Sound, Note, Capturing
<1>5. old \in Effects /\ old \in Nat
  BY <1>4, KnownInvocation DEF Capturing
<1> HIDE DEF old
<1>6. marker[issued[old].note] = Subject(p) /\ Subject(p) > old
  BY <1>2, <1>3, <1>4, <1>5
<1>7. \A n \in Notes : marker[n] # old
  <2>1. SUFFICES ASSUME NEW n \in Notes, marker[n] = old PROVE FALSE
    OBVIOUS
  <2>2. issued[old].note = n
    BY <1>5, <2>1, MemoryMarksAssumption DEF MemoryInv, MarkersInv
  <2>3. QED
    BY <1>2, <1>3, <1>4, <1>5, <2>1, <2>2
<1>8. old \notin filed /\ (pending # None => pending.of # old)
  BY <1>4 DEF MemoryInv, FiledInv, PendingInv, Capturing
<1>9. QED
  BY <1>1, <1>3, <1>4, <1>5, <1>6, <1>7, <1>8 DEF Capturing, old

LEMMA CleanKeeps ==
  ASSUME MemoryInv, NEW p \in Procs, Clean(p)
  PROVE  MemoryInv'
<1> DEFINE old == Publication(p).replaces
<1>1. /\ Capturing(old) /\ old \in Effects /\ pc[p] = "clean"
      /\ Known(marker[issued[old].note]) /\ marker[issued[old].note] > old
      /\ \A n \in Notes : marker[n] # old
      /\ old \notin filed
      /\ pending # None => pending.of # old
  BY CleanFacts
<1>2. Known(job[p]) /\ Op(p) \in {"capture", "recover"} /\ marker[Note(p)] = Subject(p) /\ old # None
  BY <1>1 DEF MemoryInv, ProcInv, OpInv, EvidenceInv, MarkedSteps
<1>3. UNCHANGED <<spent, notes, manifest, marker, filed, filedTorn, pending, temps, torn, cited, edits, crashes>>
  BY DEF Clean, fileVars, boundVars, Continue
<1>4. CASE /\ attempts' = [attempts EXCEPT ![old] = Absent] /\ results' = results
           /\ Continue(p, "clean")
  <2>1. /\ lock = p /\ HolderInv' /\ issued' = issued /\ job' = job
        /\ pc' = [pc EXCEPT ![p] = "clean"] /\ pc'[p] = "clean" /\ pc' \in [Procs -> Steps] /\ window' = window
    BY <1>1, <1>4, HolderContinues DEF Steps
  <2> HIDE DEF old
  <2>2. attempts'[old] = Absent /\ \A e \in Effects : e # old => attempts'[e] = attempts[e]
    BY <1>1, <1>4 DEF MemoryInv, Types, StoreTypeOK
  <2>3. Types'
    BY <1>3, <1>4, <2>1 DEF MemoryInv, Types, StoreTypeOK
  <2>4. InvocationsInv'
    BY <1>3, <2>1, InvocationsKept
  <2>5. MarkersInv'
    BY <1>1, <1>3, <2>1, <2>2 DEF MemoryInv, Types, MarkersInv, Known, Capturing
  <2>6. FiledInv' /\ PendingInv' /\ FilesInv'
    <3>1. filed \subseteq Effects /\ (pending # None => pending.of \in Effects)
      BY DEF MemoryInv, Types, Records
    <3>2. QED
      BY <1>1, <1>3, <2>1, <2>2, <3>1 DEF MemoryInv, FiledInv, PendingInv, FilesInv, Known
  <2>7. SpentInv'
    <3>1. spent \subseteq Effects /\ Admitted # Absent
      BY StoreAssumption DEF MemoryInv, Types
    <3>2. QED
      BY <1>1, <1>3, <1>4, <2>1, <2>2, <3>1 DEF MemoryInv, SpentInv, Known, Capturing
  <2>8. ProcInv(p)'
    BY <1>2, <1>3, <2>1, SameInvocation DEF ProcInv, OpInv, EvidenceInv, LookInv,
       MarkedSteps, FiledSteps, RecordedSteps, RetireSteps, old
  <2>9. QED
    BY <2>1, <2>3, <2>4, <2>5, <2>6, <2>7, <2>8, HolderStep
<1>5. CASE /\ attempts[old] = Absent /\ results' = [results EXCEPT ![old] = Absent] /\ attempts' = attempts
           /\ Leave(p)
  <2>1. /\ lock = p /\ HolderInv' /\ issued' = issued /\ pc' = [pc EXCEPT ![p] = "idle"]
        /\ \A q \in Procs : q # p => job'[q] = job[q]
        /\ pc' \in [Procs -> Steps] /\ job' \in [Procs -> Effects \cup {None}]
        /\ window' \subseteq Procs /\ ProcInv(p)'
    BY <1>1, <1>5, HolderLeaves
  <2> HIDE DEF old
  <2>2. \A e \in Effects : e # old => results'[e] = results[e]
    BY <1>1, <1>5 DEF MemoryInv, Types, StoreTypeOK
  <2>3. Types'
    BY <1>3, <1>5, <2>1 DEF MemoryInv, Types, StoreTypeOK
  <2>4. InvocationsInv'
    BY <1>3, <2>1, InvocationsKept
  <2>5. MarkersInv' /\ FiledInv' /\ PendingInv' /\ FilesInv'
    BY <1>3, <1>5, <2>1 DEF MemoryInv, MarkersInv, FiledInv, PendingInv, FilesInv, Known, Capturing
  <2>6. SpentInv'
    <3>1. spent \subseteq Effects /\ Admitted # Absent
      BY StoreAssumption DEF MemoryInv, Types
    <3>2. QED
      BY <1>1, <1>3, <1>5, <2>1, <2>2, <3>1 DEF MemoryInv, SpentInv, Known
  <2>7. QED
    BY <2>1, <2>3, <2>4, <2>5, <2>6, HolderStep
<1>6. QED
  BY <1>4, <1>5 DEF Clean

-----------------------------------------------------------------------------
(* The steps of a disposition.                                             *)
LEMMA FileDispositionKeeps ==
  ASSUME MemoryInv, NEW p \in Procs, FileDisposition(p)
  PROVE  MemoryInv'
<1>1. /\ pc[p] = "d-mark" /\ Continue(p, "d-stage") /\ filed' = filed \cup {job[p]}
      /\ UNCHANGED <<attempts, results, spent, notes, manifest, marker, filedTorn, pending, temps, torn>>
  BY DEF FileDisposition, At
<1>2. /\ lock = p /\ HolderInv' /\ issued' = issued /\ job' = job
      /\ pc' = [pc EXCEPT ![p] = "d-stage"] /\ pc'[p] = "d-stage" /\ pc' \in [Procs -> Steps]
      /\ window' = window /\ cited' = cited /\ edits' = edits /\ crashes' = crashes
  BY <1>1, HolderContinues DEF Steps
<1>3. Known(job[p]) /\ Op(p) = "dispose" /\ attempts[job[p]] = Admitted
  BY <1>1 DEF MemoryInv, ProcInv, OpInv, EvidenceInv
<1>4. job[p] \in Effects
  BY <1>3, KnownInvocation
<1>5. Types'
  BY <1>1, <1>2, <1>4 DEF MemoryInv, Types, StoreTypeOK
<1>6. InvocationsInv'
  BY <1>1, <1>2, InvocationsKept
<1>7. MarkersInv' /\ PendingInv' /\ FilesInv' /\ SpentInv'
  BY <1>1, <1>2 DEF MemoryInv, MarkersInv, PendingInv, FilesInv, SpentInv, Known, Capturing
<1>8. FiledInv'
  BY <1>1, <1>2, <1>3 DEF MemoryInv, FiledInv, Known, Op, Invocation
<1>9. ProcInv(p)'
  BY <1>1, <1>2, <1>3, SameInvocation DEF ProcInv, OpInv, EvidenceInv, LookInv,
     MarkedSteps, FiledSteps, RecordedSteps, RetireSteps
<1>10. QED
  BY <1>2, <1>5, <1>6, <1>7, <1>8, <1>9, HolderStep

LEMMA StageDispositionKeeps ==
  ASSUME MemoryInv, NEW p \in Procs, StageDisposition(p)
  PROVE  MemoryInv'
<1>1. /\ pc[p] = "d-stage" /\ Continue(p, "d-barrier") /\ temps' = temps \cup {<<"dispose", job[p]>>}
      /\ UNCHANGED <<attempts, results, spent, notes, manifest, marker, filed, filedTorn, pending, torn>>
      /\ <<"dispose", job[p]>> \notin torn
  BY DEF StageDisposition, MayDispose, At
<1>2. /\ issued' = issued /\ job' = job /\ pc'[p] = "d-barrier"
  BY <1>1, HolderContinues DEF Steps
<1>3. Known(job[p]) /\ Op(p) = "dispose" /\ job[p] \in filed
  BY <1>1 DEF MemoryInv, ProcInv, OpInv, EvidenceInv, FiledSteps
<1>4. ProcInv(p)'
  BY <1>1, <1>2, <1>3, SameInvocation DEF ProcInv, OpInv, EvidenceInv, LookInv,
     MarkedSteps, FiledSteps, RecordedSteps, RetireSteps
<1>5. <<"dispose", job[p]>> \in Files
  BY <1>3, KnownInvocation DEF Files
<1>6. \A f \in temps' \ temps : f \in Files /\ Known(f[2]) /\ (f[1] \in Declaring => f \notin torn)
  BY <1>1, <1>3, <1>5
<1>7. QED
  BY <1>1, <1>4, <1>6, HolderWrites DEF Steps, MemoryInv, Types

LEMMA BarrierDispositionKeeps ==
  ASSUME MemoryInv, NEW p \in Procs, BarrierDisposition(p)
  PROVE  MemoryInv'
<1>1. /\ pc[p] = "d-barrier" /\ Continue(p, "d-install") /\ DisposalAccepted(Invocation(p))
      /\ UNCHANGED <<attempts, results, spent, notes, manifest, marker, filed, filedTorn, pending, torn, temps>>
  BY DEF BarrierDisposition, MayDispose, At, diskVars, fileVars
<1>2. /\ issued' = issued /\ job' = job /\ pc'[p] = "d-install" /\ window' = window
  BY <1>1, HolderContinues DEF Steps
<1>3. Known(job[p]) /\ Op(p) = "dispose" /\ job[p] \in filed
  BY <1>1 DEF MemoryInv, ProcInv, OpInv, EvidenceInv, FiledSteps
<1>4. manifest = Invocation(p).before
  BY <1>1 DEF DisposalAccepted, Disposal
<1>5. ProcInv(p)'
  BY <1>1, <1>2, <1>3, <1>4, SameInvocation DEF ProcInv, OpInv, EvidenceInv, LookInv,
     MarkedSteps, FiledSteps, RecordedSteps, RetireSteps
<1>6. QED
  BY <1>1, <1>5, HolderWrites DEF Steps, MemoryInv, Types

LEMMA InstallDispositionKeeps ==
  ASSUME MemoryInv, NEW p \in Procs, InstallDisposition(p)
  PROVE  MemoryInv'
<1>1. /\ pc[p] = "d-install" /\ Continue(p, "answer") /\ temps' \subseteq temps
      /\ manifest' = Invocation(p).post
      /\ UNCHANGED <<attempts, results, spent, notes, marker, filed, filedTorn, pending, torn>>
  BY DEF InstallDisposition, At
<1>2. /\ issued' = issued /\ job' = job /\ pc'[p] = "answer"
  BY <1>1, HolderContinues DEF Steps
<1>3. Known(job[p]) /\ Op(p) = "dispose"
  BY <1>1 DEF MemoryInv, ProcInv, OpInv, FiledSteps
<1>4. manifest' \in Manifests
  BY <1>1, <1>3, KnownInvocation, Fields DEF Op, Invocation, Disposals, Images, Manifests
<1>5. ProcInv(p)'
  BY <1>1, <1>2, <1>3, SameInvocation DEF ProcInv, OpInv, EvidenceInv, LookInv,
     MarkedSteps, FiledSteps, RecordedSteps, RetireSteps
<1>6. QED
  BY <1>1, <1>4, <1>5, HolderWrites DEF Steps, MemoryInv, Types

LEMMA VerifyDispositionKeeps ==
  ASSUME MemoryInv, NEW p \in Procs, VerifyDisposition(p)
  PROVE  MemoryInv'
<1>1. /\ pc[p] = "d-verify" /\ Continue(p, "d-original")
      /\ UNCHANGED <<attempts, results, spent, notes, manifest, marker, filed, filedTorn, pending, torn, temps>>
  BY DEF VerifyDisposition, At, diskVars, fileVars
<1>2. /\ issued' = issued /\ job' = job /\ pc'[p] = "d-original"
  BY <1>1, HolderContinues DEF Steps
<1>3. Known(job[p]) /\ Op(p) = "recover-disposition"
  BY <1>1 DEF MemoryInv, ProcInv, OpInv
<1>4. ProcInv(p)'
  BY <1>1, <1>2, <1>3, SameInvocation DEF ProcInv, OpInv, EvidenceInv, LookInv,
     MarkedSteps, FiledSteps, RecordedSteps, RetireSteps
<1>5. QED
  BY <1>1, <1>4, HolderWrites DEF Steps, MemoryInv, Types

LEMMA CommitDispositionKeeps ==
  ASSUME MemoryInv, NEW p \in Procs, CommitDisposition(p)
  PROVE  MemoryInv'
<1>1. /\ pc[p] = "d-original" /\ Continue(p, "answer") /\ Finish(Invocation(p).of) /\ UNCHANGED fileVars
  BY DEF CommitDisposition, At
<1>2. /\ issued' = issued /\ job' = job /\ pc'[p] = "answer"
  BY <1>1, HolderContinues DEF Steps
<1>3. Known(job[p]) /\ Op(p) = "recover-disposition"
  BY <1>1 DEF MemoryInv, ProcInv, OpInv
<1>4. Known(Invocation(p).of)
  BY <1>3, KnownInvocation DEF InvocationInv, Sound, Op, Invocation
<1>5. ProcInv(p)'
  BY <1>1, <1>2, <1>3, SameInvocation DEF ProcInv, OpInv, EvidenceInv, LookInv,
     MarkedSteps, FiledSteps, RecordedSteps, RetireSteps
<1>6. QED
  BY <1>1, <1>4, <1>5, CommitContinues DEF Steps


-----------------------------------------------------------------------------
(* The steps of a retirement.                                              *)
LEMMA WriteRecordKeeps ==
  ASSUME MemoryInv, NEW p \in Procs, WriteRecord(p)
  PROVE  MemoryInv'
<1>1. /\ pc[p] = "q-record" /\ Continue(p, "q-pending") /\ temps' = temps \cup {<<"record", job[p]>>}
      /\ UNCHANGED <<attempts, results, spent, notes, manifest, marker, filed, filedTorn, pending, torn>>
  BY DEF WriteRecord, At
<1>2. /\ issued' = issued /\ job' = job /\ pc'[p] = "q-pending"
  BY <1>1, HolderContinues DEF Steps
<1>3. /\ Known(job[p]) /\ Op(p) \in {"retire", "recover-retirement"}
      /\ Op(p) = "retire" => attempts[job[p]] = Admitted
  BY <1>1 DEF MemoryInv, ProcInv, OpInv, EvidenceInv, RetireSteps
<1>4. ProcInv(p)'
  BY <1>1, <1>2, <1>3, SameInvocation DEF ProcInv, OpInv, EvidenceInv, LookInv,
     MarkedSteps, FiledSteps, RecordedSteps, RetireSteps
<1>5. <<"record", job[p]>> \in Files
  BY <1>3, KnownInvocation DEF Files
<1>6. \A f \in temps' \ temps : f \in Files /\ Known(f[2]) /\ (f[1] \in Declaring => f \notin torn)
  BY <1>1, <1>3, <1>5 DEF Declaring
<1>7. QED
  BY <1>1, <1>4, <1>6, HolderWrites DEF Steps, MemoryInv, Types

LEMMA InstallRecordKeeps ==
  ASSUME MemoryInv, NEW p \in Procs, InstallRecord(p)
  PROVE  MemoryInv'
<1>1. /\ pc[p] = "q-pending" /\ Continue(p, "q-stage") /\ temps' \subseteq temps /\ pending' = Record(p)
      /\ UNCHANGED <<attempts, results, spent, notes, manifest, marker, filed, filedTorn, torn>>
      /\ RetirementStillAccepted(p)
  BY DEF InstallRecord, MayRetire, At
<1>2. /\ lock = p /\ HolderInv' /\ issued' = issued /\ job' = job
      /\ pc' = [pc EXCEPT ![p] = "q-stage"] /\ pc'[p] = "q-stage" /\ pc' \in [Procs -> Steps]
      /\ window' = window /\ cited' = cited /\ edits' = edits /\ crashes' = crashes
  BY <1>1, HolderContinues DEF Steps
<1>3. /\ Known(job[p]) /\ Op(p) \in {"retire", "recover-retirement"}
      /\ Op(p) = "retire" => attempts[job[p]] = Admitted
  BY <1>1 DEF MemoryInv, ProcInv, OpInv, EvidenceInv, RetireSteps
<1>4. /\ Known(Original(p)) /\ Original(p) \in Effects /\ issued[Original(p)].op = "retire"
      /\ job[p] \in Effects
  BY <1>3, RetiringFacts, KnownInvocation
<1>5. attempts[Original(p)] = Admitted
  <2>1. CASE Op(p) = "retire"
    BY <1>3, <2>1 DEF Original, Recovering
  <2>2. CASE Op(p) = "recover-retirement"
    <3>1. pending # None /\ Original(p) = pending.of
      BY <1>1, <2>2 DEF RetirementStillAccepted, RetirementRecoveryAccepted, Recovering, Original
    <3>2. QED
      BY <3>1 DEF MemoryInv, PendingInv
  <2>3. QED
    BY <1>3, <2>1, <2>2
<1>6. Record(p) \in Records /\ Record(p).of = Original(p)
  BY <1>4 DEF Record, Records
<1>7. Types'
  BY <1>1, <1>2, <1>6 DEF MemoryInv, Types, StoreTypeOK
<1>8. InvocationsInv'
  BY <1>1, <1>2, InvocationsKept
<1>9. MarkersInv' /\ FiledInv' /\ FilesInv' /\ SpentInv'
  BY <1>1, <1>2 DEF MemoryInv, MarkersInv, FiledInv, FilesInv, SpentInv, Known, Capturing
<1>10. PendingInv'
  BY <1>1, <1>2, <1>4, <1>5, <1>6 DEF PendingInv, Known
<1>11. ProcInv(p)'
  BY <1>1, <1>2, <1>3, SameInvocation DEF ProcInv, OpInv, EvidenceInv, LookInv,
     MarkedSteps, FiledSteps, RecordedSteps, RetireSteps
<1>12. QED
  BY <1>2, <1>7, <1>8, <1>9, <1>10, <1>11, HolderStep

LEMMA StageRetirementKeeps ==
  ASSUME MemoryInv, NEW p \in Procs, StageRetirement(p)
  PROVE  MemoryInv'
<1>1. PICK to \in {"q-verify", "q-barrier"} :
      /\ pc[p] = "q-stage" /\ Continue(p, to) /\ temps' \subseteq temps \cup {<<"retire", job[p]>>}
      /\ UNCHANGED <<attempts, results, spent, notes, manifest, marker, filed, filedTorn, pending, torn>>
      /\ to = "q-verify" => manifest = Retiring(p).post
  BY DEF StageRetirement, At
<1>2. /\ issued' = issued /\ job' = job /\ pc'[p] = to
  BY <1>1, HolderContinues DEF Steps
<1>3. Known(job[p]) /\ Op(p) \in {"retire", "recover-retirement"} /\ pending = Record(p)
  BY <1>1 DEF MemoryInv, ProcInv, OpInv, EvidenceInv, RetireSteps, RecordedSteps
<1>4. ProcInv(p)'
  BY <1>1, <1>2, <1>3, SameInvocation DEF ProcInv, OpInv, EvidenceInv, LookInv,
     MarkedSteps, FiledSteps, RecordedSteps, RetireSteps
<1>5. <<"retire", job[p]>> \in Files
  BY <1>3, KnownInvocation DEF Files
<1>6. \A f \in temps' \ temps : f \in Files /\ Known(f[2]) /\ (f[1] \in Declaring => f \notin torn)
  BY <1>1, <1>3, <1>5 DEF Declaring
<1>7. QED
  BY <1>1, <1>4, <1>6, HolderWrites DEF Steps, MemoryInv, Types

LEMMA BarrierRetirementKeeps ==
  ASSUME MemoryInv, NEW p \in Procs, BarrierRetirement(p)
  PROVE  MemoryInv'
<1>1. /\ pc[p] = "q-barrier" /\ Continue(p, "q-install") /\ manifest \in {Retiring(p).before, Retiring(p).post}
      /\ UNCHANGED <<attempts, results, spent, notes, manifest, marker, filed, filedTorn, pending, torn, temps>>
  BY DEF BarrierRetirement, MayRetire, Verified, At, diskVars, fileVars
<1>2. /\ issued' = issued /\ job' = job /\ pc'[p] = "q-install"
  BY <1>1, HolderContinues DEF Steps
<1>3. Known(job[p]) /\ Op(p) \in {"retire", "recover-retirement"} /\ pending = Record(p)
  BY <1>1 DEF MemoryInv, ProcInv, OpInv, EvidenceInv, RetireSteps, RecordedSteps
<1>4. ProcInv(p)'
  BY <1>1, <1>2, <1>3, SameInvocation DEF ProcInv, OpInv, EvidenceInv, LookInv,
     MarkedSteps, FiledSteps, RecordedSteps, RetireSteps
<1>5. QED
  BY <1>1, <1>4, HolderWrites DEF Steps, MemoryInv, Types

LEMMA InstallRetirementKeeps ==
  ASSUME MemoryInv, NEW p \in Procs, InstallRetirement(p)
  PROVE  MemoryInv'
<1>1. /\ pc[p] = "q-install" /\ Continue(p, "q-verify") /\ temps' \subseteq temps
      /\ manifest' = Retiring(p).post
      /\ UNCHANGED <<attempts, results, spent, notes, marker, filed, filedTorn, pending, torn>>
  BY DEF InstallRetirement, At
<1>2. /\ issued' = issued /\ job' = job /\ pc'[p] = "q-verify"
  BY <1>1, HolderContinues DEF Steps
<1>3. Known(job[p]) /\ Op(p) \in {"retire", "recover-retirement"} /\ pending = Record(p)
  BY <1>1 DEF MemoryInv, ProcInv, OpInv, EvidenceInv, RetireSteps, RecordedSteps
<1>4. manifest' \in Manifests
  BY <1>1, <1>3, RetiringFacts DEF Retirements, Images, Manifests
<1>5. ProcInv(p)'
  BY <1>1, <1>2, <1>3, SameInvocation DEF ProcInv, OpInv, EvidenceInv, LookInv,
     MarkedSteps, FiledSteps, RecordedSteps, RetireSteps
<1>6. QED
  BY <1>1, <1>4, <1>5, HolderWrites DEF Steps, MemoryInv, Types

(* The files that could mention the note are those of the request: a torn  *)
(* one never becomes whole.                                                *)
LEMMA VerifiedUnmentioned ==
  ASSUME MemoryInv, NEW p \in Procs, Known(job[p]), Op(p) \in {"retire", "recover-retirement"},
         Guard(Retiring(p).note) = Retiring(p).guard
  PROVE  ~Mentioned(Retiring(p).note)
<1> DEFINE i == Retiring(p)
<1>1. i.op = "retire" /\ Sound(Original(p), i)
  BY RetiringFacts DEF InvocationInv
<1>2. /\ i.guard.cited = cited
      /\ i.guard.files = {f \in temps \cup torn : f[1] \in InMemory}
  BY DEF Guard
<1> HIDE DEF i
<1>3. i.note \notin cited
  BY <1>1, <1>2 DEF Sound
<1>4. ASSUME NEW f \in temps, f[1] \in Declaring PROVE issued[f[2]].post[i.note] = None
  <2>1. f \in i.guard.files /\ f \notin torn
    BY <1>2, <1>4 DEF Declaring, InMemory, MemoryInv, FilesInv
  <2>2. QED
    BY <1>1, <1>4, <2>1 DEF Sound
<1>5. QED
  BY <1>3, <1>4 DEF Mentioned, Declaring, i

LEMMA VerifyRemovalKeeps ==
  ASSUME MemoryInv, NEW p \in Procs, VerifyRemoval(p)
  PROVE  MemoryInv'
<1>1. /\ pc[p] = "q-verify" /\ Continue(p, "q-unlink") /\ Verified(Retiring(p), TRUE)
      /\ UNCHANGED <<attempts, results, spent, notes, manifest, marker, filed, filedTorn, pending, torn, temps>>
  BY DEF VerifyRemoval, MayRetire, At, diskVars, fileVars
<1>2. /\ issued' = issued /\ job' = job /\ pc'[p] = "q-unlink" /\ cited' = cited /\ edits' = edits
  BY <1>1, HolderContinues DEF Steps
<1>3. /\ Known(job[p]) /\ Op(p) \in {"retire", "recover-retirement"} /\ pending = Record(p)
      /\ edits = 0 => manifest = Retiring(p).post
  BY <1>1 DEF MemoryInv, ProcInv, OpInv, EvidenceInv, LookInv, RetireSteps, RecordedSteps
<1>4. notes[Retiring(p).note] \in {Retiring(p).content, Absent} /\ ~Mentioned(Retiring(p).note)
  BY <1>1, <1>3, VerifiedUnmentioned DEF Verified
<1>5. (~Mentioned(Retiring(p).note))'
  BY <1>1, <1>2, <1>4, SameInvocation DEF Mentioned
<1>6. ProcInv(p)'
  BY <1>1, <1>2, <1>3, <1>4, <1>5, SameInvocation DEF ProcInv, OpInv, EvidenceInv, LookInv,
     MarkedSteps, FiledSteps, RecordedSteps, RetireSteps
<1>7. QED
  BY <1>1, <1>6, HolderWrites DEF Steps, MemoryInv, Types

LEMMA RemoveKeeps ==
  ASSUME MemoryInv, NEW p \in Procs, Remove(p)
  PROVE  MemoryInv'
<1>1. /\ pc[p] = "q-unlink" /\ Continue(p, "q-original")
      /\ notes' = [notes EXCEPT ![Retiring(p).note] = Absent]
      /\ UNCHANGED <<attempts, results, spent, manifest, marker, filed, filedTorn, pending, temps, torn>>
  BY DEF Remove, At
<1>2. /\ issued' = issued /\ job' = job /\ pc'[p] = "q-original"
  BY <1>1, HolderContinues DEF Steps
<1>3. Known(job[p]) /\ Op(p) \in {"retire", "recover-retirement"} /\ pending = Record(p)
  BY <1>1 DEF MemoryInv, ProcInv, OpInv, EvidenceInv, RetireSteps, RecordedSteps
<1>4. ProcInv(p)'
  BY <1>1, <1>2, <1>3, SameInvocation DEF ProcInv, OpInv, EvidenceInv, LookInv,
     MarkedSteps, FiledSteps, RecordedSteps, RetireSteps
<1>5. notes' \in [Notes -> Contents \cup {Absent}]
  BY <1>1 DEF MemoryInv, Types
<1>6. QED
  BY <1>1, <1>4, <1>5, HolderWrites DEF Steps, MemoryInv, Types

LEMMA CommitRetirementKeeps ==
  ASSUME MemoryInv, NEW p \in Procs, CommitRetirement(p)
  PROVE  MemoryInv'
<1>1. PICK to \in {"q-commit", "q-clear"} :
      /\ pc[p] = "q-original" /\ Continue(p, to) /\ UNCHANGED fileVars
      /\ Finish(Original(p)) \/ UNCHANGED <<attempts, results, spent>>
      /\ to = "q-commit" => Op(p) = "recover-retirement"
  BY DEF CommitRetirement, Recovering, At
<1>2. /\ issued' = issued /\ job' = job /\ pc'[p] = to /\ pending' = pending
  BY <1>1, HolderContinues DEF Steps, fileVars
<1>3. Known(job[p]) /\ Op(p) \in {"retire", "recover-retirement"} /\ pending = Record(p)
  BY <1>1 DEF MemoryInv, ProcInv, OpInv, EvidenceInv, RetireSteps, RecordedSteps
<1>4. ProcInv(p)'
  BY <1>1, <1>2, <1>3, SameInvocation DEF ProcInv, OpInv, EvidenceInv, LookInv,
     MarkedSteps, FiledSteps, RecordedSteps, RetireSteps
<1>5. Known(Original(p))
  BY <1>3, RetiringFacts
<1>6. QED
  BY <1>1, <1>4, <1>5, CommitContinues DEF Steps

LEMMA CommitRetirementRecoveryKeeps ==
  ASSUME MemoryInv, NEW p \in Procs, CommitRetirementRecovery(p)
  PROVE  MemoryInv'
<1>1. pc[p] = "q-commit" /\ Continue(p, "q-clear") /\ UNCHANGED fileVars /\ Finish(job[p])
  BY DEF CommitRetirementRecovery, At
<1>2. /\ issued' = issued /\ job' = job /\ pc'[p] = "q-clear"
  BY <1>1, HolderContinues DEF Steps
<1>3. Known(job[p]) /\ Op(p) = "recover-retirement"
  BY <1>1 DEF MemoryInv, ProcInv, OpInv
<1>4. ProcInv(p)'
  BY <1>1, <1>2, <1>3, SameInvocation DEF ProcInv, OpInv, EvidenceInv, LookInv,
     MarkedSteps, FiledSteps, RecordedSteps, RetireSteps
<1>5. QED
  BY <1>1, <1>3, <1>4, CommitContinues DEF Steps

LEMMA ClearRecordKeeps ==
  ASSUME MemoryInv, NEW p \in Procs, ClearRecord(p)
  PROVE  MemoryInv'
<1>1. /\ pc[p] = "q-clear" /\ Leave(p) /\ pending' = None
      /\ UNCHANGED <<attempts, results, spent, notes, manifest, marker, filed, filedTorn, temps, torn>>
      /\ UNCHANGED <<cited, edits, crashes>>
  BY DEF ClearRecord, At, boundVars
<1>2. /\ lock = p /\ HolderInv' /\ issued' = issued /\ pc' = [pc EXCEPT ![p] = "idle"]
      /\ \A q \in Procs : q # p => job'[q] = job[q]
      /\ pc' \in [Procs -> Steps] /\ job' \in [Procs -> Effects \cup {None}]
      /\ window' \subseteq Procs /\ ProcInv(p)'
  BY <1>1, HolderLeaves
<1>3. Types'
  BY <1>1, <1>2 DEF MemoryInv, Types, StoreTypeOK
<1>4. InvocationsInv'
  BY <1>1, <1>2, InvocationsKept
<1>5. MarkersInv' /\ FiledInv' /\ PendingInv' /\ FilesInv' /\ SpentInv'
  BY <1>1, <1>2 DEF MemoryInv, MarkersInv, FiledInv, PendingInv, FilesInv, SpentInv, Known, Capturing
<1>6. QED
  BY <1>2, <1>3, <1>4, <1>5, HolderStep


-----------------------------------------------------------------------------
(* Acquiring the lock, admission, answers and ends.                        *)
LEMMA LockKeeps ==
  ASSUME MemoryInv, NEW p \in Procs, Lock(p)
  PROVE  MemoryInv'
<1> DEFINE to == IF AnswersAlone(p) THEN "stage" ELSE "admit"
<1>1. /\ pc[p] = "lock" /\ lock = None /\ lock' = p /\ pc' = [pc EXCEPT ![p] = to] /\ MayStart(p)
      /\ UNCHANGED <<attempts, results, spent, notes, manifest, marker, filed, filedTorn, pending, temps, torn>>
      /\ UNCHANGED <<issued, job, window, cited, edits, crashes>>
  BY DEF Lock, May, At, diskVars, fileVars, boundVars
<1>2. Known(job[p])
  BY <1>1 DEF MemoryInv, ProcInv, OpInv
<1>3. to \in {"stage", "admit"}
  OBVIOUS
<1>4. to = "stage" => Op(p) = "recover" /\ marker[Note(p)] = Subject(p)
  BY <1>1 DEF AnswersAlone, MayStart, RecoveryAccepted, Op, Note, Publication, Subject
<1>5. to = "admit" /\ Op(p) = "recover" => Note(p) \notin Advice
  BY DEF AnswersAlone
<1>6. to = "admit" /\ Op(p) = "capture" => marker[Note(p)] \in {Absent, job[p], Publication(p).replaces}
  <2>1. SUFFICES ASSUME to = "admit", Op(p) = "capture"
                 PROVE  marker[Note(p)] \in {Absent, job[p], Publication(p).replaces}
    OBVIOUS
  <2>2. Readable(Note(p)) /\ CanPublish(job[p])
    BY <1>1, <2>1 DEF MayStart, CaptureAccepted, Op, Invocation, Note, Publication, Subject
  <2>3. Subject(p) = job[p] /\ Publication(p) = issued[job[p]]
    BY <2>1 DEF Subject, Publication
  <2>4. CASE marker[Note(p)] \in {Absent, Torn}
    BY <2>2, <2>4 DEF Readable
  <2>5. CASE marker[Note(p)] \notin {Absent, Torn}
    <3>1. Note(p) \in Notes
      BY <1>2, <2>1, SubjectFacts
    <3>2. Retained(Note(p)) # None
      BY <2>5, <3>1, MemoryAssumption DEF Retained, MemoryInv, Types
    <3>3. QED
      BY <2>2, <2>3, <3>2 DEF CanPublish, Replacing, Note
  <2>6. QED
    BY <2>4, <2>5
<1> HIDE DEF to
<1>7. pc'[p] = to /\ pc' \in [Procs -> Steps] /\ \A q \in Procs : q # p => pc'[q] = pc[q]
  BY <1>1, <1>3 DEF MemoryInv, Types, Steps
<1>8. HolderInv'
  BY <1>1, <1>3, <1>7, MemoryAssumption DEF MemoryInv, HolderInv
<1>9. Types'
  BY <1>1, <1>7 DEF MemoryInv, Types, StoreTypeOK
<1>10. InvocationsInv'
  BY <1>1, InvocationsKept
<1>11. MarkersInv' /\ FiledInv' /\ PendingInv' /\ FilesInv' /\ SpentInv'
  BY <1>1 DEF MemoryInv, MarkersInv, FiledInv, PendingInv, FilesInv, SpentInv, Known, Capturing
<1>12. ProcInv(p)'
  BY <1>1, <1>2, <1>3, <1>4, <1>5, <1>6, <1>7, SameInvocation DEF ProcInv, OpInv, EvidenceInv, LookInv,
     MarkedSteps, FiledSteps, RecordedSteps, RetireSteps
<1>13. QED
  BY <1>1, <1>8, <1>9, <1>10, <1>11, <1>12, HolderStep

(* What is admitted without custody was not committed before: its marker   *)
(* has not moved past it.                                                  *)
LEMMA AdmittedUnspent ==
  ASSUME MemoryInv, NEW p \in Procs, pc[p] = "admit", ~HasCustody(p), CanAdmit(job[p])
  PROVE  job[p] \notin spent
<1> SUFFICES ASSUME job[p] \in spent PROVE FALSE
  OBVIOUS
<1>1. attempts[job[p]] = Absent /\ attempts[job[p]] # Admitted
  BY StoreAssumption DEF CanAdmit
<1>2. /\ Known(job[p]) /\ issued[job[p]].op = "capture"
      /\ Known(marker[issued[job[p]].note]) /\ marker[issued[job[p]].note] > job[p]
  BY <1>1 DEF MemoryInv, SpentInv
<1>3. Op(p) = "capture" /\ Subject(p) = job[p] /\ Note(p) = issued[job[p]].note
      /\ Publication(p) = issued[job[p]]
  BY <1>2 DEF Op, Invocation, Subject, Note, Publication
<1>4. /\ marker[Note(p)] \in {Absent, job[p], Publication(p).replaces}
      /\ Sound(job[p], Publication(p)) /\ job[p] \in Nat
  BY <1>2, <1>3, SubjectFacts DEF MemoryInv, ProcInv, EvidenceInv, InvocationInv
<1>5. /\ marker[Note(p)] \in Effects /\ marker[Note(p)] \in Nat
      /\ marker[Note(p)] > job[p] /\ marker[Note(p)] # Absent
  BY <1>2, <1>3, KnownInvocation, MemoryMarksAssumption
<1>6. marker[Note(p)] = Publication(p).replaces /\ Publication(p).replaces # None
  BY <1>4, <1>5, MemoryAssumption
<1>7. marker[Note(p)] < job[p]
  BY <1>3, <1>4, <1>6, <1>2 DEF Sound
<1>8. QED
  BY <1>4, <1>5, <1>7

LEMMA AdmissionKeeps ==
  ASSUME MemoryInv, NEW p \in Procs, Admission(p)
  PROVE  MemoryInv'
<1> DEFINE to == AfterAdmission(p)
<1>1. /\ pc[p] = "admit" /\ Continue(p, to)
      /\ UNCHANGED <<spent, notes, manifest, marker, filed, filedTorn, pending, temps, torn>>
      /\ IF HasCustody(p) THEN UNCHANGED <<attempts, results>> ELSE Admit(job[p])
  BY DEF Admission, At, fileVars
<1>2. Known(job[p]) /\ job[p] \in Effects
  BY <1>1, KnownInvocation DEF MemoryInv, ProcInv, OpInv
<1>3. Op(p) \in {"capture", "recover", "dispose", "recover-disposition", "retire", "recover-retirement"}
  BY <1>2, KnownInvocation, Fields DEF Op, Invocation
<1>4. \/ to = "r-check" /\ Op(p) = "recover"
      \/ to = "stage" /\ Op(p) = "capture" /\ Retained(Note(p)) = job[p]
      \/ to \in {"journal", "mark"} /\ Op(p) = "capture"
      \/ to = "d-verify" /\ Op(p) = "recover-disposition"
      \/ to = "d-stage" /\ Op(p) = "dispose" /\ job[p] \in filed
      \/ to = "d-mark" /\ Op(p) = "dispose"
      \/ to = "q-record" /\ Op(p) \in {"retire", "recover-retirement"}
  <2>1. /\ Op(p) \in {"capture", "recover"} => to = AfterPublicationAdmission(p)
        /\ Op(p) \in {"dispose", "recover-disposition"} => to = AfterDispositionAdmission(p)
        /\ Op(p) \in {"retire", "recover-retirement"} => to = "q-record"
    BY DEF AfterAdmission
  <2>2. QED
    BY <1>3, <2>1 DEF AfterPublicationAdmission, AfterDispositionAdmission
<1>5. Op(p) = "recover" => Note(p) \notin Advice
  BY <1>1 DEF MemoryInv, ProcInv, OpInv
<1>6. to = "stage" => marker[Note(p)] = job[p] /\ Subject(p) = job[p]
  BY <1>2, <1>4, MemoryAssumption DEF Retained, Subject
<1> HIDE DEF to
<1>7. to \in Steps \ {"idle", "lock"}
  BY <1>4 DEF Steps
<1>8. /\ lock = p /\ HolderInv' /\ issued' = issued /\ job' = job
      /\ pc' = [pc EXCEPT ![p] = to] /\ pc'[p] = to /\ pc' \in [Procs -> Steps]
      /\ window' = window /\ cited' = cited /\ edits' = edits /\ crashes' = crashes
  BY <1>1, <1>7, HolderContinues
<1>9. /\ attempts' \in [Effects -> {Absent, Torn, Admitted}] /\ results' = results
      /\ \A e \in Effects : attempts[e] = Admitted => attempts'[e] = Admitted
      /\ attempts'[job[p]] = Admitted
      /\ \A e \in Effects : e # job[p] => attempts'[e] = attempts[e]
      /\ HasCustody(p) => attempts' = attempts
  <2>1. CASE HasCustody(p)
    <3>1. attempts[job[p]] = Admitted
      <4>1. CASE Op(p) = "capture" /\ Retained(Note(p)) = job[p]
        <5>1. marker[Note(p)] = job[p] /\ job[p] # None /\ Note(p) \in Notes
          BY <1>2, <4>1, SubjectFacts, MemoryAssumption DEF Retained
        <5>2. QED
          BY <1>2, <5>1, MemoryMarksAssumption DEF MemoryInv, MarkersInv
      <4>2. CASE Op(p) = "dispose" /\ job[p] \in filed
        BY <4>2 DEF MemoryInv, FiledInv
      <4>3. QED
        BY <2>1, <4>1, <4>2 DEF HasCustody
    <3>2. QED
      BY <1>1, <2>1, <3>1 DEF MemoryInv, Types, StoreTypeOK
  <2>2. CASE ~HasCustody(p)
    BY <1>1, <1>2, <2>2 DEF Admit, MemoryInv, Types, StoreTypeOK
  <2>3. QED
    BY <2>1, <2>2
<1>10. Types'
  BY <1>1, <1>8, <1>9 DEF MemoryInv, Types, StoreTypeOK
<1>11. InvocationsInv'
  BY <1>1, <1>8, InvocationsKept
<1>12. MarkersInv' /\ FiledInv' /\ PendingInv' /\ FilesInv'
  <2>1. filed \subseteq Effects /\ (pending # None => pending.of \in Effects)
        /\ \A n \in Notes : marker[n] \notin {Absent, Torn} => marker[n] \in Effects
    BY DEF MemoryInv, Types, Records
  <2>2. QED
    BY <1>1, <1>8, <1>9, <2>1 DEF MemoryInv, MarkersInv, FiledInv, PendingInv, FilesInv, Known, Capturing
<1>13. SpentInv'
  <2>1. spent \subseteq Effects
    BY DEF MemoryInv, Types
  <2>2. ~HasCustody(p) => job[p] \notin spent
    BY <1>1, AdmittedUnspent DEF Admit
  <2>3. \A e \in spent : attempts'[e] = attempts[e]
    BY <1>9, <2>1, <2>2
  <2>4. QED
    BY <1>1, <1>8, <1>9, <2>3 DEF MemoryInv, SpentInv, Known
<1>14. ProcInv(p)'
  BY <1>1, <1>2, <1>4, <1>5, <1>6, <1>8, <1>9, SameInvocation DEF ProcInv, OpInv, EvidenceInv, LookInv,
     MarkedSteps, FiledSteps, RecordedSteps, RetireSteps
<1>15. QED
  BY <1>8, <1>10, <1>11, <1>12, <1>13, <1>14, HolderStep

LEMMA AnswerKeeps ==
  ASSUME MemoryInv, NEW p \in Procs, Answer(p)
  PROVE  MemoryInv'
<1>1. pc[p] = "answer" /\ Finish(job[p]) /\ Leave(p) /\ UNCHANGED fileVars /\ UNCHANGED boundVars
  BY DEF Answer, At
<1>2. Known(job[p])
  BY <1>1 DEF MemoryInv, ProcInv, OpInv
<1>3. QED
  BY <1>1, <1>2, CommitLeaves

LEMMA RefuseKeeps ==
  ASSUME MemoryInv, NEW p \in Procs, Refuse(p)
  PROVE  MemoryInv'
<1>1. pc[p] # "idle" /\ Leave(p) /\ UNCHANGED fileVars /\ UNCHANGED boundVars
      /\ UNCHANGED <<attempts, results, spent>>
  BY DEF Refuse, At, diskVars
<1>2. Known(job[p])
  BY <1>1 DEF MemoryInv, ProcInv, OpInv
<1>3. CASE pc[p] # "lock"
  BY <1>1, <1>2, <1>3, CommitLeaves
<1>4. CASE pc[p] = "lock"
  <2>1. /\ lock # p /\ HolderInv' /\ issued' = issued /\ pc' = [pc EXCEPT ![p] = "idle"]
        /\ \A q \in Procs : q # p => job'[q] = job[q]
        /\ pc' \in [Procs -> Steps] /\ job' \in [Procs -> Effects \cup {None}]
        /\ window' \subseteq Procs /\ ProcInv(p)'
    BY <1>1, <1>4, HolderLeaves
  <2>2. UNCHANGED <<notes, manifest, marker, filed, filedTorn, pending, temps, torn, cited, edits, crashes>>
    BY <1>1 DEF fileVars, boundVars
  <2>3. Types'
    BY <1>1, <2>1, <2>2 DEF MemoryInv, Types, StoreTypeOK
  <2>4. InvocationsInv'
    BY <2>1, <2>2, InvocationsKept
  <2>5. MarkersInv' /\ FiledInv' /\ PendingInv' /\ FilesInv' /\ SpentInv'
    BY <1>1, <2>1, <2>2 DEF MemoryInv, MarkersInv, FiledInv, PendingInv, FilesInv, SpentInv, Known, Capturing
  <2>6. ASSUME NEW q \in Procs, q # p PROVE ProcInv(q)'
    <3>1. pc'[q] = pc[q] /\ job'[q] = job[q] /\ (q \in window' <=> q \in window)
      BY <1>1, <2>1, <2>6 DEF MemoryInv, Types, Leave
    <3>2. /\ Op(q)' = Op(q) /\ Invocation(q)' = Invocation(q) /\ Subject(q)' = Subject(q)
          /\ Publication(q)' = Publication(q) /\ Note(q)' = Note(q)
          /\ Retiring(q)' = Retiring(q) /\ Record(q)' = Record(q) /\ Known(job[q])' = Known(job[q])
      BY <2>1, <3>1 DEF Op, Invocation, Subject, Publication, Note, Original, Retiring, Record, Recovering, Known
    <3>3. (~Mentioned(Retiring(q).note))' = ~Mentioned(Retiring(q).note)
      BY <2>1, <2>2, <3>2 DEF Mentioned
    <3>4. OpInv(q)' /\ EvidenceInv(q)'
      BY <1>1, <2>2, <3>1, <3>2 DEF MemoryInv, ProcInv, OpInv, EvidenceInv
    <3>5. LookInv(q)'
      BY <1>1, <2>2, <3>1, <3>2, <3>3 DEF MemoryInv, ProcInv, LookInv, ManifestExpected
    <3>6. QED
      BY <3>4, <3>5 DEF ProcInv
  <2>7. QED
    BY <2>1, <2>3, <2>4, <2>5, <2>6 DEF MemoryInv
<1>5. QED
  BY <1>3, <1>4


-----------------------------------------------------------------------------
(* Deaths.                                                                 *)
LEMMA TearTempFacts ==
  ASSUME MemoryInv, NEW p \in Procs, TearTemp(p)
  PROVE  \E f \in Files : /\ torn' = torn \cup {f} /\ f \notin temps /\ Known(f[2])
<1>1. PICK f \in {<<"journal", "journal">>, <<"stage", "source">>, <<"m-stage", "manifest">>,
                  <<"d-stage", "dispose">>, <<"q-record", "record">>, <<"q-stage", "retire">>} :
        LET e == IF f[2] \in {"source", "manifest"} THEN Subject(p) ELSE job[p]
        IN /\ pc[p] = f[1] /\ <<f[2], e>> \notin temps /\ torn' = torn \cup {<<f[2], e>>}
  BY DEF TearTemp, At
<1>2. pc[p] # "idle" /\ f[2] \in {"journal", "source", "manifest", "dispose", "record", "retire"}
      /\ (f[2] \in {"source", "manifest"} => pc[p] \in MarkedSteps)
  BY <1>1 DEF MarkedSteps
<1>3. Known(job[p]) /\ (pc[p] \in MarkedSteps => Op(p) \in {"capture", "recover"})
  BY <1>2 DEF MemoryInv, ProcInv, OpInv
<1>4. PICK e \in Effects : Known(e) /\ <<f[2], e>> \notin temps /\ torn' = torn \cup {<<f[2], e>>}
  <2>1. CASE f[2] \in {"source", "manifest"}
    <3>1. Subject(p) \in Effects /\ Known(Subject(p))
      BY <1>2, <1>3, <2>1, SubjectFacts DEF Capturing
    <3>2. QED
      BY <1>1, <2>1, <3>1
  <2>2. CASE f[2] \notin {"source", "manifest"}
    <3>1. job[p] \in Effects
      BY <1>3, KnownInvocation
    <3>2. QED
      BY <1>1, <1>3, <2>2, <3>1
  <2>3. QED
    BY <2>1, <2>2
<1>5. <<f[2], e>> \in Files /\ <<f[2], e>>[2] = e
  BY <1>2 DEF Files
<1>6. QED
  BY <1>4, <1>5

LEMMA DeathKeeps ==
  ASSUME MemoryInv, NEW p \in Procs, Death(p)
  PROVE  MemoryInv'
<1>1. /\ pc[p] \notin {"idle", "lock"} /\ Leave(p) /\ crashes' = crashes + 1 /\ crashes < MaxCrashes
      /\ UNCHANGED <<spent, notes, manifest, filed, pending, temps, cited, edits>>
      /\ \/ UNCHANGED <<attempts, results, torn, marker, filedTorn>>
         \/ Tear(p)
  BY DEF Death
<1>2. /\ lock = p /\ HolderInv' /\ issued' = issued /\ pc' = [pc EXCEPT ![p] = "idle"]
      /\ \A q \in Procs : q # p => job'[q] = job[q]
      /\ pc' \in [Procs -> Steps] /\ job' \in [Procs -> Effects \cup {None}]
      /\ window' \subseteq Procs /\ ProcInv(p)'
  BY <1>1, HolderLeaves
<1>3. Known(job[p]) /\ job[p] \in Effects
  BY <1>1, KnownInvocation DEF MemoryInv, ProcInv, OpInv
<1>4. crashes' \in 0 .. MaxCrashes
  BY <1>1, MemoryAssumption DEF MemoryInv, Types
<1>5. \E e \in Effects :
         \/ UNCHANGED attempts
         \/ attempts[e] = Absent /\ attempts' = [attempts EXCEPT ![e] = Torn]
  BY <1>1, <1>3 DEF Tear, TearAttempt, CanAdmit, TearResult
<1>6. \/ UNCHANGED results
      \/ \E e \in Effects \cup {None} : results' = [results EXCEPT ![e] = Torn]
  <2>1. CASE UNCHANGED results
    BY <2>1
  <2>2. CASE ~UNCHANGED results
    <3>1. results' = [results EXCEPT ![Committing(p)] = Torn]
      BY <1>1, <2>2 DEF Tear, TearAttempt, TearResult
    <3>2. CASE Committing(p) \in Effects
      BY <3>1, <3>2
    <3>3. CASE Committing(p) \notin Effects
      BY <2>2, <3>1, <3>3 DEF MemoryInv, Types, StoreTypeOK
    <3>4. QED
      BY <3>2, <3>3
  <2>3. QED
    BY <2>1, <2>2
<1>7. \/ UNCHANGED marker
      \/ /\ pc[p] = "mark" /\ marker[Note(p)] = Absent /\ marker' = [marker EXCEPT ![Note(p)] = Torn]
  <2>1. CASE UNCHANGED marker
    BY <2>1
  <2>2. CASE ~UNCHANGED marker
    <3>1. pc[p] = "mark" /\ May(p) /\ marker' = [marker EXCEPT ![Note(p)] = Torn]
      BY <1>1, <2>2 DEF Tear, At
    <3>2. MayPublish(p) \/ MayDispose(p) \/ MayRetire(p)
      BY <3>1 DEF May, At
    <3>3. ~MayDispose(p)
      BY <3>1 DEF MayDispose, At
    <3>4. ~MayRetire(p)
      BY <3>1 DEF MayRetire, At
    <3>5. MayPublish(p) => marker[Note(p)] = Absent
      BY <3>1 DEF MayPublish, At, Note
    <3>6. QED
      BY <3>1, <3>2, <3>3, <3>4, <3>5
  <2>3. QED
    BY <2>1, <2>2
<1>8. torn \subseteq torn' /\ torn' \subseteq Files /\ \A f \in torn' \ torn : f \notin temps /\ Known(f[2])
  BY <1>1, TearTempFacts DEF Tear, MemoryInv, Types
<1>9. filedTorn' \subseteq Manifests
  <2>1. CASE pc[p] = "d-mark"
    <3>1. Op(p) = "dispose"
      BY <2>1 DEF MemoryInv, ProcInv, OpInv
    <3>2. Invocation(p) \in Disposals
      BY <1>3, <3>1, KnownInvocation, Fields DEF Op, Invocation
    <3>3. Invocation(p).post \in Manifests
      BY <3>2 DEF Disposals, Images, Manifests
    <3>4. QED
      BY <1>1, <3>3 DEF Tear, MemoryInv, Types
  <2>2. CASE pc[p] # "d-mark"
    BY <1>1, <2>2 DEF Tear, At, MemoryInv, Types
  <2>3. QED
    BY <2>1, <2>2
<1>10. PICK e \in Effects :
          \/ UNCHANGED attempts
          \/ attempts[e] = Absent /\ attempts' = [attempts EXCEPT ![e] = Torn]
  BY <1>5
<1>11. /\ attempts' \in [Effects -> {Absent, Torn, Admitted}]
       /\ \A x \in Effects : attempts[x] = Admitted <=> attempts'[x] = Admitted
  BY <1>10, StoreAssumption DEF MemoryInv, Types, StoreTypeOK
<1>12. /\ results' \in [Effects -> Outcomes \cup {Absent, Torn}]
       /\ \A x \in Effects : results[x] # Absent => results'[x] # Absent
  BY <1>6, StoreAssumption DEF MemoryInv, Types, StoreTypeOK
<1>13. /\ marker' \in [Notes -> Effects \cup {Absent, Torn}]
       /\ \A n \in Notes : marker'[n] = marker[n] \/ (marker[n] = Absent /\ marker'[n] = Torn)
  BY <1>7 DEF MemoryInv, Types
<1>14. Types'
  BY <1>1, <1>2, <1>4, <1>8, <1>9, <1>11, <1>12, <1>13 DEF MemoryInv, Types, StoreTypeOK
<1>15. InvocationsInv'
  BY <1>2, <1>8, InvocationsKept
<1>16. MarkersInv'
  <2>1. \A n \in Notes : marker[n] \notin {Absent, Torn} => marker[n] \in Effects
    BY DEF MemoryInv, Types
  <2>2. QED
    BY <1>2, <1>11, <1>13, <2>1 DEF MemoryInv, MarkersInv, Known, Capturing
<1>17. FiledInv' /\ PendingInv'
  <2>1. filed \subseteq Effects /\ (pending # None => pending.of \in Effects)
    BY DEF MemoryInv, Types, Records
  <2>2. QED
    BY <1>1, <1>2, <1>11, <2>1 DEF MemoryInv, FiledInv, PendingInv, Known
<1>18. FilesInv'
  BY <1>1, <1>2, <1>8 DEF MemoryInv, FilesInv, Known
<1>19. SpentInv'
  <2>1. ASSUME NEW x \in spent
        PROVE  /\ Known(x)
               /\ \/ attempts'[x] = Admitted /\ results'[x] # Absent
                  \/ /\ attempts'[x] # Admitted /\ issued[x].op = "capture"
                     /\ Known(marker'[issued[x].note]) /\ marker'[issued[x].note] > x
    <3>1. x \in Effects /\ Known(x)
      BY DEF MemoryInv, Types, SpentInv
    <3>2. issued[x].op = "capture" => issued[x].note \in Notes
      BY <3>1, KnownInvocation, Fields DEF Captures
    <3>3. ~Known(Absent)
      BY KnownInvocation, MemoryMarksAssumption
    <3>4. QED
      BY <1>11, <1>12, <1>13, <3>1, <3>2, <3>3 DEF MemoryInv, SpentInv
  <2>2. QED
    BY <1>1, <1>2, <2>1 DEF SpentInv, Known
<1>20. QED
  BY <1>2, <1>14, <1>15, <1>16, <1>17, <1>18, <1>19, HolderStep

-----------------------------------------------------------------------------
(* What others edit is looked at again by whoever has not looked for the   *)
(* last time.                                                              *)
LEMMA RowFacts ==
  ASSUME NEW m \in Manifests, NEW n \in Notes, NEW row \in Declarations \cup {None}
  PROVE  /\ Row(m, n) \in Declarations \cup {None}
         /\ WithRow(m, n, row) \in Images /\ WithRow(m, n, row) \in Manifests
         /\ WithRow(m, n, row)[n] = row /\ WithRow(m, n, row) # Absent
         /\ \A x \in Notes \ {n} : Row(WithRow(m, n, row), x) = Row(m, x)
<1>1. \A x \in Notes : Row(m, x) \in Declarations \cup {None}
  BY DEF Row, Manifests
<1>2. WithRow(m, n, row) \in Images /\ WithRow(m, n, row)[n] = row
      /\ \A x \in Notes \ {n} : WithRow(m, n, row)[x] = Row(m, x)
  BY <1>1 DEF WithRow, Images
<1>3. WithRow(m, n, row) # Absent
  BY <1>2, MemoryMarksAssumption DEF Images
<1>4. QED
  BY <1>1, <1>2, <1>3 DEF Row, Manifests, Images

LEMMA EditKeeps ==
  ASSUME MemoryInv, NEW n \in Notes, Edit(n)
  PROVE  MemoryInv'
<1>1. /\ edits < MaxEdits /\ edits' = edits + 1 /\ window' = window \cup Exposed
      /\ UNCHANGED <<attempts, results, spent, marker, filed, filedTorn, pending, temps, torn,
                     issued, lock, pc, job, crashes>>
  BY DEF Edit
<1>2. /\ notes' \in [Notes -> Contents \cup {Absent}]
      /\ manifest' \in Manifests /\ cited' \subseteq Notes
  BY RowFacts DEF Edit, MemoryInv, Types
<1>3. edits \in Nat /\ edits' # 0 /\ edits' \in 0 .. MaxEdits
  BY <1>1, MemoryAssumption DEF MemoryInv, Types
<1>4. Types'
  BY <1>1, <1>2, <1>3 DEF MemoryInv, Types, StoreTypeOK, Exposed
<1>5. HolderInv' /\ MarkersInv' /\ FiledInv' /\ PendingInv' /\ FilesInv' /\ SpentInv'
  BY <1>1 DEF MemoryInv, HolderInv, MarkersInv, FiledInv, PendingInv, FilesInv, SpentInv, Known, Capturing
<1>6. InvocationsInv'
  BY <1>1, InvocationsKept
<1>7. ASSUME NEW p \in Procs PROVE ProcInv(p)'
  <2>1. OpInv(p)' /\ EvidenceInv(p)'
    <3>1. /\ Op(p)' = Op(p) /\ Invocation(p)' = Invocation(p) /\ Subject(p)' = Subject(p)
          /\ Publication(p)' = Publication(p) /\ Note(p)' = Note(p) /\ Record(p)' = Record(p)
          /\ Known(job[p])' = Known(job[p])
      BY <1>1, SameInvocation DEF Known
    <3>2. QED
      BY <1>1, <3>1 DEF MemoryInv, ProcInv, OpInv, EvidenceInv
  <2>2. LookInv(p)'
    BY <1>1, <1>3 DEF LookInv, Exposed
  <2>3. QED
    BY <2>1, <2>2 DEF ProcInv
<1>8. QED
  BY <1>4, <1>5, <1>6, <1>7 DEF MemoryInv


-----------------------------------------------------------------------------
(* What a view lists says what is so of the state it lists it in.          *)
LEMMA RetainedFacts ==
  ASSUME MemoryInv, NEW n \in Notes, Retained(n) # None
  PROVE  /\ Retained(n) = marker[n] /\ Capturing(marker[n]) /\ marker[n] \in Effects /\ marker[n] \in Nat
         /\ issued[marker[n]].note = n /\ Issued(issued[marker[n]])
         /\ marker[n] < Len(issued) + 1
<1>1. Retained(n) = marker[n] /\ Capturing(marker[n]) /\ issued[marker[n]].note = n
  BY DEF Retained, MemoryInv, MarkersInv
<1>2. QED
  BY <1>1, KnownInvocation DEF Capturing, Known, Issued, MemoryInv, Types

LEMMA ProposalSound ==
  ASSUME MemoryInv, NEW n \in Notes, NEW c \in Contents, NEW t \in Tasks, NewNote(n) \/ Revisable(n)
  PROVE  Proposal(n, c, t) \in Captures /\ Sound(Len(issued) + 1, Proposal(n, c, t))
<1> DEFINE row == IF Row(manifest, n) = None THEN Declaration(c) ELSE [Row(manifest, n) EXCEPT !.cues = c]
           i == Proposal(n, c, t)
           old == IF notes[n] = Absent THEN None ELSE Retained(n)
<1>1. row \in Declarations /\ row # None
  <2>1. Row(manifest, n) \in Declarations \cup {None}
    BY DEF MemoryInv, Types, Manifests, Row
  <2>2. CASE Row(manifest, n) = None
    BY <2>2, MemoryMarksAssumption DEF Declaration, Declarations
  <2>3. CASE Row(manifest, n) # None
    <3>1. row = [Row(manifest, n) EXCEPT !.cues = c]
      BY <2>3
    <3>2. row \in Declarations
      BY <2>1, <2>3, <3>1 DEF Declarations
    <3>3. QED
      BY <3>2, MemoryMarksAssumption
  <2>4. QED
    BY <2>2, <2>3
<1>2. i = [op |-> "capture", note |-> n, content |-> c, source_before |-> notes[n], before |-> manifest,
           replaces |-> old, post |-> WithRow(manifest, n, row), task |-> t]
  BY DEF Proposal
<1>3. old # None => old = Retained(n)
  OBVIOUS
<1>4. old \in Effects \cup {None}
  BY RetainedFacts
<1> HIDE DEF row, i, old
<1>5. /\ WithRow(manifest, n, row) \in Images /\ WithRow(manifest, n, row)[n] = row
      /\ \A x \in Notes \ {n} : Row(WithRow(manifest, n, row), x) = Row(manifest, x)
  BY <1>1, RowFacts DEF MemoryInv, Types
<1>6. i \in Captures
  BY <1>2, <1>4, <1>5 DEF Captures, MemoryInv, Types
<1>7. OwnRow(i) /\ i.post[i.note] # None
  BY <1>1, <1>2, <1>5 DEF OwnRow
<1>8. i.replaces # None =>
        i.replaces < Len(issued) + 1 /\ Capturing(i.replaces) /\ issued[i.replaces].note = i.note
  BY <1>2, <1>3, RetainedFacts
<1>9. Sound(Len(issued) + 1, i)
  BY <1>2, <1>7, <1>8 DEF Sound
<1>10. QED
  BY <1>6, <1>9 DEF i

LEMMA SelectedType ==
  ASSUME MemoryInv
  PROVE  Selected \in Selections
<1> DEFINE S == {x \in Notes : notes[x] # Absent /\ Row(manifest, x) # None}
<1>1. Selected \in [S -> Contents]
  BY DEF Selected, MemoryInv, Types
<1>2. S \in SUBSET Notes
  OBVIOUS
<1>3. QED
  BY <1>1, <1>2 DEF Selections

LEMMA DisposalSound ==
  ASSUME MemoryInv, NEW n \in Notes, NEW t \in Tasks, Disposable(n)
  PROVE  Disposal(n, t) \in Disposals /\ Sound(Len(issued) + 1, Disposal(n, t))
<1> DEFINE row == [manifest[n] EXCEPT !.status = "retire"]
           i == Disposal(n, t)
<1>1. Row(manifest, n) # None
  BY DEF Disposable, Selected
<1>2. manifest # Absent /\ manifest[n] \in Declarations
  BY <1>1 DEF Row, MemoryInv, Types, Manifests
<1>3. row \in Declarations
  BY <1>2 DEF Declarations
<1>4. i = [op |-> "dispose", note |-> n, sources |-> Selected, before |-> manifest,
           post |-> WithRow(manifest, n, row), task |-> t]
  BY DEF Disposal
<1> HIDE DEF row, i
<1>5. /\ WithRow(manifest, n, row) \in Images
      /\ \A x \in Notes \ {n} : Row(WithRow(manifest, n, row), x) = Row(manifest, x)
  BY <1>3, RowFacts DEF MemoryInv, Types
<1>6. i \in Disposals
  BY <1>4, <1>5, SelectedType DEF Disposals, MemoryInv, Types
<1>7. Sound(Len(issued) + 1, i)
  BY <1>4, <1>5 DEF Sound, OwnRow
<1>8. QED
  BY <1>6, <1>7 DEF i

LEMMA GuardType ==
  ASSUME MemoryInv, NEW n \in Notes
  PROVE  Guard(n) \in Guards
<1> DEFINE others == [m \in Notes \ {n} |-> notes[m]]
<1>1. others \in [Notes \ {n} -> Contents \cup {Absent}]
  BY DEF MemoryInv, Types
<1>2. others \in UNION {[Notes \ {x} -> Contents \cup {Absent}] : x \in Notes}
  BY <1>1
<1>3. {f \in temps \cup torn : f[1] \in InMemory} \in SUBSET Files /\ cited \in SUBSET Notes
  BY DEF MemoryInv, Types
<1>4. QED
  BY <1>2, <1>3 DEF Guard, Guards

LEMMA RetirementSound ==
  ASSUME MemoryInv, NEW n \in Notes, NEW t \in Tasks, Retirable(n)
  PROVE  Retirement(n, t) \in Retirements /\ Sound(Len(issued) + 1, Retirement(n, t))
<1> DEFINE i == Retirement(n, t)
<1>1. i = [op |-> "retire", note |-> n, content |-> notes[n], before |-> manifest,
           post |-> WithRow(manifest, n, None), guard |-> Guard(n), task |-> t]
  BY DEF Retirement
<1> HIDE DEF i
<1>2. /\ WithRow(manifest, n, None) \in Images /\ WithRow(manifest, n, None)[n] = None
      /\ \A x \in Notes \ {n} : Row(WithRow(manifest, n, None), x) = Row(manifest, x)
  BY RowFacts DEF MemoryInv, Types
<1>3. notes[n] \in Contents /\ ~Mentioned(n)
  BY DEF Retirable, MemoryInv, Types
<1>4. i \in Retirements
  BY <1>1, <1>2, <1>3, GuardType DEF Retirements, MemoryInv, Types
<1>5. /\ i.guard.cited = cited
      /\ i.guard.files = {f \in temps \cup torn : f[1] \in InMemory}
  BY <1>1 DEF Guard
<1>6. ASSUME NEW f \in i.guard.files
      PROVE  Known(f[2]) /\ (f[1] \in Declaring => f \in torn \/ issued[f[2]].post[n] = None)
  BY <1>3, <1>5 DEF Mentioned, Declaring, MemoryInv, FilesInv
<1>7. Sound(Len(issued) + 1, i)
  BY <1>1, <1>2, <1>3, <1>5, <1>6 DEF Sound, OwnRow, Mentioned
<1>8. QED
  BY <1>4, <1>7 DEF i

LEMMA RequestsSound ==
  ASSUME MemoryInv, NEW n \in Notes, NEW t \in Tasks, NEW i \in Requests(n, t)
  PROVE  i \in Invocations /\ (Issued(i) \/ Sound(Len(issued) + 1, i))
<1>1. CASE i \in PublicationRequests(n, t)
  <2>1. \/ (NewNote(n) \/ Revisable(n)) /\ \E c \in Contents : i = Proposal(n, c, t)
        \/ Retained(n) # None /\ i = issued[marker[n]]
        \/ Retained(n) # None /\ i = Recovery(marker[n], t)
    BY <1>1 DEF PublicationRequests
  <2>2. CASE (NewNote(n) \/ Revisable(n)) /\ \E c \in Contents : i = Proposal(n, c, t)
    BY <2>2, ProposalSound DEF Invocations
  <2>3. CASE Retained(n) # None /\ i = issued[marker[n]]
    BY <2>3, RetainedFacts, KnownInvocation DEF Capturing
  <2>4. CASE Retained(n) # None /\ i = Recovery(marker[n], t)
    <3>1. i = [op |-> "recover", of |-> marker[n], task |-> t]
      BY <2>4 DEF Recovery
    <3>2. marker[n] \in Effects /\ Capturing(marker[n])
      BY <2>4, RetainedFacts
    <3>3. QED
      BY <3>1, <3>2 DEF Invocations, Recoveries, Sound
  <2>5. QED
    BY <2>1, <2>2, <2>3, <2>4
<1>2. CASE i \in DisposalRequests(n, t)
  <2>1. \/ Disposable(n) /\ i = Disposal(n, t)
        \/ \E e \in filed : i = DisposalRecovery(e, t)
    BY <1>2 DEF DisposalRequests, Filed
  <2>2. CASE Disposable(n) /\ i = Disposal(n, t)
    BY <2>2, DisposalSound DEF Invocations
  <2>3. CASE \E e \in filed : i = DisposalRecovery(e, t)
    <3>1. PICK e \in filed : i = [op |-> "recover-disposition", of |-> e, sources |-> Selected, task |-> t]
      BY <2>3 DEF DisposalRecovery
    <3>2. e \in Effects /\ Known(e) /\ issued[e].op = "dispose"
      BY DEF MemoryInv, Types, FiledInv
    <3>3. QED
      BY <3>1, <3>2, SelectedType DEF Invocations, DisposalRecoveries, Sound
  <2>4. QED
    BY <2>1, <2>2, <2>3
<1>3. CASE i \in RetirementRequests(n, t)
  <2>1. \/ Retirable(n) /\ i = Retirement(n, t)
        \/ pending # None /\ i = RetirementRecovery(pending, t)
    BY <1>3 DEF RetirementRequests
  <2>2. CASE Retirable(n) /\ i = Retirement(n, t)
    BY <2>2, RetirementSound DEF Invocations
  <2>3. CASE pending # None /\ i = RetirementRecovery(pending, t)
    <3>1. i = [op |-> "recover-retirement", record |-> pending, task |-> t]
      BY <2>3 DEF RetirementRecovery
    <3>2. pending \in Records /\ Known(pending.of) /\ issued[pending.of].op = "retire"
      BY <2>3 DEF MemoryInv, Types, PendingInv
    <3>3. QED
      BY <3>1, <3>2 DEF Invocations, RetirementRecoveries, Sound
  <2>4. QED
    BY <2>1, <2>2, <2>3
<1>4. QED
  BY <1>1, <1>2, <1>3 DEF Requests


(* An invocation that is issued stays what it is.                          *)
LEMMA IssuedStays ==
  ASSUME MemoryInv, NEW i \in Invocations, issued' = Append(issued, i)
  PROVE  /\ issued' \in Seq(Invocations) /\ Len(issued') = Len(issued) + 1
         /\ issued'[Len(issued) + 1] = i
         /\ \A e : Known(e) => Known(e)' /\ issued'[e] = issued[e]
         /\ \A e : Capturing(e) => Capturing(e)'
BY DEF MemoryInv, Types, Known, Capturing

LEMMA SoundStays ==
  ASSUME MemoryInv, NEW i \in Invocations, issued' = Append(issued, i), torn' = torn,
         NEW e, NEW j, Sound(e, j)
  PROVE  Sound(e, j)'
<1>1. \A x : Known(x) => Known(x)' /\ issued'[x] = issued[x]
  BY IssuedStays
<1>2. \A x : Capturing(x) => Capturing(x)' /\ issued'[x] = issued[x]
  BY IssuedStays DEF Capturing
<1>3. OwnRow(j) => OwnRow(j)'
  BY DEF OwnRow, Row
<1> DEFINE files == \A f \in j.guard.files :
                      Known(f[2]) /\ (f[1] \in Declaring => f \in torn \/ issued[f[2]].post[j.note] = None)
<1>4. files => files'
  BY <1>1
<1>5. j.op = "retire" => files /\ OwnRow(j) /\ j.post[j.note] = None /\ j.note \notin j.guard.cited
  BY DEF Sound
<1>6. j.op = "retire" => files' /\ OwnRow(j)' /\ j.post[j.note] = None /\ j.note \notin j.guard.cited
  BY <1>3, <1>4, <1>5
<1>7. j.op = "capture" => /\ OwnRow(j)' /\ j.post[j.note] # None
                          /\ j.replaces # None =>
                                j.replaces < e /\ Capturing(j.replaces)' /\ issued'[j.replaces].note = j.note
  BY <1>2, <1>3 DEF Sound
<1>8. j.op = "recover" => Capturing(j.of)'
  BY <1>2 DEF Sound
<1>9. j.op = "dispose" => OwnRow(j)'
  BY <1>3 DEF Sound
<1>10. /\ j.op = "recover-disposition" => Known(j.of)' /\ issued'[j.of].op = "dispose"
       /\ j.op = "recover-retirement" => Known(j.record.of)' /\ issued'[j.record.of].op = "retire"
  BY <1>1 DEF Sound
<1>11. QED
  BY <1>6, <1>7, <1>8, <1>9, <1>10 DEF Sound

LEMMA NewInvocation ==
  ASSUME MemoryInv, NEW i \in Invocations, issued' = Append(issued, i), torn' = torn,
         Sound(Len(issued) + 1, i)
  PROVE  InvocationsInv'
<1>1. ASSUME NEW e \in 1 .. Len(issued') PROVE InvocationInv(e)'
  <2>1. PICK j : j = issued'[e]
    OBVIOUS
  <2>2. Sound(e, j)
    <3>1. CASE e = Len(issued) + 1
      BY <2>1, <3>1, IssuedStays
    <3>2. CASE e # Len(issued) + 1
      <4>1. Known(e)
        BY <3>2, IssuedStays DEF Known, MemoryInv, Types
      <4>2. j = issued[e] /\ InvocationInv(e)
        BY <2>1, <4>1, IssuedStays, KnownInvocation
      <4>3. QED
        BY <4>2 DEF InvocationInv
    <3>3. QED
      BY <3>1, <3>2
  <2>3. Sound(e, j)'
    BY <2>2, SoundStays
  <2>4. QED
    BY <2>1, <2>3 DEF InvocationInv, Sound, OwnRow
<1>2. QED
  BY <1>1 DEF InvocationsInv


(* A process relies on its own invocation and the one it is about.         *)
LEMMA ProcStays ==
  ASSUME MemoryInv, NEW i \in Invocations, issued' = Append(issued, i), NEW q \in Procs,
         UNCHANGED <<diskVars, boundVars, window>>, pc'[q] = pc[q], job'[q] = job[q]
  PROVE  ProcInv(q)'
<1> USE DEF diskVars, fileVars, boundVars
<1>1. CASE pc[q] = "idle"
  BY <1>1 DEF ProcInv, OpInv, EvidenceInv, LookInv, MarkedSteps, FiledSteps, RecordedSteps, RetireSteps
<1>2. CASE pc[q] # "idle"
  <2>1. Known(job[q]) /\ Known(job[q])' /\ Invocation(q)' = Invocation(q) /\ Op(q)' = Op(q)
    <3>1. Known(job[q])
      BY <1>2 DEF MemoryInv, ProcInv, OpInv
    <3>2. issued'[job[q]] = issued[job[q]] /\ job[q] \in 1 .. Len(issued')
      BY <3>1, IssuedStays DEF Known
    <3>3. QED
      BY <3>1, <3>2 DEF Invocation, Op, Known
  <2>2. Subject(q)' = Subject(q) /\ Recovering(q)' = Recovering(q) /\ Original(q)' = Original(q)
        /\ Record(q)' = Record(q)
    BY <2>1 DEF Subject, Recovering, Original, Record
  <2>3. Op(q) \in {"capture", "recover"} => Publication(q)' = Publication(q) /\ Note(q)' = Note(q)
    <3>1. Op(q) \in {"capture", "recover"} => issued'[Subject(q)] = issued[Subject(q)]
      BY <2>1, SubjectFacts, IssuedStays DEF Capturing
    <3>2. QED
      BY <2>2, <3>1 DEF Publication, Note
  <2>4. Op(q) \in {"retire", "recover-retirement"} => Retiring(q)' = Retiring(q)
    <3>1. Op(q) \in {"retire", "recover-retirement"} => issued'[Original(q)] = issued[Original(q)]
      BY <2>1, RetiringFacts, IssuedStays
    <3>2. QED
      BY <2>2, <3>1 DEF Retiring
  <2>5. /\ pc[q] \in MarkedSteps => Op(q) \in {"capture", "recover"}
        /\ pc[q] \in RetireSteps => Op(q) \in {"retire", "recover-retirement"}
        /\ OpInv(q) /\ EvidenceInv(q) /\ LookInv(q)
    BY DEF MemoryInv, ProcInv, OpInv
  <2>6. OpInv(q)'
    BY <2>1, <2>3, <2>5 DEF OpInv
  <2>7. EvidenceInv(q)'
    BY <2>1, <2>2, <2>3, <2>5 DEF EvidenceInv, MarkedSteps
  <2>8. pc[q] = "q-unlink" => (Mentioned(Retiring(q).note)' <=> Mentioned(Retiring(q).note))
    <3>1. \A f \in temps : issued'[f[2]] = issued[f[2]]
      BY IssuedStays DEF MemoryInv, FilesInv
    <3>2. pc[q] = "q-unlink" => Retiring(q)' = Retiring(q)
      BY <2>4, <2>5 DEF RetireSteps, RecordedSteps
    <3>3. QED
      BY <3>1, <3>2 DEF Mentioned
  <2>9. LookInv(q)'
    BY <2>1, <2>3, <2>4, <2>5, <2>8 DEF LookInv, MarkedSteps, RetireSteps, RecordedSteps, ManifestExpected
  <2>10. QED
    BY <2>6, <2>7, <2>9 DEF ProcInv
<1>3. QED
  BY <1>1, <1>2

LEMMA BeginKeeps ==
  ASSUME MemoryInv, NEW p \in Procs, NEW n \in Notes, NEW t \in Tasks, NEW i \in Requests(n, t), Begin(p, i)
  PROVE  MemoryInv'
<1>0. PICK e : e = Slot(i)
  OBVIOUS
<1>1. /\ pc[p] = "idle" /\ e \in Effects
      /\ issued' = IF Issued(i) THEN issued ELSE Append(issued, i)
      /\ pc' = [pc EXCEPT ![p] = "lock"] /\ job' = [job EXCEPT ![p] = e]
      /\ UNCHANGED <<diskVars, lock, window, boundVars>>
  BY <1>0 DEF Begin, At
<1>2. i \in Invocations /\ (Issued(i) \/ Sound(Len(issued) + 1, i))
  BY RequestsSound
<1>3. /\ Issued(i) => Known(e)
      /\ ~Issued(i) => e = Len(issued) + 1
  BY <1>0 DEF Slot, Issued, Known
<1>4. UNCHANGED <<attempts, results, spent, notes, manifest, marker, filed, filedTorn, pending, temps, torn,
                  cited, edits, crashes, lock, window>>
  BY <1>1 DEF diskVars, fileVars, boundVars
<1>5. /\ pc' \in [Procs -> Steps] /\ job' \in [Procs -> Effects \cup {None}]
      /\ pc'[p] = "lock" /\ job'[p] = e
      /\ \A q \in Procs : q # p => pc'[q] = pc[q] /\ job'[q] = job[q]
  BY <1>1 DEF MemoryInv, Types, Steps
<1>6. HolderInv'
  BY <1>1, <1>4, <1>5, MemoryAssumption DEF MemoryInv, HolderInv
<1>7. /\ issued' \in Seq(Invocations) /\ Len(issued') <= MaxCalls
      /\ Known(e)' /\ InvocationsInv'
      /\ \A x : Known(x) => Known(x)' /\ issued'[x] = issued[x]
  <2>1. CASE Issued(i)
    <3>1. issued' = issued
      BY <1>1, <2>1
    <3>2. InvocationsInv'
      BY <1>4, <3>1, InvocationsKept
    <3>3. QED
      BY <1>3, <2>1, <3>1, <3>2 DEF MemoryInv, Types, Known
  <2>2. CASE ~Issued(i)
    <3>1. issued' = Append(issued, i)
      BY <1>1, <2>2
    <3>2. Len(issued) + 1 <= MaxCalls /\ Len(issued) \in Nat
      BY <1>1, <1>3, <2>2, MemoryAssumption DEF MemoryInv, Types
    <3>3. InvocationsInv'
      BY <1>2, <1>4, <2>2, <3>1, NewInvocation
    <3>4. e \in 1 .. Len(issued')
      BY <1>2, <1>3, <2>2, <3>1, <3>2, IssuedStays
    <3>5. QED
      BY <1>2, <3>1, <3>2, <3>3, <3>4, IssuedStays DEF Known
  <2>3. QED
    BY <2>1, <2>2
<1>8. \A x : Capturing(x) => Capturing(x)' /\ issued'[x] = issued[x]
  BY <1>7 DEF Capturing
<1>9. Types'
  BY <1>4, <1>5, <1>7 DEF MemoryInv, Types, StoreTypeOK
<1>10. MarkersInv' /\ FiledInv' /\ PendingInv' /\ FilesInv'
  BY <1>4, <1>7, <1>8 DEF MemoryInv, MarkersInv, FiledInv, PendingInv, FilesInv
<1>11. SpentInv'
  BY <1>4, <1>7 DEF MemoryInv, SpentInv
<1>12. ASSUME NEW q \in Procs PROVE ProcInv(q)'
  <2>1. CASE q = p
    BY <1>5, <1>7, <2>1 DEF ProcInv, OpInv, EvidenceInv, LookInv, MarkedSteps, FiledSteps, RecordedSteps,
       RetireSteps, Known
  <2>2. CASE q # p /\ Issued(i)
    <3>1. issued' = issued /\ pc'[q] = pc[q] /\ job'[q] = job[q]
      BY <1>1, <1>5, <2>2
    <3>2. /\ Op(q)' = Op(q) /\ Invocation(q)' = Invocation(q) /\ Subject(q)' = Subject(q)
          /\ Publication(q)' = Publication(q) /\ Note(q)' = Note(q)
          /\ Retiring(q)' = Retiring(q) /\ Record(q)' = Record(q) /\ Known(job[q])' = Known(job[q])
      BY <3>1 DEF Op, Invocation, Subject, Publication, Note, Original, Retiring, Record, Recovering, Known
    <3>3. Mentioned(Retiring(q).note)' = Mentioned(Retiring(q).note)
      BY <1>4, <3>1, <3>2 DEF Mentioned
    <3>4. OpInv(q)' /\ EvidenceInv(q)'
      BY <1>4, <3>1, <3>2 DEF MemoryInv, ProcInv, OpInv, EvidenceInv
    <3>5. LookInv(q)'
      BY <1>4, <3>1, <3>2, <3>3 DEF MemoryInv, ProcInv, LookInv, ManifestExpected
    <3>6. QED
      BY <3>4, <3>5 DEF ProcInv
  <2>3. CASE q # p /\ ~Issued(i)
    BY <1>1, <1>2, <1>5, <2>3, ProcStays
  <2>4. QED
    BY <2>1, <2>2, <2>3
<1>13. QED
  BY <1>6, <1>7, <1>9, <1>10, <1>11, <1>12 DEF MemoryInv


-----------------------------------------------------------------------------
(* Nothing of the notes changes but the count of deaths.                   *)
LEMMA NotesStay ==
  ASSUME MemoryInv, UNCHANGED <<diskVars, issued, lock, pc, job, window, cited, edits>>,
         crashes' \in 0 .. MaxCrashes
  PROVE  MemoryInv'
<1>1. UNCHANGED <<attempts, results, spent, notes, manifest, marker, filed, filedTorn, pending, temps, torn,
                  issued, lock, pc, job, window, cited, edits>>
  BY DEF diskVars, fileVars
<1>2. Types' /\ HolderInv'
  BY <1>1 DEF MemoryInv, Types, StoreTypeOK, HolderInv
<1>3. InvocationsInv'
  BY <1>1, InvocationsKept
<1>4. MarkersInv' /\ FiledInv' /\ PendingInv' /\ FilesInv' /\ SpentInv'
  BY <1>1 DEF MemoryInv, MarkersInv, FiledInv, PendingInv, FilesInv, SpentInv, Known, Capturing
<1>5. ASSUME NEW q \in Procs PROVE ProcInv(q)'
  <2>1. /\ Op(q)' = Op(q) /\ Invocation(q)' = Invocation(q) /\ Subject(q)' = Subject(q)
        /\ Publication(q)' = Publication(q) /\ Note(q)' = Note(q)
        /\ Retiring(q)' = Retiring(q) /\ Record(q)' = Record(q) /\ Known(job[q])' = Known(job[q])
    BY <1>1, SameInvocation DEF Known
  <2>2. Mentioned(Retiring(q).note)' = Mentioned(Retiring(q).note)
    BY <1>1, <2>1 DEF Mentioned
  <2>3. OpInv(q)' /\ EvidenceInv(q)'
    BY <1>1, <2>1 DEF MemoryInv, ProcInv, OpInv, EvidenceInv
  <2>4. LookInv(q)'
    BY <1>1, <2>1, <2>2 DEF MemoryInv, ProcInv, LookInv, ManifestExpected
  <2>5. QED
    BY <2>3, <2>4 DEF ProcInv
<1>6. QED
  BY <1>2, <1>3, <1>4, <1>5 DEF MemoryInv

LEMMA PublishKeeps ==
  ASSUME MemoryInv, NEW p \in Procs, Publish(p)
  PROVE  MemoryInv'
BY JournalKeeps, MarkingKeeps, StageKeeps, BarrierKeeps, InstallKeeps, CheckRecoveryKeeps,
   StageManifestKeeps, BarrierManifestKeeps, InstallManifestKeeps, SettleKeeps, CleanKeeps DEF Publish

LEMMA DisposeKeeps ==
  ASSUME MemoryInv, NEW p \in Procs, Dispose(p)
  PROVE  MemoryInv'
BY FileDispositionKeeps, StageDispositionKeeps, BarrierDispositionKeeps, InstallDispositionKeeps,
   VerifyDispositionKeeps, CommitDispositionKeeps DEF Dispose

LEMMA RetireKeeps ==
  ASSUME MemoryInv, NEW p \in Procs, Retire(p)
  PROVE  MemoryInv'
BY WriteRecordKeeps, InstallRecordKeeps, StageRetirementKeeps, BarrierRetirementKeeps,
   InstallRetirementKeeps, VerifyRemovalKeeps, RemoveKeeps, CommitRetirementKeeps,
   CommitRetirementRecoveryKeeps, ClearRecordKeeps DEF Retire

LEMMA NextKeeps == MemoryInv /\ Next => MemoryInv'
<1> SUFFICES ASSUME MemoryInv, Next PROVE MemoryInv'
  OBVIOUS
<1>1. CASE \E n \in Notes : Edit(n)
  BY <1>1, EditKeeps
<1>2. CASE \E p \in Procs, n \in Notes, t \in Tasks : \E i \in Requests(n, t) : Begin(p, i)
  BY <1>2, BeginKeeps
<1>3. CASE \E p \in Procs : Proceed(p)
  BY <1>3, LockKeeps, AdmissionKeeps, PublishKeeps, DisposeKeeps, RetireKeeps, AnswerKeeps, RefuseKeeps,
     DeathKeeps DEF Proceed
<1>4. QED
  BY <1>1, <1>2, <1>3 DEF Next

LEMMA MemoryNextKeeps == MemoryInv /\ [MemoryNext]_<<vars, candidateVars>> => MemoryInv'
<1> SUFFICES ASSUME MemoryInv, [MemoryNext]_<<vars, candidateVars>> PROVE MemoryInv'
  OBVIOUS
<1>1. CASE Next
  BY <1>1, NextKeeps
<1>2. CASE UNCHANGED vars
  BY <1>2, NotesStay DEF vars, boundVars, MemoryInv, Types
<1>3. CASE \E p \in Procs :
              /\ DieInCandidates(p)
              /\ UNCHANGED <<diskVars, issued, lock, pc, job, window, cited, edits>>
  <2>1. crashes' \in 0 .. MaxCrashes
    BY <1>3, MemoryAssumption DEF DieInCandidates, MemoryInv, Types
  <2>2. QED
    BY <1>3, <2>1, NotesStay
<1>4. QED
  BY <1>1, <1>2, <1>3 DEF MemoryNext, OthersNext

(* Whatever is under way in Memory, the invariant holds between any two    *)
(* steps of its writers, of the deaths among them and of the editors.      *)
THEOREM MemoryInvariant == MemorySpec => []MemoryInv
<1>1. MemoryInit => MemoryInv
  BY InitInv DEF MemoryInit
<1>2. QED
  BY <1>1, MemoryNextKeeps, PTL DEF MemorySpec

(* The lock has one holder; a publication, a disposition or a retirement   *)
(* that a death interrupts is led to by its record, and what a record      *)
(* names has its attempt; a committed effect cannot be committed again.    *)
THEOREM MemoryStaysConsistent == MemorySpec => []MemoryConsistent
<1>1. MemoryInv => MemoryConsistent
  <2> SUFFICES ASSUME MemoryInv PROVE MemoryConsistent
    OBVIOUS
  <2>1. MemoryTypeOK
    <3>1. \A n \in Notes : marker[n] \in {Absent, Torn} \/ marker[n] \in 1 .. Len(issued)
      BY DEF MemoryInv, MarkersInv, Capturing, Known
    <3>2. pending # None => pending.of \in Effects /\ pending.recovery \in Effects \cup {None}
      BY DEF MemoryInv, Types, Records
    <3>3. QED
      BY <3>1, <3>2 DEF MemoryTypeOK, MemoryInv, Types, HolderInv, At
  <2>2. MemoryTraceable
    <3>1. ASSUME NEW p \in Procs
          PROVE  /\ pc[p] \in MarkedSteps => marker[Note(p)] = Subject(p)
                 /\ pc[p] \in FiledSteps => job[p] \in filed
                 /\ pc[p] \in RecordedSteps => pending = Record(p)
      BY DEF MemoryInv, ProcInv, EvidenceInv
    <3>2. \A n \in Notes : Retained(n) # None => attempts[marker[n]] = Admitted
      BY DEF MemoryInv, MarkersInv, Retained
    <3>3. QED
      BY <3>1, <3>2 DEF MemoryTraceable, MarkedSteps, FiledSteps, RecordedSteps, MemoryInv, FiledInv, PendingInv
  <2>3. SpentForEver
    BY DEF SpentForEver, MemoryInv, SpentInv
  <2>4. QED
    BY <2>1, <2>2, <2>3 DEF MemoryConsistent
<1>2. QED
  BY <1>1, MemoryInvariant, PTL

-----------------------------------------------------------------------------
(* A step of a call moves the call of that process alone.                  *)
LEMMA ProceedMoves ==
  ASSUME NEW p \in Procs, Proceed(p)
  PROVE  \E to : pc' = [pc EXCEPT ![p] = to]
<1>1. CASE (\E to : Continue(p, to)) \/ Leave(p)
  BY <1>1 DEF Continue, Leave
<1>2. CASE Publish(p)
  <2>1. (\E to : Continue(p, to)) \/ Leave(p)
    BY <1>2 DEF Publish, Journal, Swap, Mark, Stage, Barrier, Install, CheckRecovery, StageManifest,
       BarrierManifest, InstallManifest, Settle, Clean
  <2>2. QED
    BY <1>1, <2>1
<1>3. CASE Dispose(p)
  <2>1. \E to : Continue(p, to)
    BY <1>3 DEF Dispose, FileDisposition, StageDisposition, BarrierDisposition, InstallDisposition,
       VerifyDisposition, CommitDisposition
  <2>2. QED
    BY <1>1, <2>1
<1>4. CASE Retire(p)
  <2>1. (\E to : Continue(p, to)) \/ Leave(p)
    BY <1>4 DEF Retire, WriteRecord, InstallRecord, StageRetirement, BarrierRetirement, InstallRetirement,
       VerifyRemoval, Remove, CommitRetirement, CommitRetirementRecovery, ClearRecord
  <2>2. QED
    BY <1>1, <2>1
<1>5. CASE Lock(p)
  BY <1>5 DEF Lock
<1>6. CASE Admission(p) \/ Answer(p) \/ Refuse(p) \/ Death(p)
  BY <1>1, <1>6 DEF Admission, Answer, Refuse, Death
<1>7. QED
  BY <1>2, <1>3, <1>4, <1>5, <1>6 DEF Proceed

(* The call of a process that is not idle is moved by its own steps.       *)
LEMMA OwnStep ==
  ASSUME MemoryInv, [MemoryNext]_<<vars, candidateVars>>, NEW p \in Procs, pc[p] # "idle", pc'[p] # pc[p]
  PROVE  Proceed(p)
<1>1. Next
  BY DEF MemoryNext, OthersNext, vars
<1>2. ~\E n \in Notes : Edit(n)
  BY DEF Edit
<1>3. \A q \in Procs : \A i : ~Begin(q, i)
  BY DEF Begin, At, MemoryInv, Types
<1>4. PICK q \in Procs : Proceed(q)
  BY <1>1, <1>2, <1>3 DEF Next
<1>5. q = p
  BY <1>4, ProceedMoves DEF MemoryInv, Types
<1>6. QED
  BY <1>4, <1>5


(* Who has the manifest ready to install installs it or leaves.            *)
LEMMA InstallSteps ==
  ASSUME NEW p \in Procs, Proceed(p), pc[p] \in {"m-install", "d-install", "q-install"}
  PROVE  \/ Leave(p)
         \/ pc[p] = "m-install" /\ manifest' = Publication(p).post
         \/ pc[p] = "d-install" /\ manifest' = Invocation(p).post
         \/ pc[p] = "q-install" /\ manifest' = Retiring(p).post
<1>1. ~Lock(p) /\ ~Admission(p) /\ ~Answer(p)
  BY DEF Lock, Admission, Answer, At
<1>2. Publish(p) => pc[p] = "m-install" /\ manifest' = Publication(p).post
  BY DEF Publish, Journal, Swap, Mark, Stage, Barrier, Install, CheckRecovery, StageManifest,
     BarrierManifest, InstallManifest, Settle, Clean, At
<1>3. Dispose(p) => pc[p] = "d-install" /\ manifest' = Invocation(p).post
  BY DEF Dispose, FileDisposition, StageDisposition, BarrierDisposition, InstallDisposition,
     VerifyDisposition, CommitDisposition, At
<1>4. Retire(p) => pc[p] = "q-install" /\ manifest' = Retiring(p).post
  BY DEF Retire, WriteRecord, InstallRecord, StageRetirement, BarrierRetirement, InstallRetirement,
     VerifyRemoval, Remove, CommitRetirement, CommitRetirementRecovery, ClearRecord, At
<1>5. QED
  BY <1>1, <1>2, <1>3, <1>4 DEF Proceed, Refuse, Death

(* The postimage of a write differs from its preimage in its own row.      *)
LEMMA OwnRowAlone ==
  ASSUME NEW i, OwnRow(i), manifest \in {i.before, i.post}, manifest' = i.post
  PROVE  \A n \in Notes \ {i.note} : Row(manifest', n) = Row(manifest, n)
BY DEF OwnRow

(* The manifest is one file for every note: whoever replaces it whole      *)
(* changes the declaration of its own note only, unless somebody edited it *)
(* after the last look.                                                    *)
THEOREM SiblingsStay == MemorySpec => SiblingsKept
<1> DEFINE Own(p) == CASE At(p, "m-install") -> Note(p)
                       [] At(p, "d-install") -> Invocation(p).note
                       [] At(p, "q-install") -> Retiring(p).note
           Kept == \A p \in Procs :
                      /\ pc[p] \in {"m-install", "d-install", "q-install"}
                      /\ pc'[p] \in {"commit", "answer", "q-verify"}
                      /\ p \notin window
                      => \A n \in Notes \ {Own(p)} : Row(manifest', n) = Row(manifest, n)
<1>1. MemoryInv /\ [MemoryNext]_<<vars, candidateVars>> => Kept
  <2> SUFFICES ASSUME MemoryInv, [MemoryNext]_<<vars, candidateVars>>, NEW p \in Procs,
                      pc[p] \in {"m-install", "d-install", "q-install"},
                      pc'[p] \in {"commit", "answer", "q-verify"}, p \notin window
               PROVE  \A n \in Notes \ {Own(p)} : Row(manifest', n) = Row(manifest, n)
    OBVIOUS
  <2>1. /\ Proceed(p) /\ ~Leave(p) /\ Known(job[p])
        /\ OpInv(p) /\ LookInv(p)
    BY OwnStep DEF Leave, MemoryInv, Types, ProcInv, OpInv
  <2>2. PICK i : /\ OwnRow(i) /\ i.note = Own(p) /\ manifest' = i.post /\ manifest \in {i.before, i.post}
    <3>1. CASE pc[p] = "m-install"
      <4>1. Op(p) \in {"capture", "recover"} /\ manifest \in {Publication(p).before, Publication(p).post}
        BY <2>1, <3>1 DEF OpInv, LookInv, MarkedSteps, ManifestExpected
      <4>2. OwnRow(Publication(p))
        BY <2>1, <4>1, SubjectFacts DEF InvocationInv, Sound, Capturing
      <4>3. Own(p) = Publication(p).note
        BY <3>1 DEF Note, At
      <4>4. manifest' = Publication(p).post
        BY <2>1, <3>1, InstallSteps
      <4>5. QED
        BY <4>1, <4>2, <4>3, <4>4
    <3>2. CASE pc[p] = "d-install"
      <4>1. Op(p) = "dispose" /\ manifest = Invocation(p).before
        BY <2>1, <3>2 DEF OpInv, LookInv, FiledSteps
      <4>2. OwnRow(Invocation(p))
        BY <2>1, <4>1, KnownInvocation DEF InvocationInv, Sound, Op, Invocation
      <4>3. Own(p) = Invocation(p).note
        BY <3>2 DEF At
      <4>4. manifest' = Invocation(p).post
        BY <2>1, <3>2, InstallSteps
      <4>5. QED
        BY <4>1, <4>2, <4>3, <4>4
    <3>3. CASE pc[p] = "q-install"
      <4>1. Op(p) \in {"retire", "recover-retirement"} /\ manifest \in {Retiring(p).before, Retiring(p).post}
        BY <2>1, <3>3 DEF OpInv, LookInv, RetireSteps, RecordedSteps
      <4>2. OwnRow(Retiring(p))
        BY <2>1, <4>1, RetiringFacts DEF InvocationInv, Sound
      <4>3. Own(p) = Retiring(p).note
        BY <3>3 DEF At
      <4>4. manifest' = Retiring(p).post
        BY <2>1, <3>3, InstallSteps
      <4>5. QED
        BY <4>1, <4>2, <4>3, <4>4
    <3>4. QED
      BY <3>1, <3>2, <3>3
  <2>3. QED
    BY <2>2, OwnRowAlone
<1>2. MemoryInv /\ [MemoryNext]_<<vars, candidateVars>> => [Kept]_vars
  BY <1>1
<1>3. QED
  BY <1>2, MemoryInvariant, PTL DEF MemorySpec, SiblingsKept

(* Only a commitment makes an effect spent, and of a publication only its  *)
(* own or that of its recovery.                                            *)
LEMMA PublicationSettled ==
  ASSUME MemoryInv, NEW p \in Procs, Proceed(p), NEW e \in spent' \ spent, issued[e].op = "capture"
  PROVE  pc[p] = "commit" /\ e = Subject(p)
<1>1. CASE Publish(p)
  BY <1>1 DEF Publish, Journal, Swap, Mark, Stage, Barrier, Install, CheckRecovery, StageManifest,
     BarrierManifest, InstallManifest, Settle, Clean, At, diskVars, Finish
<1>2. CASE Dispose(p)
  <2>1. pc[p] = "d-original" /\ e = Invocation(p).of
    BY <1>2 DEF Dispose, FileDisposition, StageDisposition, BarrierDisposition, InstallDisposition,
       VerifyDisposition, CommitDisposition, At, diskVars, Finish
  <2>2. Known(job[p]) /\ Op(p) = "recover-disposition"
    BY <2>1 DEF MemoryInv, ProcInv, OpInv
  <2>3. issued[e].op = "dispose"
    BY <2>1, <2>2, KnownInvocation DEF InvocationInv, Sound, Op, Invocation
  <2>4. QED
    BY <2>3
<1>3. CASE Retire(p)
  <2>1. \/ pc[p] = "q-original" /\ e = Original(p)
        \/ pc[p] = "q-commit" /\ e = job[p]
    BY <1>3 DEF Retire, WriteRecord, InstallRecord, StageRetirement, BarrierRetirement, InstallRetirement,
       VerifyRemoval, Remove, CommitRetirement, CommitRetirementRecovery, ClearRecord, At, diskVars, Finish
  <2>2. CASE pc[p] = "q-original" /\ e = Original(p)
    <3>1. Known(job[p]) /\ Op(p) \in {"retire", "recover-retirement"}
      BY <2>2 DEF MemoryInv, ProcInv, OpInv, RetireSteps, RecordedSteps
    <3>2. QED
      BY <2>2, <3>1, RetiringFacts
  <2>3. CASE pc[p] = "q-commit" /\ e = job[p]
    BY <2>3 DEF MemoryInv, ProcInv, OpInv, Op, Invocation
  <2>4. QED
    BY <2>1, <2>2, <2>3
<1>4. CASE Answer(p)
  BY <1>4 DEF Answer, Finish, At, MemoryInv, ProcInv, OpInv, Op, Invocation
<1>5. ~Lock(p) /\ ~Admission(p) /\ ~Refuse(p) /\ ~Death(p)
  BY DEF Lock, Admission, Refuse, Death, diskVars
<1>6. QED
  BY <1>1, <1>2, <1>3, <1>4, <1>5 DEF Proceed

(* A publication is committed when its note and its declaration are what   *)
(* was decided, unless they were edited after the last look.               *)
THEOREM CommitsAsDecided == MemorySpec => CommittedAsDecided
<1> DEFINE AsDecided == \A e \in spent' \ spent :
                           issued[e].op = "capture" /\ window = {} =>
                             notes[issued[e].note] = issued[e].content /\ DeclarationCurrent(issued[e])
<1>1. MemoryInv /\ [MemoryNext]_<<vars, candidateVars>> => AsDecided
  <2> SUFFICES ASSUME MemoryInv, [MemoryNext]_<<vars, candidateVars>>, NEW e \in spent' \ spent,
                      issued[e].op = "capture", window = {}
               PROVE  notes[issued[e].note] = issued[e].content /\ DeclarationCurrent(issued[e])
    OBVIOUS
  <2>1. \E p \in Procs : Proceed(p)
    <3>1. Next
      BY DEF MemoryNext, OthersNext, vars, diskVars
    <3>2. ~\E n \in Notes : Edit(n)
      BY DEF Edit
    <3>3. \A q \in Procs : \A i : ~Begin(q, i)
      BY DEF Begin, diskVars
    <3>4. QED
      BY <3>1, <3>2, <3>3 DEF Next
  <2>2. PICK p \in Procs : Proceed(p)
    BY <2>1
  <2>3. pc[p] = "commit" /\ e = Subject(p)
    BY <2>2, PublicationSettled
  <2>4. Known(job[p]) /\ Op(p) \in {"capture", "recover"} /\ LookInv(p)
    BY <2>3 DEF MemoryInv, ProcInv, OpInv, MarkedSteps
  <2>5. /\ Publication(p) = issued[e] /\ issued[e] \in Captures /\ issued[e].post[issued[e].note] # None
    BY <2>3, <2>4, SubjectFacts DEF InvocationInv, Sound, Capturing
  <2>6. notes[issued[e].note] = issued[e].content /\ manifest = issued[e].post
    BY <2>3, <2>4, <2>5 DEF LookInv, Note
  <2>7. manifest # Absent
    BY <2>5, <2>6, MemoryMarksAssumption DEF Captures, Images
  <2>8. Row(manifest, issued[e].note) = issued[e].post[issued[e].note]
    BY <2>6, <2>7 DEF Row
  <2>9. QED
    BY <2>5, <2>6, <2>8 DEF DeclarationCurrent
<1>2. MemoryInv /\ [MemoryNext]_<<vars, candidateVars>> => [AsDecided]_vars
  BY <1>1
<1>3. QED
  BY <1>2, MemoryInvariant, PTL DEF MemorySpec, CommittedAsDecided

(* A note is removed only as the request read it, while nothing mentions   *)
(* it and after its declaration is gone, unless somebody moved them after  *)
(* the last look.                                                          *)
THEOREM RemovalsKnowing == MemorySpec => RetiredKnowingly
<1> DEFINE Knowing == \A p \in Procs :
                         At(p, "q-unlink") /\ pc'[p] = "q-original" /\ p \notin window =>
                           LET i == Retiring(p)
                           IN /\ notes[i.note] \in {i.content, Absent}
                              /\ edits = 0 => Row(manifest, i.note) = None
                              /\ ~Mentioned(i.note)
<1>1. MemoryInv => Knowing
  <2> SUFFICES ASSUME MemoryInv, NEW p \in Procs, pc[p] = "q-unlink", p \notin window
               PROVE  /\ notes[Retiring(p).note] \in {Retiring(p).content, Absent}
                      /\ edits = 0 => Row(manifest, Retiring(p).note) = None
                      /\ ~Mentioned(Retiring(p).note)
    BY DEF At
  <2>1. LookInv(p) /\ Known(job[p]) /\ Op(p) \in {"retire", "recover-retirement"}
    BY DEF MemoryInv, ProcInv, OpInv, RetireSteps, RecordedSteps
  <2>2. Retiring(p).post[Retiring(p).note] = None
    BY <2>1, RetiringFacts DEF InvocationInv, Sound
  <2>3. QED
    BY <2>1, <2>2 DEF LookInv, Row
<1>2. MemoryInv /\ [MemoryNext]_<<vars, candidateVars>> => [Knowing]_vars
  BY <1>1
<1>3. QED
  BY <1>2, MemoryInvariant, PTL DEF MemorySpec, RetiredKnowingly

-----------------------------------------------------------------------------
(* The candidates of Memory.                                               *)

(* The steps of a replacement that are taken under owner.lock.             *)
Updating == {"prepare", "stage", "install", "clear"}
Image(file) == IF file = Absent THEN <<>> ELSE file
Distinct(s) == \A j, k \in DOMAIN s : s[j].event = s[k].event => j = k
Datable(s) == \A row \in RowsOf(s) : row.at <= clock

(* What goes when post replaces before is not current, or in named, or     *)
(* makes room.                                                             *)
Explained(before, post, named) ==
    \A row \in RowsOf(before) \ RowsOf(post) :
       \/ ~Current(row)
       \/ row \in named
       \/ /\ Len(post) = Count
          /\ before[1] \notin RowsOf(post)
Good(before, post, named) ==
    /\ post \in Seq(Rows) /\ Len(post) <= Count
    /\ Distinct(post) /\ Datable(post)
    /\ Explained(before, post, named)

StateInv ==
    /\ candidates \in Seq(Rows) \cup {Absent}
    /\ Len(State) <= Count /\ Distinct(State) /\ Datable(State)
    /\ clock \in 0 .. MaxTime

(* A record that is whole, whoever left it, can be carried out.            *)
PreparedInv ==
    /\ prepared \in Replacements \cup {None, Torn}
    /\ prepared \in Replacements =>
          /\ Datable(Image(prepared.before))
          /\ Good(Image(prepared.before), prepared.post, dismissed)
          /\ State = prepared.post \/ candidates = prepared.before
    /\ staged \in Seq(Rows) \cup {None, Torn}
    /\ staged \in Seq(Rows) => prepared \in Replacements /\ staged = prepared.post

CandidateAsked ==
    [op : {"capture", "discard", "complete"}, event : Events, at : 0 .. MaxTime, note : Advice \cup {None}]
      \cup [op : {"maintain", "recover-candidates"}]

(* What a process of this owner relies on.                                 *)
ReplacerInv(p) ==
    /\ In(p, "lock") => bound[p].request \in CandidateAsked
    /\ In(p, "prepare") => prepared = None /\ Good(State, bound[p].post, dismissed)
    /\ step[p] \in Updating \ {"prepare"} => prepared \in Replacements /\ bound[p].post = prepared.post
    /\ In(p, "install") => staged = bound[p].post
    /\ In(p, "clear") => State = prepared.post /\ staged = None

ReplacersInv ==
    /\ step \in [Procs -> Updating \cup {"idle", "lock"}]
    /\ DOMAIN bound = Procs
    /\ owner # None => owner \in Procs /\ step[owner] \in Updating
    /\ \A p \in Procs : step[p] \in Updating => owner = p
    /\ \A p \in Procs : ReplacerInv(p)

CandidatesInv == StateInv /\ PreparedInv /\ ReplacersInv

(* Induction on the natural numbers, for sets.                             *)
LEMMA SetInduction ==
  ASSUME NEW S \in SUBSET Nat, 0 \in S, \A n \in S : n + 1 \in S
  PROVE  S = Nat
<1> DEFINE T == Nat \ S
<1> SUFFICES ASSUME T # {} PROVE FALSE
  BY Zenon
<1>1. PICK x \in T : \A y \in T : <<y, x>> \notin OpToRel(<, Nat)
  <2>1. T \subseteq Nat
    OBVIOUS
  <2> QED
    BY <2>1, WFMin, NatLessThanWellFounded, Zenon
<1>2. x \in Nat /\ x # 0 /\ x - 1 \in Nat /\ x - 1 \notin S
  <2>1. x \in Nat /\ x # 0 /\ x - 1 \in Nat /\ x = (x - 1) + 1
    OBVIOUS
  <2>2. x - 1 \notin S
    BY <2>1
  <2> QED
    BY <2>1, <2>2
<1>3. <<x - 1, x>> \in OpToRel(<, Nat)
  BY <1>2 DEF OpToRel
<1>4. x - 1 \in T
  BY <1>2
<1> HIDE DEF T
<1> QED
  BY <1>1, <1>3, <1>4, Zenon

(* The recursion of Filtered is well defined.                              *)
LEMMA FilteredStep ==
  ASSUME NEW s, NEW wanted, Len(s) \in Nat
  PROVE  \E f : /\ Filtered(s, wanted) = f[Len(s)]
                /\ f[0] = <<>>
                /\ \A n \in 1 .. Len(s) :
                      f[n] = IF s[n] \in wanted THEN Append(f[n - 1], s[n]) ELSE f[n - 1]
<1> DEFINE Is(m, f) == f = [n \in 0 .. m |->
                IF n = 0 THEN <<>>
                ELSE IF s[n] \in wanted THEN Append(f[n - 1], s[n]) ELSE f[n - 1]]
           S == {m \in Nat : \E f : Is(m, f)}
<1>1. 0 \in S
  <2>1. Is(0, [n \in 0 .. 0 |-> <<>>])
    OBVIOUS
  <2> QED
    BY <2>1
<1>2. ASSUME NEW m \in S
      PROVE  m + 1 \in S
  <2>1. PICK old : Is(m, old)
    OBVIOUS
  <2> DEFINE new == IF s[m + 1] \in wanted THEN Append(old[m], s[m + 1]) ELSE old[m]
             g == [n \in 0 .. (m + 1) |-> IF n = m + 1 THEN new ELSE old[n]]
  <2>2. \A n \in 0 .. m : old[n] = IF n = 0 THEN <<>>
                ELSE IF s[n] \in wanted THEN Append(old[n - 1], s[n]) ELSE old[n - 1]
    BY <2>1
  <2>3. \A n \in 0 .. m : g[n] = old[n]
    OBVIOUS
  <2>4. \A n \in 0 .. (m + 1) : n # 0 => n - 1 \in 0 .. m
    OBVIOUS
  <2>5. \A n \in 0 .. (m + 1) : g[n] =
                IF n = 0 THEN <<>>
                ELSE IF s[n] \in wanted THEN Append(g[n - 1], s[n]) ELSE g[n - 1]
    <3> HIDE DEF g
    <3>1. g[m + 1] = new
      BY DEF g
    <3> HIDE DEF new
    <3>2. \A n \in 0 .. (m + 1) : n \in 0 .. m \/ n = m + 1
      OBVIOUS
    <3> QED
      BY <2>2, <2>3, <2>4, <3>1, <3>2 DEF new
  <2>6. Is(m + 1, g)
    BY <2>5
  <2>7. m + 1 \in Nat /\ \E f : Is(m + 1, f)
    <3> HIDE DEF Is, g
    <3> QED
      BY <2>6
  <2> QED
    BY <2>7
<1>3. Len(s) \in S
  <2> HIDE DEF S
  <2> QED
    BY <1>1, <1>2, SetInduction DEF S
<1> DEFINE filtered == CHOOSE f : Is(Len(s), f)
<1>4. Is(Len(s), filtered)
  BY <1>3, Zenon
<1>5. Filtered(s, wanted) = filtered[Len(s)]
  BY DEF Filtered
<1> HIDE DEF filtered
<1>6. filtered[0] = <<>>
  BY <1>4
<1>7. ASSUME NEW n \in 1 .. Len(s)
      PROVE  filtered[n] = IF s[n] \in wanted THEN Append(filtered[n - 1], s[n]) ELSE filtered[n - 1]
  <2>1. n \in 0 .. Len(s) /\ n # 0
    OBVIOUS
  <2> QED
    BY <1>4, <2>1
<1> QED
  BY <1>5, <1>6, <1>7

(* t is what is wanted of the first n elements of s, in their order.       *)
Filters(t, s, n, wanted) ==
    /\ Len(t) <= n
    /\ \A i \in 1 .. Len(t) : \E k \in 1 .. n : t[i] = s[k] /\ s[k] \in wanted
    /\ \A k \in 1 .. n : s[k] \in wanted => \E i \in 1 .. Len(t) : t[i] = s[k]
    /\ Len(t) = n => \A i \in 1 .. n : t[i] = s[i]
    /\ Distinct(s) => Distinct(t)

LEMMA FilterSkips ==
  ASSUME NEW S, NEW s \in Seq(S), NEW wanted, NEW t \in Seq(S), NEW n \in Nat,
         n + 1 <= Len(s), s[n + 1] \notin wanted, Filters(t, s, n, wanted)
  PROVE  Filters(t, s, n + 1, wanted)
<1>1. \A k \in 1 .. (n + 1) : k \in 1 .. n \/ k = n + 1
  OBVIOUS
<1>2. \A k \in 1 .. n : k \in 1 .. (n + 1)
  OBVIOUS
<1>3. Len(t) <= n + 1 /\ Len(t) # n + 1
  BY DEF Filters
<1> QED
  BY <1>1, <1>2, <1>3 DEF Filters

LEMMA FilterAppends ==
  ASSUME NEW S, NEW s \in Seq(S), NEW wanted, NEW t \in Seq(S), NEW n \in Nat,
         n + 1 <= Len(s), s[n + 1] \in wanted, Filters(t, s, n, wanted)
  PROVE  Filters(Append(t, s[n + 1]), s, n + 1, wanted)
<1> DEFINE x == s[n + 1]
           g == Append(t, x)
           l == Len(t)
<1>1. /\ g \in Seq(S) /\ l \in Nat /\ Len(g) = l + 1 /\ DOMAIN g = 1 .. (l + 1) /\ DOMAIN t = 1 .. l
      /\ \A i \in 1 .. l : g[i] = t[i]
      /\ g[l + 1] = x
  OBVIOUS
<1>2. \A k \in 1 .. (n + 1) : k \in 1 .. n \/ k = n + 1
  OBVIOUS
<1>3. \A k \in 1 .. n : k \in 1 .. (n + 1)
  OBVIOUS
<1>4. l <= n /\ \A i \in 1 .. (l + 1) : i \in 1 .. l \/ i = l + 1
  <2>1. Len(t) <= n /\ l = Len(t) /\ l \in Nat
    BY <1>1 DEF Filters
  <2> HIDE DEF l
  <2> QED
    BY <2>1
<1>5. n + 1 \in 1 .. (n + 1) /\ n + 1 \in DOMAIN s /\ l + 1 \in 1 .. (l + 1)
  BY <1>1
<1>6. \A i \in 1 .. l : i \in 1 .. (l + 1)
  BY <1>1
<1>7. \A k \in 1 .. n : k \in DOMAIN s /\ k # n + 1
  OBVIOUS
<1>8. /\ \A i \in 1 .. l : \E k \in 1 .. n : t[i] = s[k] /\ s[k] \in wanted
      /\ \A k \in 1 .. n : s[k] \in wanted => \E i \in 1 .. l : t[i] = s[k]
      /\ l = n => \A i \in 1 .. n : t[i] = s[i]
      /\ Distinct(s) => Distinct(t)
  BY DEF Filters
<1>9. x = s[n + 1] /\ x \in wanted
  OBVIOUS
<1> HIDE DEF g, x, l
<1>10. \A i \in 1 .. (l + 1) : \E k \in 1 .. (n + 1) : g[i] = s[k] /\ s[k] \in wanted
  <2> SUFFICES ASSUME NEW i \in 1 .. (l + 1)
               PROVE  \E k \in 1 .. (n + 1) : g[i] = s[k] /\ s[k] \in wanted
    OBVIOUS
  <2>1. CASE i = l + 1
    BY <1>1, <1>5, <1>9, <2>1
  <2>2. CASE i \in 1 .. l
    <3>1. PICK k \in 1 .. n : t[i] = s[k] /\ s[k] \in wanted
      BY <1>8, <2>2
    <3>2. k \in 1 .. (n + 1) /\ g[i] = s[k]
      BY <1>1, <1>3, <2>2, <3>1
    <3> QED
      BY <3>1, <3>2
  <2> QED
    BY <1>4, <2>1, <2>2
<1>11. \A k \in 1 .. (n + 1) : s[k] \in wanted => \E i \in 1 .. (l + 1) : g[i] = s[k]
  <2> SUFFICES ASSUME NEW k \in 1 .. (n + 1), s[k] \in wanted
               PROVE  \E i \in 1 .. (l + 1) : g[i] = s[k]
    OBVIOUS
  <2>1. CASE k = n + 1
    BY <1>1, <1>5, <1>9, <2>1
  <2>2. CASE k \in 1 .. n
    <3>1. PICK i \in 1 .. l : t[i] = s[k]
      BY <1>8, <2>2
    <3> QED
      BY <1>1, <1>6, <3>1
  <2> QED
    BY <1>2, <2>1, <2>2
<1>12. l + 1 = n + 1 => \A i \in 1 .. (n + 1) : g[i] = s[i]
  <2> SUFFICES ASSUME l = n, NEW i \in 1 .. (n + 1)
               PROVE  g[i] = s[i]
    BY <1>1
  <2> QED
    BY <1>1, <1>2, <1>8, <1>9
<1>13. ASSUME Distinct(s)
       PROVE  Distinct(g)
  <2>1. ASSUME NEW i \in 1 .. l
        PROVE  t[i].event # x.event
    <3>1. PICK k \in 1 .. n : t[i] = s[k]
      BY <1>8
    <3> QED
      BY <1>5, <1>7, <1>9, <1>13, <3>1 DEF Distinct
  <2>2. \A i, j \in 1 .. l : t[i].event = t[j].event => i = j
    BY <1>1, <1>8, <1>13 DEF Distinct
  <2>3. ASSUME NEW i \in 1 .. (l + 1), NEW j \in 1 .. (l + 1), g[i].event = g[j].event
        PROVE  i = j
    BY <1>1, <1>4, <2>1, <2>2, <2>3
  <2> QED
    BY <1>1, <2>3 DEF Distinct
<1>14. Len(g) = l + 1 /\ Len(g) <= n + 1
  BY <1>1, <1>4
<1>15. Filters(g, s, n + 1, wanted)
  BY <1>10, <1>11, <1>12, <1>13, <1>14 DEF Filters
<1> QED
  BY <1>15 DEF g, x

(* What Filtered returns: the wanted rows, in their order.                 *)
LEMMA FilteredFacts ==
  ASSUME NEW S, NEW s \in Seq(S), NEW wanted
  PROVE  Filtered(s, wanted) \in Seq(S) /\ Filters(Filtered(s, wanted), s, Len(s), wanted)
<1>1. PICK rec : /\ Filtered(s, wanted) = rec[Len(s)]
                 /\ rec[0] = <<>>
                 /\ \A n \in 1 .. Len(s) :
                       rec[n] = IF s[n] \in wanted THEN Append(rec[n - 1], s[n]) ELSE rec[n - 1]
  BY FilteredStep
<1> DEFINE P(n) == n <= Len(s) => rec[n] \in Seq(S) /\ Filters(rec[n], s, n, wanted)
           N == {n \in Nat : P(n)}
<1>2. P(0)
  BY <1>1 DEF Filters, Distinct
<1>3. ASSUME NEW n \in Nat, P(n)
      PROVE  P(n + 1)
  <2> SUFFICES ASSUME n + 1 <= Len(s)
               PROVE  rec[n + 1] \in Seq(S) /\ Filters(rec[n + 1], s, n + 1, wanted)
    OBVIOUS
  <2>1. n <= Len(s) /\ n + 1 \in 1 .. Len(s) /\ (n + 1) - 1 = n /\ s[n + 1] \in S
    OBVIOUS
  <2>2. rec[n + 1] = IF s[n + 1] \in wanted THEN Append(rec[n], s[n + 1]) ELSE rec[n]
    BY <1>1, <2>1
  <2>3. rec[n] \in Seq(S) /\ Filters(rec[n], s, n, wanted)
    BY <1>3, <2>1
  <2>4. CASE s[n + 1] \notin wanted
    BY <2>2, <2>3, <2>4, FilterSkips
  <2>5. CASE s[n + 1] \in wanted
    BY <2>1, <2>2, <2>3, <2>5, FilterAppends
  <2> QED
    BY <2>4, <2>5
<1>4. Len(s) \in N
  <2> HIDE DEF P
  <2>1. 0 \in N /\ N \in SUBSET Nat /\ \A n \in N : n + 1 \in N
    BY <1>2, <1>3
  <2>2. N = Nat
    <3> HIDE DEF N
    <3> QED
      BY <2>1, SetInduction
  <2> QED
    BY <2>2
<1> QED
  BY <1>1, <1>4

LEMMA StateTypes ==
  ASSUME StateInv
  PROVE  /\ State \in Seq(Rows) /\ RowsOf(State) \subseteq Rows
         /\ Image(candidates) = State
         /\ candidates \in Seq(Rows) => State = candidates
         /\ clock \in Nat
<1>1. State \in Seq(Rows)
  BY DEF StateInv, State
<1>2. Image(candidates) = State
  BY DEF Image, State
<1>3. RowsOf(State) \subseteq Rows
  BY <1>1 DEF RowsOf
<1> QED
  BY <1>1, <1>2, <1>3, CandidateMarksAssumption, CandidateAssumption DEF State, StateInv

(* What is filtered from the state is as good as the state.                *)
LEMMA FilteredState ==
  ASSUME StateInv, NEW wanted, wanted \subseteq RowsOf(State)
  PROVE  /\ Filtered(State, wanted) \in Seq(Rows)
         /\ Len(Filtered(State, wanted)) <= Len(State) /\ Len(State) <= Count
         /\ RowsOf(Filtered(State, wanted)) = wanted
         /\ Len(Filtered(State, wanted)) = Len(State) => Filtered(State, wanted) = State
         /\ Distinct(Filtered(State, wanted)) /\ Datable(Filtered(State, wanted))
<1> DEFINE s == State
           t == Filtered(s, wanted)
<1>1. s \in Seq(Rows) /\ Len(s) <= Count /\ Distinct(s) /\ Datable(s) /\ wanted \subseteq RowsOf(s)
  BY StateTypes DEF StateInv
<1> HIDE DEF s
<1>2. t \in Seq(Rows) /\ Filters(t, s, Len(s), wanted)
  BY <1>1, FilteredFacts
<1> HIDE DEF t
<1>3. RowsOf(t) = wanted
  <2>1. \A row \in RowsOf(t) : row \in wanted
    <3>1. \A i \in DOMAIN t : i \in 1 .. Len(t)
      BY <1>2
    <3>2. \A i \in 1 .. Len(t) : t[i] \in wanted
      BY <1>2 DEF Filters
    <3> QED
      BY <3>1, <3>2 DEF RowsOf
  <2>2. \A row \in wanted : row \in RowsOf(t)
    <3> SUFFICES ASSUME NEW row \in wanted
                 PROVE  row \in RowsOf(t)
      OBVIOUS
    <3>1. PICK k \in 1 .. Len(s) : row = s[k]
      BY <1>1 DEF RowsOf
    <3>2. PICK i \in 1 .. Len(t) : t[i] = s[k]
      BY <1>2, <3>1 DEF Filters
    <3> QED
      BY <1>2, <3>1, <3>2 DEF RowsOf
  <2> QED
    BY <2>1, <2>2
<1>4. Len(t) = Len(s) => t = s
  <2> SUFFICES ASSUME Len(t) = Len(s)
               PROVE  t = s
    OBVIOUS
  <2>1. \A i \in 1 .. Len(s) : t[i] = s[i]
    BY <1>2 DEF Filters
  <2>2. t \in Seq(Rows) /\ s \in Seq(Rows)
    BY <1>1, <1>2
  <2> QED
    BY <2>1, <2>2
<1>5. Len(t) <= Len(s) /\ Distinct(t)
  BY <1>1, <1>2 DEF Filters
<1>6. Datable(t)
  BY <1>1, <1>3 DEF Datable
<1> QED
  BY <1>1, <1>2, <1>3, <1>4, <1>5, <1>6 DEF s, t

(* A capture appends its row and drops the oldest where the set is full.   *)
LEMMA CaptureGood ==
  ASSUME StateInv, NEW event \in Events, NEW at \in 0 .. MaxTime,
         Current([event |-> event, at |-> at]), \A row \in RowsOf(State) : row.event # event
  PROVE  Good(State, Newest(Append(Filtered(State, CurrentRows), [event |-> event, at |-> at])), {})
<1> DEFINE t == Filtered(State, CurrentRows)
           new == [event |-> event, at |-> at]
           u == Append(t, new)
           post == Newest(u)
<1>1. /\ t \in Seq(Rows) /\ Len(t) <= Len(State) /\ Len(State) <= Count
      /\ RowsOf(t) = CurrentRows
      /\ Len(t) = Len(State) => t = State
      /\ Distinct(t) /\ Datable(t)
  BY FilteredState DEF CurrentRows
<1>2. State \in Seq(Rows) /\ Count \in Nat \ {0} /\ Distinct(State) /\ clock \in Nat
  BY StateTypes, CandidateAssumption DEF StateInv
<1>3. new \in Rows /\ new.event = event /\ new.at <= clock
  BY DEF Rows, Current
<1> HIDE DEF t, new
<1>4. /\ u \in Seq(Rows) /\ Len(u) = Len(t) + 1 /\ DOMAIN u = 1 .. (Len(t) + 1) /\ DOMAIN t = 1 .. Len(t)
      /\ \A i \in 1 .. Len(t) : u[i] = t[i]
      /\ u[Len(t) + 1] = new /\ Len(t) \in Nat
  BY <1>1, <1>3
<1> HIDE DEF u
<1>5. \A i \in DOMAIN t : t[i] \in RowsOf(State) /\ t[i].event # event
  <2>1. \A i \in DOMAIN t : t[i] \in RowsOf(t)
    BY DEF RowsOf
  <2> QED
    BY <1>1, <2>1 DEF CurrentRows
<1>6. Distinct(u)
  <2> SUFFICES ASSUME NEW i \in DOMAIN u, NEW j \in DOMAIN u, u[i].event = u[j].event
               PROVE  i = j
    BY DEF Distinct
  <2>1. (i \in DOMAIN t \/ i = Len(t) + 1) /\ (j \in DOMAIN t \/ j = Len(t) + 1)
    BY <1>4
  <2> QED
    BY <1>1, <1>3, <1>4, <1>5, <2>1 DEF Distinct
<1>7. \A i \in DOMAIN u : u[i].at <= clock
  <2> SUFFICES ASSUME NEW i \in DOMAIN u
               PROVE  u[i].at <= clock
    OBVIOUS
  <2>1. CASE i = Len(t) + 1
    BY <1>3, <1>4, <2>1
  <2>2. CASE i \in DOMAIN t
    BY <1>1, <1>4, <2>2 DEF Datable, RowsOf
  <2> QED
    BY <1>4, <2>1, <2>2
<1>8. CASE Len(u) <= Count
  <2>1. post = u
    <3>1. Len(u) \in Nat /\ Count \in Nat /\ ~(Len(u) > Count)
      BY <1>2, <1>4, <1>8
    <3>2. post = SubSeq(u, 1, Len(u))
      BY <3>1 DEF Newest
    <3>3. SubSeq(u, 1, Len(u)) = u
      BY <1>4
    <3> QED
      BY <3>2, <3>3
  <2>2. \A row \in CurrentRows : row \in RowsOf(u)
    BY <1>1, <1>4 DEF RowsOf
  <2>3. Explained(State, u, {})
    BY <2>2 DEF Explained, CurrentRows
  <2>4. Datable(u)
    BY <1>7 DEF Datable, RowsOf
  <2> QED
    BY <1>4, <1>6, <1>8, <2>1, <2>3, <2>4 DEF Good, u, new, t
<1>9. CASE ~(Len(u) <= Count)
  <2>1. Len(t) = Count /\ Len(State) = Count /\ t = State
    <3>1. /\ Len(t) \in Nat /\ Len(State) \in Nat /\ Count \in Nat
          /\ Len(t) <= Len(State) /\ Len(State) <= Count /\ ~(Len(t) + 1 <= Count)
      BY <1>1, <1>2, <1>4, <1>9
    <3>2. Len(t) = Count /\ Len(State) = Count
      BY <3>1
    <3> QED
      BY <1>1, <3>2
  <2>2. post = SubSeq(u, 2, Count + 1)
    BY <1>2, <1>4, <1>9, <2>1 DEF Newest
  <2>3. /\ post \in Seq(Rows) /\ Len(post) = Count /\ DOMAIN post = 1 .. Count
        /\ \A i \in 1 .. Count : post[i] = u[i + 1] /\ i + 1 \in DOMAIN u
    BY <1>2, <1>4, <2>1, <2>2
  <2> HIDE DEF post
  <2>4. Distinct(post)
    BY <1>2, <1>6, <2>3 DEF Distinct
  <2>5. Datable(post)
    BY <1>7, <2>3 DEF Datable, RowsOf
  <2>6. State[1] = u[1] /\ 1 \in DOMAIN u
    BY <1>2, <1>4, <2>1
  <2>7. State[1] \notin RowsOf(post)
    <3> SUFFICES ASSUME NEW i \in 1 .. Count, post[i] = u[1]
                 PROVE  FALSE
      BY <2>3, <2>6 DEF RowsOf
    <3>1. i + 1 = 1
      BY <1>6, <2>3, <2>6 DEF Distinct
    <3> QED
      BY <1>2, <3>1
  <2>8. Explained(State, post, {})
    BY <2>3, <2>7 DEF Explained
  <2>9. Good(State, post, {})
    BY <1>2, <2>3, <2>4, <2>5, <2>8 DEF Good
  <2> QED
    BY <2>9 DEF post, u, new, t
<1> QED
  BY <1>8, <1>9

Named(r) == IF r.op \in {"discard", "complete"} THEN {row \in RowsOf(State) : row.event = r.event} ELSE {}

LEMMA PostimageGood ==
  ASSUME StateInv, NEW r \in CandidateAsked, r.op # "recover-candidates", Answered(r)
  PROVE  Good(State, Postimage(r), Named(r))
<1>1. CASE r.op = "capture"
  <2>1. /\ r.event \in Events /\ r.at \in 0 .. MaxTime
        /\ \A row \in RowsOf(State) : row.event # r.event
        /\ Current([event |-> r.event, at |-> r.at])
    BY <1>1 DEF CandidateAsked, Answered, Current
  <2>2. Postimage(r) = Newest(Append(Filtered(State, CurrentRows), [event |-> r.event, at |-> r.at]))
    BY <1>1 DEF Postimage
  <2>3. Named(r) = {}
    BY <1>1 DEF Named
  <2> QED
    BY <2>1, <2>2, <2>3, CaptureGood
<1>2. CASE r.op = "maintain"
  <2>1. Postimage(r) = Filtered(State, CurrentRows) /\ Named(r) = {}
    BY <1>2 DEF Postimage, Named
  <2>2. Explained(State, Filtered(State, CurrentRows), {})
    BY FilteredState DEF Explained, CurrentRows
  <2>3. Len(Filtered(State, CurrentRows)) <= Count
    BY FilteredState, StateTypes, CandidateAssumption DEF CurrentRows
  <2> QED
    BY <2>1, <2>2, <2>3, FilteredState DEF Good, CurrentRows
<1>3. CASE r.op \in {"discard", "complete"}
  <2> DEFINE others == {row \in RowsOf(State) : row.event # r.event}
  <2>1. Postimage(r) = Filtered(State, others)
    BY <1>3 DEF Postimage
  <2>2. Explained(State, Filtered(State, others), Named(r))
    BY <1>3, FilteredState DEF Explained, Named
  <2>3. Len(Filtered(State, others)) <= Count
    BY FilteredState, StateTypes, CandidateAssumption
  <2> QED
    BY <2>1, <2>2, <2>3, FilteredState DEF Good
<1> QED
  BY <1>1, <1>2, <1>3 DEF CandidateAsked

-----------------------------------------------------------------------------
LEMMA FilesStay ==
  ASSUME CandidatesInv, UNCHANGED <<candidates, prepared, staged, clock>>,
         prepared \in Replacements => dismissed' = dismissed
  PROVE  StateInv' /\ PreparedInv'
<1>1. State' = State
  BY DEF State
<1>2. \A s : Datable(s)' = Datable(s)
  BY DEF Datable
<1>3. \A row : Current(row)' = Current(row)
  BY DEF Current
<1>4. StateInv'
  BY <1>1, <1>2 DEF CandidatesInv, StateInv
<1>5. ASSUME prepared \in Replacements
      PROVE  Good(Image(prepared.before), prepared.post, dismissed)'
                = Good(Image(prepared.before), prepared.post, dismissed)
  BY <1>5 DEF Good, Explained, Datable, Current, Image
<1>6. PreparedInv'
  BY <1>1, <1>5 DEF CandidatesInv, PreparedInv, Datable, Image
<1> QED
  BY <1>4, <1>6

(* A process that has not moved relies on what it did.                     *)
LEMMA ReplacerStays ==
  ASSUME CandidatesInv, NEW q \in Procs, step'[q] = step[q], bound'[q] = bound[q],
         \/ step[q] \notin Updating
         \/ UNCHANGED <<candidates, prepared, staged, clock, dismissed>>
  PROVE  ReplacerInv(q)'
<1>1. ReplacerInv(q)
  BY DEF CandidatesInv, ReplacersInv
<1>2. In(q, "lock")' = In(q, "lock") /\ (step[q] \in Updating)' = (step[q] \in Updating)
  BY DEF In
<1>3. CASE step[q] \notin Updating
  BY <1>1, <1>3 DEF ReplacerInv, In, Updating
<1>4. CASE UNCHANGED <<candidates, prepared, staged, clock, dismissed>>
  BY <1>1, <1>4 DEF ReplacerInv, In, State, Good, Explained, Datable, Current
<1> QED
  BY <1>3, <1>4

LEMMA CandidatesStay ==
  ASSUME CandidatesInv, UNCHANGED candidateVars
  PROVE  CandidatesInv'
<1> USE DEF candidateVars
<1>1. StateInv' /\ PreparedInv'
  BY FilesStay
<1>2. \A q \in Procs : ReplacerInv(q)'
  BY ReplacerStays
<1> QED
  BY <1>1, <1>2 DEF CandidatesInv, ReplacersInv

LEMMA CandidatesTick ==
  ASSUME CandidatesInv, Tick
  PROVE  CandidatesInv'
<1>1. /\ clock' = clock + 1 /\ clock < MaxTime /\ clock \in 0 .. MaxTime /\ clock' \in 0 .. MaxTime
      /\ UNCHANGED <<candidates, prepared, staged, owner, step, bound, dismissed>>
  BY CandidateAssumption DEF Tick, CandidatesInv, StateInv
<1>2. State' = State
  BY <1>1 DEF State
<1>3. ASSUME NEW s, s \in Seq(Rows), Datable(s)
      PROVE  Datable(s)' /\ \A row \in RowsOf(s) : ~Current(row) => ~Current(row)'
  <2>1. \A row \in RowsOf(s) : row.at \in Nat /\ row.at <= clock
    <3>1. RowsOf(s) \subseteq Rows
      BY <1>3 DEF RowsOf
    <3> QED
      BY <1>3, <3>1, CandidateAssumption DEF Rows, Datable
  <2> QED
    BY <1>1, <2>1, CandidateAssumption DEF Datable, Current
<1>4. ASSUME NEW before, NEW post, before \in Seq(Rows), Datable(before), Good(before, post, dismissed)
      PROVE  Good(before, post, dismissed)'
  <2>1. post \in Seq(Rows) /\ Datable(post)
    BY <1>4 DEF Good
  <2>2. Datable(post)' /\ \A row \in RowsOf(before) : ~Current(row) => ~Current(row)'
    BY <1>3, <1>4, <2>1
  <2>3. Explained(before, post, dismissed)'
    BY <1>1, <1>4, <2>2 DEF Good, Explained
  <2> QED
    BY <1>4, <2>2, <2>3 DEF Good
<1>5. StateInv'
  BY <1>1, <1>2, <1>3, StateTypes DEF CandidatesInv, StateInv
<1>6. PreparedInv'
  <2> SUFFICES ASSUME prepared \in Replacements
               PROVE  /\ Datable(Image(prepared.before))'
                      /\ Good(Image(prepared.before), prepared.post, dismissed)'
    BY <1>1, <1>2 DEF CandidatesInv, PreparedInv
  <2>1. PICK image : image = Image(prepared.before)
    OBVIOUS
  <2>2. PICK post : post = prepared.post
    OBVIOUS
  <2>3. image \in Seq(Rows) /\ Datable(image) /\ Good(image, post, dismissed)
    BY <2>1, <2>2 DEF Replacements, Image, CandidatesInv, PreparedInv
  <2>4. Datable(image)' /\ Good(image, post, dismissed)'
    BY <1>3, <1>4, <2>3
  <2>5. Image(prepared.before)' = image /\ prepared.post' = post
    BY <1>1, <2>1, <2>2 DEF Image
  <2> QED
    BY <2>4, <2>5
<1>7. ASSUME NEW q \in Procs
      PROVE  ReplacerInv(q)'
  <2>1. ReplacerInv(q)
    BY DEF CandidatesInv, ReplacersInv
  <2>2. PICK state : state = State
    OBVIOUS
  <2>3. PICK post : post = bound[q].post
    OBVIOUS
  <2>4. state \in Seq(Rows) /\ Datable(state) /\ State' = state /\ bound[q].post' = post
    BY <1>1, <1>2, <2>2, <2>3, StateTypes DEF CandidatesInv, StateInv
  <2>5. In(q, "prepare") => Good(state, post, dismissed)'
    BY <1>4, <2>1, <2>2, <2>3, <2>4 DEF ReplacerInv
  <2>6. In(q, "prepare")' => Good(State, bound[q].post, dismissed)'
    BY <1>1, <2>4, <2>5 DEF In
  <2> QED
    BY <1>1, <1>2, <2>1, <2>6 DEF ReplacerInv, In
<1> QED
  BY <1>1, <1>5, <1>6, <1>7 DEF CandidatesInv, ReplacersInv

-----------------------------------------------------------------------------
LEMMA Owning ==
  ASSUME CandidatesInv, NEW p \in Procs
  PROVE  /\ step[p] \in Updating => owner = p /\ \A q \in Procs \ {p} : step[q] \notin Updating
         /\ owner = None => \A q \in Procs : step[q] \notin Updating
         /\ owner = p => step[p] \in Updating
BY MemoryAssumption DEF CandidatesInv, ReplacersInv

(* A step of one process that keeps the others as they are.                *)
LEMMA ReplacersMove ==
  ASSUME CandidatesInv, NEW p \in Procs, NEW to \in Updating \cup {"idle", "lock"},
         step' = [step EXCEPT ![p] = to], DOMAIN bound' = Procs,
         \A q \in Procs \ {p} : bound'[q] = bound[q],
         IF to \in Updating THEN owner' = p /\ (owner = p \/ owner = None)
         ELSE owner' = IF owner = p THEN None ELSE owner,
         step[p] \in Updating \/ owner = None
            \/ UNCHANGED <<candidates, prepared, staged, clock, dismissed>>,
         ReplacerInv(p)'
  PROVE  ReplacersInv'
<1>1. /\ step' \in [Procs -> Updating \cup {"idle", "lock"}] /\ step'[p] = to
      /\ \A q \in Procs \ {p} : step'[q] = step[q]
  BY DEF CandidatesInv, ReplacersInv
<1>2. ASSUME NEW q \in Procs \ {p}
      PROVE  ReplacerInv(q)'
  <2>1. step[q] \notin Updating \/ UNCHANGED <<candidates, prepared, staged, clock, dismissed>>
    BY Owning
  <2> QED
    BY <1>1, <2>1, ReplacerStays
<1>3. owner' # None => owner' \in Procs /\ step'[owner'] \in Updating
  BY <1>1, Owning DEF CandidatesInv, ReplacersInv
<1>4. ASSUME NEW q \in Procs, step'[q] \in Updating
      PROVE  owner' = q
  BY <1>1, <1>4, Owning DEF CandidatesInv, ReplacersInv
<1> QED
  BY <1>1, <1>2, <1>3, <1>4 DEF ReplacersInv

LEMMA CandidatesBegin ==
  ASSUME CandidatesInv, NEW p \in Procs, NEW r \in CandidateRequests, BeginCandidates(p, r)
  PROVE  CandidatesInv'
<1> USE DEF BeginCandidates, In
<1>1. step[p] = "idle" /\ bound'[p].request = r /\ step'[p] = "lock" /\ owner # p
  BY Owning DEF CandidatesInv, ReplacersInv, Bound, Updating
<1>2. r \in CandidateAsked
  <2>1. RowsOf(State) \subseteq Rows /\ clock \in 0 .. MaxTime
    BY StateTypes DEF CandidatesInv, StateInv
  <2> QED
    BY <2>1 DEF CandidateRequests, CandidateAsked, Rows
<1>3. ReplacerInv(p)'
  BY <1>1, <1>2 DEF ReplacerInv, Updating
<1>4. StateInv' /\ PreparedInv'
  BY FilesStay
<1>5. DOMAIN bound' = Procs /\ \A q \in Procs \ {p} : bound'[q] = bound[q]
  BY DEF CandidatesInv, ReplacersInv
<1>6. ReplacersInv'
  BY <1>1, <1>3, <1>5, ReplacersMove DEF Updating
<1> QED
  BY <1>4, <1>6 DEF CandidatesInv

LEMMA CandidatesLock ==
  ASSUME CandidatesInv, NEW p \in Procs, LockCandidates(p)
  PROVE  CandidatesInv'
<1> DEFINE r == bound[p].request
<1>1. /\ step[p] = "lock" /\ owner = None /\ owner' = p /\ Offered(bound[p])
      /\ UNCHANGED <<bound, candidates, prepared, staged, clock>>
      /\ step' = [step EXCEPT ![p] = IF prepared = None THEN "prepare" ELSE "stage"]
  BY DEF LockCandidates, MayReplace, In
<1>2. r \in CandidateAsked
  BY <1>1 DEF CandidatesInv, ReplacersInv, ReplacerInv, In
<1>3. prepared # Torn /\ Answered(r) /\ bound[p].post = Postimage(r)
  BY <1>1 DEF Offered, Bound
<1>4. dismissed' = IF r.op = "recover-candidates" THEN dismissed ELSE Named(r)
  BY <1>2 DEF LockCandidates, Named, CandidateAsked
<1>5. prepared = None <=> r.op # "recover-candidates"
  BY <1>2, <1>3 DEF Answered, CandidateAsked
<1>6. step'[p] = (IF prepared = None THEN "prepare" ELSE "stage") /\ DOMAIN bound = Procs
  BY <1>1 DEF CandidatesInv, ReplacersInv
<1>7. StateInv' /\ PreparedInv'
  BY <1>1, <1>4, <1>5, FilesStay, CandidateMarksAssumption
<1>8. ReplacerInv(p)'
  <2>1. CASE prepared = None
    <3>1. Good(State, Postimage(r), Named(r))
      BY <1>2, <1>3, <1>5, <2>1, PostimageGood DEF CandidatesInv
    <3>2. PICK state : state = State
      OBVIOUS
    <3>3. PICK post : post = Postimage(r)
      OBVIOUS
    <3>4. Good(state, post, dismissed')
      BY <1>4, <1>5, <2>1, <3>1, <3>2, <3>3
    <3>5. Good(state, post, dismissed)'
      BY <1>1, <3>4 DEF Good, Explained, Datable, Current
    <3>6. State' = state /\ bound[p].post' = post
      BY <1>1, <1>3, <3>2, <3>3 DEF State
    <3>7. Good(State, bound[p].post, dismissed)'
      BY <3>5, <3>6
    <3> QED
      BY <1>1, <1>6, <2>1, <3>7 DEF ReplacerInv, In
  <2>2. CASE prepared # None
    <3>1. prepared \in Replacements
      BY <1>3, <2>2 DEF CandidatesInv, PreparedInv
    <3>2. bound[p].post = prepared.post
      BY <1>3, <1>5, <2>2 DEF Postimage
    <3> QED
      BY <1>1, <1>6, <2>2, <3>1, <3>2 DEF ReplacerInv, In
  <2> QED
    BY <2>1, <2>2
<1>9. ReplacersInv'
  BY <1>1, <1>6, <1>8, ReplacersMove DEF Updating
<1> QED
  BY <1>7, <1>9 DEF CandidatesInv

LEMMA CandidatesPrepare ==
  ASSUME CandidatesInv, NEW p \in Procs, Prepare(p)
  PROVE  CandidatesInv'
<1>1. /\ step[p] = "prepare" /\ step' = [step EXCEPT ![p] = "stage"] /\ owner = p
      /\ prepared' = [before |-> candidates, post |-> bound[p].post]
      /\ UNCHANGED <<candidates, staged, bound, owner, clock, dismissed>>
  BY Owning DEF Prepare, In, StepTo, Updating
<1>2. prepared = None /\ Good(State, bound[p].post, dismissed)
  BY <1>1 DEF CandidatesInv, ReplacersInv, ReplacerInv, In
<1>3. /\ candidates \in Seq(Rows) \cup {Absent} /\ bound[p].post \in Seq(Rows)
      /\ Image(candidates) = State /\ Datable(State)
  BY <1>2, StateTypes DEF CandidatesInv, StateInv, Good
<1>4. prepared' \in Replacements /\ prepared'.before = candidates /\ prepared'.post = bound[p].post
  BY <1>1, <1>3 DEF Replacements
<1>5. staged \in {None, Torn}
  BY <1>2, CandidateMarksAssumption DEF CandidatesInv, PreparedInv
<1>6. step'[p] = "stage" /\ DOMAIN bound = Procs /\ DOMAIN bound' = Procs
  BY <1>1 DEF CandidatesInv, ReplacersInv
<1>7. State' = State /\ StateInv'
  BY <1>1 DEF CandidatesInv, StateInv, State, Datable
<1>8. PreparedInv'
  <2>1. PICK before : before = candidates
    OBVIOUS
  <2>2. PICK post : post = bound[p].post
    OBVIOUS
  <2>3. Datable(Image(before)) /\ Good(Image(before), post, dismissed)
    BY <1>2, <1>3, <2>1, <2>2
  <2>4. Datable(Image(before))' /\ Good(Image(before), post, dismissed)'
    BY <1>1, <2>3 DEF Datable, Good, Explained, Current, Image
  <2>5. prepared.before' = before /\ prepared.post' = post /\ candidates' = before
    BY <1>1, <1>4, <2>1, <2>2
  <2> QED
    BY <1>1, <1>4, <1>5, <2>4, <2>5, CandidateMarksAssumption DEF PreparedInv
<1>9. ReplacerInv(p)'
  BY <1>1, <1>4, <1>6 DEF ReplacerInv, In
<1>10. ReplacersInv'
  BY <1>1, <1>6, <1>9, ReplacersMove DEF Updating
<1> QED
  BY <1>7, <1>8, <1>10 DEF CandidatesInv

LEMMA CandidatesStage ==
  ASSUME CandidatesInv, NEW p \in Procs, StageState(p)
  PROVE  CandidatesInv'
<1>1. /\ step[p] = "stage" /\ step' = [step EXCEPT ![p] = "install"] /\ owner = p
      /\ staged' = bound[p].post
      /\ UNCHANGED <<candidates, prepared, bound, owner, clock, dismissed>>
  BY Owning DEF StageState, In, StepTo, Updating
<1>2. prepared \in Replacements /\ bound[p].post = prepared.post /\ prepared.post \in Seq(Rows)
  BY <1>1 DEF CandidatesInv, ReplacersInv, ReplacerInv, Replacements, Updating
<1>3. step'[p] = "install" /\ DOMAIN bound = Procs
  BY <1>1 DEF CandidatesInv, ReplacersInv
<1>4. State' = State /\ StateInv'
  BY <1>1 DEF CandidatesInv, StateInv, State, Datable
<1>5. PreparedInv'
  <2>1. /\ Datable(Image(prepared.before))' = Datable(Image(prepared.before))
        /\ Good(Image(prepared.before), prepared.post, dismissed)'
              = Good(Image(prepared.before), prepared.post, dismissed)
    BY <1>1 DEF Datable, Good, Explained, Current, Image
  <2> QED
    BY <1>1, <1>2, <1>4, <2>1 DEF CandidatesInv, PreparedInv
<1>6. ReplacerInv(p)'
  BY <1>1, <1>2, <1>3 DEF ReplacerInv, In, Updating
<1>7. ReplacersInv'
  BY <1>1, <1>3, <1>6, ReplacersMove DEF Updating
<1> QED
  BY <1>4, <1>5, <1>7 DEF CandidatesInv

(* What is put in place is the postimage that the record names.            *)
LEMMA InstallFacts ==
  ASSUME CandidatesInv, NEW p \in Procs, InstallState(p)
  PROVE  /\ step[p] = "install" /\ owner = p /\ prepared \in Replacements
         /\ staged = prepared.post /\ bound[p].post = prepared.post /\ prepared.post \in Seq(Rows)
         /\ candidates' \in Seq(Rows) \cup {Absent} /\ State' = prepared.post
         /\ step' = [step EXCEPT ![p] = "clear"] /\ staged' = None
         /\ UNCHANGED <<prepared, bound, owner, clock, dismissed>>
<1>1. /\ step[p] = "install" /\ step' = [step EXCEPT ![p] = "clear"] /\ owner = p /\ staged' = None
      /\ candidates' = IF State = bound[p].post THEN candidates ELSE staged
      /\ UNCHANGED <<prepared, bound, owner, clock, dismissed>>
  BY Owning DEF InstallState, In, StepTo, Updating
<1>2. prepared \in Replacements /\ bound[p].post = prepared.post /\ staged = prepared.post
  BY <1>1 DEF CandidatesInv, ReplacersInv, ReplacerInv, Updating, In
<1>3. prepared.post \in Seq(Rows) /\ prepared.post # Absent
  BY <1>2, CandidateMarksAssumption DEF Replacements
<1>4. candidates' \in Seq(Rows) \cup {Absent} /\ State' = prepared.post
  BY <1>1, <1>2, <1>3 DEF State, CandidatesInv, StateInv
<1> QED
  BY <1>1, <1>2, <1>3, <1>4

LEMMA CandidatesInstall ==
  ASSUME CandidatesInv, NEW p \in Procs, InstallState(p)
  PROVE  CandidatesInv'
<1>1. PICK post : post = prepared.post
  OBVIOUS
<1>2. PICK image : image = Image(prepared.before)
  OBVIOUS
<1>3. Datable(image) /\ Good(image, post, dismissed)
  BY <1>1, <1>2, InstallFacts DEF CandidatesInv, PreparedInv
<1>4. Datable(image)' /\ Good(image, post, dismissed)'
  BY <1>3, InstallFacts DEF Datable, Good, Explained, Current
<1>5. State' = post /\ prepared.post' = post /\ Image(prepared.before)' = image
  BY <1>1, <1>2, InstallFacts DEF Image
<1>6. StateInv'
  <2>1. Datable(post)'
    BY <1>4 DEF Good
  <2>2. Datable(State)'
    BY <1>5, <2>1
  <2>3. Len(post) <= Count /\ Distinct(post)
    BY <1>3 DEF Good
  <2> QED
    BY <1>5, <2>2, <2>3, InstallFacts DEF StateInv, CandidatesInv
<1>7. PreparedInv'
  BY <1>1, <1>4, <1>5, InstallFacts, CandidateMarksAssumption DEF PreparedInv
<1>8. step'[p] = "clear" /\ DOMAIN bound = Procs
  BY InstallFacts DEF CandidatesInv, ReplacersInv
<1>9. ReplacerInv(p)'
  BY <1>1, <1>5, <1>8, InstallFacts DEF ReplacerInv, In, Updating
<1>10. ReplacersInv'
  BY <1>8, <1>9, InstallFacts, ReplacersMove DEF Updating
<1> QED
  BY <1>6, <1>7, <1>10 DEF CandidatesInv

LEMMA CandidatesClear ==
  ASSUME CandidatesInv, NEW p \in Procs, ClearPrepared(p)
  PROVE  CandidatesInv'
<1>1. /\ step[p] = "clear" /\ step' = [step EXCEPT ![p] = "idle"] /\ owner = p /\ prepared' = None
      /\ bound' = [bound EXCEPT ![p] = None] /\ owner' = None
      /\ UNCHANGED <<candidates, staged, clock>>
  BY Owning DEF ClearPrepared, In, Return, Updating
<1>2. staged = None
  BY <1>1 DEF CandidatesInv, ReplacersInv, ReplacerInv, In
<1>3. StateInv'
  BY <1>1 DEF CandidatesInv, StateInv, State, Datable
<1>4. PreparedInv'
  BY <1>1, <1>2, CandidateMarksAssumption DEF PreparedInv
<1>5. step'[p] = "idle" /\ DOMAIN bound' = Procs /\ \A q \in Procs \ {p} : bound'[q] = bound[q]
  BY <1>1 DEF CandidatesInv, ReplacersInv
<1>6. ReplacerInv(p)'
  BY <1>5 DEF ReplacerInv, In, Updating
<1>7. ReplacersInv'
  BY <1>1, <1>5, <1>6, ReplacersMove DEF Updating
<1> QED
  BY <1>3, <1>4, <1>7 DEF CandidatesInv

(* Whoever leaves, refused or dead, leaves at most a file that is torn.    *)
LEMMA CandidatesLeave ==
  ASSUME CandidatesInv, NEW p \in Procs, step[p] # "idle", Return(p), UNCHANGED candidates,
         \/ UNCHANGED <<prepared, staged>>
         \/ step[p] = "prepare" /\ prepared' = Torn /\ UNCHANGED staged
         \/ step[p] = "stage" /\ staged' = Torn /\ UNCHANGED prepared
  PROVE  CandidatesInv'
<1>1. /\ step' = [step EXCEPT ![p] = "idle"] /\ bound' = [bound EXCEPT ![p] = None]
      /\ owner' = IF owner = p THEN None ELSE owner
      /\ dismissed' = IF owner = p /\ prepared' = None THEN {} ELSE dismissed
      /\ UNCHANGED <<candidates, clock>>
  BY DEF Return
<1>2. step[p] = "prepare" => prepared = None
  BY DEF CandidatesInv, ReplacersInv, ReplacerInv, In
<1>3. staged \in Seq(Rows) => prepared \in Replacements
  BY DEF CandidatesInv, PreparedInv
<1>4. StateInv'
  BY <1>1 DEF CandidatesInv, StateInv, State, Datable
<1>5. PreparedInv'
  <2>1. CASE prepared' \notin Replacements
    BY <1>2, <1>3, <2>1, CandidateMarksAssumption DEF CandidatesInv, PreparedInv
  <2>2. CASE prepared' \in Replacements
    <3>1. prepared' = prepared /\ prepared # None /\ dismissed' = dismissed
      BY <1>1, <2>2, CandidateMarksAssumption
    <3>2. /\ Datable(Image(prepared.before))' = Datable(Image(prepared.before))
          /\ Good(Image(prepared.before), prepared.post, dismissed)'
                = Good(Image(prepared.before), prepared.post, dismissed)
      BY <1>1, <3>1 DEF Datable, Good, Explained, Current, Image
    <3> QED
      BY <1>1, <2>2, <3>1, <3>2, CandidateMarksAssumption DEF CandidatesInv, PreparedInv, State
  <2> QED
    BY <2>1, <2>2
<1>6. step'[p] = "idle" /\ DOMAIN bound' = Procs /\ \A q \in Procs \ {p} : bound'[q] = bound[q]
  BY <1>1 DEF CandidatesInv, ReplacersInv
<1>7. ReplacerInv(p)'
  BY <1>6 DEF ReplacerInv, In, Updating
<1>8. step[p] \in Updating \/ UNCHANGED <<candidates, prepared, staged, clock, dismissed>>
  BY <1>1, Owning DEF Updating
<1>9. ReplacersInv'
  BY <1>1, <1>6, <1>7, <1>8, ReplacersMove DEF Updating
<1> QED
  BY <1>4, <1>5, <1>9 DEF CandidatesInv

LEMMA CandidatesStep ==
  ASSUME CandidatesInv, [MemoryNext]_<<vars, candidateVars>>
  PROVE  CandidatesInv'
<1>1. CASE UNCHANGED candidateVars
  BY <1>1, CandidatesStay
<1>2. ASSUME NEW p \in Procs, UpdateCandidates(p)
      PROVE  CandidatesInv'
  <2>1. CASE RefuseCandidates(p)
    <3>1. step[p] # "idle"
      BY <2>1 DEF RefuseCandidates, MayReplace, In
    <3> QED
      BY <2>1, <3>1, CandidatesLeave DEF RefuseCandidates
  <2> QED
    BY <1>2, <2>1, CandidatesBegin, CandidatesLock, CandidatesPrepare, CandidatesStage, CandidatesInstall,
       CandidatesClear DEF UpdateCandidates
<1>3. ASSUME NEW p \in Procs, DieInCandidates(p)
      PROVE  CandidatesInv'
  <2>1. step[p] # "idle" /\ Return(p) /\ UNCHANGED candidates
    BY <1>3 DEF DieInCandidates, In
  <2>2. \/ UNCHANGED <<prepared, staged>>
        \/ step[p] = "prepare" /\ prepared' = Torn /\ UNCHANGED staged
        \/ step[p] = "stage" /\ staged' = Torn /\ UNCHANGED prepared
    BY <1>3 DEF DieInCandidates, In
  <2> QED
    BY <2>1, <2>2, CandidatesLeave
<1>4. CASE Tick
  BY <1>4, CandidatesTick
<1> QED
  BY <1>1, <1>2, <1>3, <1>4 DEF MemoryNext, OthersNext

LEMMA CandidatesStart ==
  ASSUME CandidatesInit
  PROVE  CandidatesInv
<1> USE DEF CandidatesInit
<1>1. State = <<>> /\ RowsOf(<<>>) = {} /\ Distinct(<<>>) /\ Len(<<>>) = 0
  BY DEF State, RowsOf, Distinct
<1>2. StateInv
  BY <1>1, CandidateAssumption DEF StateInv, Datable
<1>3. PreparedInv
  BY CandidateMarksAssumption DEF PreparedInv
<1>4. ReplacersInv
  BY DEF ReplacersInv, ReplacerInv, In, Updating
<1> QED
  BY <1>2, <1>3, <1>4 DEF CandidatesInv

(* The inductive invariant of the candidates: a record that is whole has   *)
(* a postimage that can replace its preimage at any later time.            *)
THEOREM CandidatesInvariant == MemorySpec => []CandidatesInv
<1>1. MemoryInit => CandidatesInv
  BY CandidatesStart DEF MemoryInit
<1> QED
  BY <1>1, CandidatesStep, PTL DEF MemorySpec

(* The observations are a set of at most Count distinct events, and a      *)
(* replacement that was interrupted can be finished                        *)
(* (native_memory_candidates.rs, execute and its recovery).                *)
THEOREM CandidatesStayRecoverable == MemorySpec => []CandidatesRecoverable
<1>1. CandidatesInv => CandidatesRecoverable
  BY CandidateMarksAssumption DEF CandidatesInv, StateInv, PreparedInv, CandidatesRecoverable, Distinct
<1> QED
  BY <1>1, CandidatesInvariant, PTL

(* Nothing leaves Memory unawares: a note only as its removal was asked    *)
(* for, an observation only because it was named, has expired or made room *)
(* for newer ones, whoever finished the replacement                        *)
(* (native_memory_candidates.rs, prune and execute).                       *)
THEOREM NothingLeavesUnawares == MemorySpec => LeaveKnowingly
<1> DEFINE Knowing ==
      \A row \in RowsOf(State) \ RowsOf(State') :
         \/ ~Current(row)
         \/ row \in dismissed
         \/ /\ Len(State') = Count
            /\ State[1] \notin RowsOf(State')
<1>1. ASSUME CandidatesInv, MemoryNext
      PROVE  Knowing
  <2>1. ASSUME NEW p \in Procs, InstallState(p)
        PROVE  Knowing
    <3>1. State = prepared.post \/ State = Image(prepared.before)
      BY <1>1, <2>1, InstallFacts, StateTypes DEF CandidatesInv, PreparedInv
    <3>2. State' = prepared.post /\ Explained(Image(prepared.before), prepared.post, dismissed)
      BY <1>1, <2>1, InstallFacts DEF CandidatesInv, PreparedInv, Good
    <3> QED
      BY <3>1, <3>2 DEF Explained
  <2>2. CASE UNCHANGED candidates
    BY <2>2 DEF State
  <2>3. UNCHANGED candidates \/ \E p \in Procs : InstallState(p)
    BY <1>1 DEF MemoryNext, OthersNext, candidateVars, UpdateCandidates, BeginCandidates, LockCandidates, Prepare,
       StageState, ClearPrepared, RefuseCandidates, DieInCandidates, Tick
  <2> QED
    BY <2>1, <2>2, <2>3
<1>2. CandidatesInv /\ [MemoryNext]_<<vars, candidateVars>> => [Knowing]_candidateVars
  BY <1>1
<1>3. MemorySpec => CandidatesLeaveKnowingly
  BY <1>2, CandidatesInvariant, PTL DEF MemorySpec, CandidatesLeaveKnowingly
<1> QED
  BY <1>3, RemovalsKnowing DEF LeaveKnowingly
=============================================================================
