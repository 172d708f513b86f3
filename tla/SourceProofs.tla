---------------------------- MODULE SourceProofs ----------------------------
(***************************************************************************)
(* Proofs about SourceOwners, for any processes, owners, contents, work    *)
(* and bounds.                                                             *)
(***************************************************************************)
EXTENDS SourceOwners, TLAPS

USE StoreAssumption, SourceAssumption

(* The inductive invariant.  First the types.                              *)
FileTypes ==
    /\ StoreTypeOK
    /\ source \in [Kinds -> Contents \cup {Absent}]
    /\ marker \in [Kinds -> [Contents -> Written \cup Marked]]
    /\ current \in Contents \cup {None}
    /\ deferral \in Deferred \cup {None}
    /\ temps \subseteq Written /\ torn \subseteq Written

Locking == {"idle", "lock"}

ProcTypes ==
    /\ pc \in [Procs -> Steps]
    /\ job \in [Procs -> Effects \cup {None}]
    /\ \A p \in Procs : pc[p] = "idle" <=> job[p] = None
    /\ lock \in [Kinds -> Procs \cup {None}]
    /\ \A k \in Kinds, p \in Procs : lock[k] = p <=> pc[p] \notin Locking /\ job[p].kind = k
    /\ window \subseteq Procs

Counters == calls \in 0 .. MaxCalls /\ edits \in 0 .. MaxEdits /\ crashes \in 0 .. MaxCrashes

(* A marker that is whole is that of a write of its source and postimage,  *)
(* with an intact attempt; a result comes after its attempt; and a result  *)
(* that is committed is that of the write in the marker, or of one that    *)
(* intent has superseded since.                                            *)
MarkerInv ==
    \A k \in Kinds, c \in Contents :
        marker[k][c] \notin Marked =>
            marker[k][c].kind = k /\ marker[k][c].post = c /\ attempts[marker[k][c]] = Admitted

ResultAfterAttempt == \A e \in Effects : attempts[e] # Admitted => results[e] = Absent

CommittedBehind ==
    \A v \in Written :
        Committed(v) =>
            LET m == marker[v.kind][v.post]
            IN m \notin Marked /\ (m = v \/ m.returns > v.returns)

Answered(r) ==
    \E w \in Written : /\ Committed(w)
                       /\ w.kind = r.kind /\ w.post = r.post /\ w.policy = r.policy

CurrentHeld == current # None => "instructions" \in Kinds /\ Held("instructions", current)

DiskInv ==
    /\ MarkerInv
    /\ ResultAfterAttempt
    /\ CommittedBehind
    /\ PublishedOnce
    /\ RecoveryAnswersForOriginal
    /\ CurrentHeld

(* A write that is about to be marked is the first of its postimage, or    *)
(* the next return to it.                                                  *)
Markable(e) ==
    LET m == marker[e.kind][e.post]
    IN \/ m = Absent
       \/ m \notin Marked /\ Committed(m) /\ e.returns > m.returns

(* What a process relies on, under its lock.                               *)
ProcInv(p) ==
    LET e == job[p]
        m == marker[e.kind][e.post] IN
    /\ pc[p] \in {"mark", "stage", "barrier", "project", "install", "unlink"} => e.op = "write"
    /\ pc[p] = "project" => e.kind = "instructions"
    /\ pc[p] = "commit" => e.op \in {"write", "recover"}
    /\ pc[p] \in {"d-barrier", "d-commit"} => e.op = "defer"
    /\ pc[p] \in {"r-verify", "r-original"} => e.op = "recover"
    /\ pc[p] \notin {"idle", "lock", "admit"} => attempts[e] = Admitted
    /\ pc[p] \in {"stage", "barrier", "project", "install", "unlink", "commit"}
          /\ e.op = "write" => m = e
    /\ pc[p] \in {"admit", "mark"} /\ e.op = "write" => Markable(e) \/ m = e
    /\ pc[p] = "mark" => m # e
    /\ pc[p] = "r-original" => m \notin Marked /\ m.policy = e.policy
    /\ pc[p] = "commit" /\ e.op = "recover" => Answered(e)

(* What it saw at its last look, unless that moved since.                  *)
LookInv(p) ==
    LET e == job[p] IN
    p \notin window =>
        /\ pc[p] \in {"project", "install"} => source[e.kind] = e.before /\ e.policy = Policy(e.kind)
        /\ pc[p] \in {"unlink", "commit"} /\ e.op = "write" => source[e.kind] = e.post
        /\ pc[p] = "r-original" => source[e.kind] = e.post

SInv ==
    /\ FileTypes /\ ProcTypes /\ Counters
    /\ DiskInv
    /\ \A p \in Procs : ProcInv(p)
    /\ \A p \in Procs : LookInv(p)


-----------------------------------------------------------------------------
(* What an effect is.                                                      *)
LEMMA EffectFacts ==
  ASSUME NEW e \in Effects
  PROVE  /\ e.op \in {"write", "defer", "recover"}
         /\ e.op = "write" <=> e \in Written
         /\ e.op = "defer" <=> e \in Deferred
         /\ e.kind \in Kinds /\ e.post \in Contents /\ e.returns \in Nat
         /\ e.op = "write" /\ e.kind # "system-intent" => e.returns = 0
         /\ e \notin Marked /\ e # None
<1>1. e \notin Marked /\ e # None
  BY EffectsAssumption DEF Marked
<1>2. CASE e \in Written
  <2>1. e \notin Deferred
    BY <1>2 DEF Written, Deferred, Deferral
  <2>2. QED
    BY <1>1, <1>2, <2>1 DEF Written
<1>3. CASE e \in Deferred
  BY <1>1, <1>3 DEF Written, Deferred, Deferral
<1>4. CASE e \in Recovered
  <2>1. PICK w \in Written : \E t \in Tasks : e = Recovery(w, t)
    BY <1>4 DEF Recovered
  <2>2. e.op = "recover" /\ e.kind = w.kind /\ e.post = w.post /\ e.returns = 0
    BY <2>1 DEF Recovery, Written
  <2>3. w.kind \in Kinds /\ w.post \in Contents
    BY DEF Written
  <2>4. e \notin Written /\ e \notin Deferred
    BY <2>2 DEF Written, Deferred, Deferral
  <2>5. QED
    BY <1>1, <2>2, <2>3, <2>4
<1>5. QED
  BY <1>2, <1>3, <1>4, EffectsAssumption

LEMMA WritesWritten == Writes = Written /\ Written \subseteq Effects
BY EffectFacts, EffectsAssumption DEF Writes

LEMMA InitSInv == Init => SInv
<1> SUFFICES ASSUME Init PROVE SInv
  OBVIOUS
<1>1. FileTypes /\ ProcTypes /\ Counters
  BY DEF Init, StoreInit, FileTypes, ProcTypes, Counters, StoreTypeOK, Marked, Steps, Locking
<1>2. DiskInv
  <2>1. \A e \in Effects : ~Committed(e)
    BY DEF Init, StoreInit, Committed
  <2>2. CommittedBehind /\ PublishedOnce /\ RecoveryAnswersForOriginal
    BY <2>1, WritesWritten DEF CommittedBehind, PublishedOnce, RecoveryAnswersForOriginal, Recoveries
  <2>3. MarkerInv /\ ResultAfterAttempt /\ CurrentHeld
    BY DEF Init, StoreInit, MarkerInv, ResultAfterAttempt, CurrentHeld, Marked
  <2>4. QED
    BY <2>2, <2>3 DEF DiskInv
<1>3. \A p \in Procs : ProcInv(p) /\ LookInv(p)
  BY DEF Init, ProcInv, LookInv
<1>4. QED
  BY <1>1, <1>2, <1>3 DEF SInv

-----------------------------------------------------------------------------
(* What the steps of one process leave to the others.  Records only grow;  *)
(* the markers of an owner change under its lock; and whoever relies on a  *)
(* source that changes is put into the window.                             *)
Grown ==
    \A e \in Effects :
        /\ attempts[e] = Admitted => attempts'[e] = Admitted
        /\ Committed(e) => Committed(e)'

MarkersLeft(p) ==
    \A k \in Kinds : marker'[k] = marker[k] \/ (pc[p] \notin Locking /\ k = job[p].kind)

WindowKept(p) ==
    /\ window \ {p} \subseteq window'
    /\ \A k \in Kinds : source'[k] # source[k] => Exposed(k) \ {p} \subseteq window'

OthersKept(p) == \A q \in Procs \ {p} : pc'[q] = pc[q] /\ job'[q] = job[q]

LEMMA JobFacts ==
  ASSUME ProcTypes, NEW p \in Procs, pc[p] # "idle"
  PROVE  job[p] \in Effects
BY DEF ProcTypes

LEMMA MarkerFacts ==
  ASSUME FileTypes, NEW k \in Kinds, NEW c \in Contents, marker[k][c] \notin Marked
  PROVE  marker[k][c] \in Written /\ marker[k][c] \in Effects
BY WritesWritten DEF FileTypes

LEMMA MarkerNames ==
  ASSUME MarkerInv, NEW k \in Kinds, NEW c \in Contents, marker[k][c] \notin Marked
  PROVE  marker[k][c].kind = k /\ marker[k][c].post = c /\ attempts[marker[k][c]] = Admitted
BY DEF MarkerInv

(* Two processes past their lock are at different owners.                  *)
LEMMA Alone ==
  ASSUME ProcTypes, NEW p \in Procs, NEW q \in Procs, p # q,
         pc[p] \notin Locking, pc[q] \notin Locking
  PROVE  job[p].kind # job[q].kind
<1>1. job[p] \in Effects /\ job[q] \in Effects
  BY JobFacts DEF Locking
<1>2. job[p].kind \in Kinds /\ job[q].kind \in Kinds
  BY <1>1, EffectFacts
<1>3. lock[job[p].kind] = p /\ lock[job[q].kind] = q
  BY <1>2 DEF ProcTypes
<1>4. QED
  BY <1>3

LEMMA AnsweredKept ==
  ASSUME Grown, NEW r, Answered(r)
  PROVE  Answered(r)'
BY WritesWritten DEF Answered, Grown

LEMMA ProcKept ==
  ASSUME SInv, NEW q \in Procs, pc'[q] = pc[q], job'[q] = job[q], Grown,
         pc[q] \notin Locking => marker'[job[q].kind] = marker[job[q].kind]
  PROVE  ProcInv(q)'
<1>1. ProcInv(q) /\ ProcTypes /\ FileTypes
  BY DEF SInv
<1>2. CASE pc[q] \in Locking
  BY <1>2 DEF ProcInv, Locking
<1>3. CASE pc[q] \notin Locking
  <2>1. job[q] \in Effects /\ job[q].kind \in Kinds /\ job[q].post \in Contents
    BY <1>1, <1>3, JobFacts, EffectFacts DEF Locking
  <2> DEFINE m == marker[job[q].kind][job[q].post]
  <2>2. m' = m
    BY <1>3
  <2>3. attempts[job[q]] = Admitted => attempts'[job[q]] = Admitted
    BY <2>1 DEF Grown
  <2>4. Markable(job[q]) => Markable(job[q])'
    <3>1. m \notin Marked => m \in Effects
      BY <1>1, <2>1, MarkerFacts
    <3>2. CASE m \notin Marked
      <4>1. PICK x \in Effects : x = m
        BY <3>1, <3>2
      <4>2. Committed(x) => Committed(x)'
        BY DEF Grown
      <4>3. (Committed(m) <=> Committed(x)) /\ (Committed(m)' <=> Committed(x)')
        BY <2>2, <4>1 DEF Committed
      <4>4. QED
        BY <2>2, <4>2, <4>3 DEF Markable
    <3>3. CASE m \in Marked
      BY <2>2, <3>3 DEF Markable
    <3>4. QED
      BY <3>2, <3>3
  <2>5. Answered(job[q]) => Answered(job[q])'
    BY AnsweredKept DEF Answered
  <2>6. QED
    BY <1>1, <2>2, <2>3, <2>4, <2>5 DEF ProcInv
<1>4. QED
  BY <1>2, <1>3

LEMMA LookKept ==
  ASSUME SInv, NEW q \in Procs, pc'[q] = pc[q], job'[q] = job[q],
         q \in window => q \in window',
         \A k \in Kinds : source'[k] # source[k] /\ q \in Exposed(k) => q \in window'
  PROVE  LookInv(q)'
<1>1. LookInv(q) /\ ProcTypes
  BY DEF SInv
<1>2. SUFFICES ASSUME q \notin window',
                      pc[q] \in {"project", "install", "unlink", "commit", "r-original"}
               PROVE  LookInv(q)'
  BY DEF LookInv
<1>3. job[q] \in Effects /\ job[q].kind \in Kinds
  BY <1>1, <1>2, JobFacts, EffectFacts
<1>4. \A k \in Kinds : k \in {job[q].kind, "configuration"} => source'[k] = source[k]
  BY <1>2 DEF Exposed
<1>5. source'[job[q].kind] = source[job[q].kind] /\ Policy(job[q].kind)' = Policy(job[q].kind)
  BY <1>3, <1>4 DEF Policy
<1>6. QED
  BY <1>1, <1>2, <1>5 DEF LookInv

(* A step of one process.                                                  *)
LEMMA StepInv ==
  ASSUME SInv, NEW p \in Procs, OthersKept(p), Grown, MarkersLeft(p), WindowKept(p),
         FileTypes', ProcTypes', Counters', DiskInv', ProcInv(p)', LookInv(p)'
  PROVE  SInv'
<1>1. ASSUME NEW q \in Procs, q # p PROVE ProcInv(q)'
  <2>1. pc[q] \notin Locking => marker'[job[q].kind] = marker[job[q].kind]
    <3> SUFFICES ASSUME pc[q] \notin Locking PROVE marker'[job[q].kind] = marker[job[q].kind]
      OBVIOUS
    <3>1. ProcTypes
      BY DEF SInv
    <3>2. job[q] \in Effects
      BY <3>1, JobFacts DEF Locking
    <3>3. job[q].kind \in Kinds
      BY <3>2, EffectFacts
    <3>4. pc[p] \notin Locking => job[p].kind # job[q].kind
      BY <1>1, <3>1, Alone
    <3>5. QED
      BY <3>3, <3>4 DEF MarkersLeft
  <2>2. QED
    BY <1>1, <2>1, ProcKept DEF OthersKept
<1>2. ASSUME NEW q \in Procs, q # p PROVE LookInv(q)'
  BY <1>2, LookKept DEF OthersKept, WindowKept
<1>3. \A q \in Procs : ProcInv(q)' /\ LookInv(q)'
  BY <1>1, <1>2
<1>4. QED
  BY <1>3 DEF SInv


-----------------------------------------------------------------------------
(* What the store operations do to the records, the markers staying.       *)
LEMMA HeldKept ==
  ASSUME FileTypes, Grown, NEW k \in Kinds, NEW c \in Contents, Held(k, c), marker'[k][c] = marker[k][c]
  PROVE  Held(k, c)'
BY MarkerFacts DEF Held, Grown

LEMMA DiskSame ==
  ASSUME FileTypes, DiskInv, UNCHANGED <<marker, current>>, Grown, ResultAfterAttempt',
         \A x \in Effects : Committed(x)' <=> Committed(x)
  PROVE  DiskInv'
<1>1. MarkerInv'
  BY MarkerFacts DEF DiskInv, MarkerInv, Grown
<1>2. CommittedBehind' /\ PublishedOnce' /\ RecoveryAnswersForOriginal'
  BY WritesWritten DEF DiskInv, CommittedBehind, PublishedOnce, RecoveryAnswersForOriginal, Recoveries, Writes
<1>3. CurrentHeld'
  BY HeldKept DEF DiskInv, CurrentHeld, FileTypes
<1>4. QED
  BY <1>1, <1>2, <1>3 DEF DiskInv

LEMMA AdmitDisk ==
  ASSUME FileTypes, DiskInv, NEW e \in Effects, Admit(e) \/ TearAttempt(e), UNCHANGED <<marker, current>>
  PROVE  StoreTypeOK' /\ Grown /\ DiskInv' /\ (Admit(e) => attempts'[e] = Admitted)
<1>1. StoreTypeOK' /\ (Admit(e) => attempts'[e] = Admitted)
  BY DEF FileTypes, StoreTypeOK, Admit, TearAttempt
<1>2. \A x \in Effects : /\ attempts[x] = Admitted => attempts'[x] = Admitted
                         /\ results'[x] = results[x]
                         /\ attempts[x] # Admitted => results[x] = Absent
  BY DEF FileTypes, StoreTypeOK, Admit, TearAttempt, CanAdmit, DiskInv, ResultAfterAttempt
<1>3. ResultAfterAttempt'
  BY <1>2 DEF FileTypes, StoreTypeOK, Admit, TearAttempt, CanAdmit, ResultAfterAttempt
<1>4. \A x \in Effects : Committed(x)' <=> Committed(x)
  BY <1>2 DEF Committed
<1>5. Grown
  BY <1>2, <1>4 DEF Grown
<1>6. QED
  BY <1>1, <1>3, <1>4, <1>5, DiskSame

LEMMA TearDisk ==
  ASSUME FileTypes, DiskInv, NEW e \in Effects, TearResult(e), UNCHANGED <<marker, current>>
  PROVE  StoreTypeOK' /\ Grown /\ DiskInv'
<1>1. StoreTypeOK' /\ ResultAfterAttempt'
  BY DEF FileTypes, StoreTypeOK, TearResult, CanCommit, DiskInv, ResultAfterAttempt
<1>2. \A x \in Effects : Committed(x)' <=> Committed(x)
  BY DEF FileTypes, StoreTypeOK, TearResult, CanCommit, Committed
<1>3. Grown
  BY <1>2 DEF Grown, TearResult
<1>4. QED
  BY <1>1, <1>2, <1>3, DiskSame

LEMMA CommitDisk ==
  ASSUME FileTypes, DiskInv, NEW e \in Effects, Commit(e, Done), UNCHANGED <<marker, current>>,
         e.op = "write" => marker[e.kind][e.post] = e,
         e.op = "recover" => Answered(e)
  PROVE  StoreTypeOK' /\ Grown /\ DiskInv' /\ Committed(e)'
<1>1. StoreTypeOK' /\ ResultAfterAttempt' /\ Committed(e)' /\ ~Committed(e)
  BY DEF FileTypes, StoreTypeOK, Commit, CanCommit, DiskInv, ResultAfterAttempt, Committed
<1>2. \A x \in Effects : Committed(x)' <=> Committed(x) \/ x = e
  BY <1>1 DEF FileTypes, StoreTypeOK, Commit, CanCommit, Committed
<1>3. Grown
  BY <1>2 DEF Grown, Commit
<1>4. MarkerInv'
  BY MarkerFacts DEF DiskInv, MarkerInv, Commit
<1>5. CurrentHeld'
  BY <1>3, HeldKept DEF DiskInv, CurrentHeld, FileTypes
<1>6. CommittedBehind'
  <2> SUFFICES ASSUME NEW v \in Written, Committed(v)'
               PROVE  LET m == marker[v.kind][v.post] IN m \notin Marked /\ (m = v \/ m.returns > v.returns)
    BY DEF CommittedBehind
  <2>1. CASE v = e
    BY <2>1, WritesWritten, EffectFacts
  <2>2. CASE v # e
    BY <1>2, <2>2, WritesWritten DEF DiskInv, CommittedBehind
  <2>3. QED
    BY <2>1, <2>2
<1>7. PublishedOnce'
  <2>1. ASSUME NEW w \in Written, Committed(w), e.op = "write",
               e.kind = w.kind, e.post = w.post, e.returns = w.returns
        PROVE  e = w
    <3>1. e.returns \in Nat
      BY EffectFacts
    <3>2. LET m == marker[w.kind][w.post] IN m = w \/ m.returns > w.returns
      BY <2>1 DEF DiskInv, CommittedBehind
    <3>3. QED
      BY <2>1, <3>1, <3>2
  <2>2. SUFFICES ASSUME NEW v \in Written, NEW w \in Written, Committed(v)', Committed(w)',
                        v.kind = w.kind, v.post = w.post, v.returns = w.returns
                 PROVE  v = w
    BY WritesWritten DEF PublishedOnce
  <2>3. (Committed(v) \/ v = e) /\ (Committed(w) \/ w = e)
    BY <1>2, <2>2, WritesWritten
  <2>4. v.op = "write" /\ w.op = "write"
    BY DEF Written
  <2>5. CASE Committed(v) /\ Committed(w)
    BY <2>2, <2>5, WritesWritten DEF DiskInv, PublishedOnce
  <2>6. QED
    BY <2>1, <2>2, <2>3, <2>4, <2>5
<1>8. RecoveryAnswersForOriginal'
  <2> SUFFICES ASSUME NEW r \in Recoveries, Committed(r)' PROVE Answered(r)'
    BY WritesWritten DEF RecoveryAnswersForOriginal, Answered
  <2>1. r \in Effects /\ r.op = "recover"
    BY DEF Recoveries
  <2>2. Answered(r)
    BY <1>2, <2>1, WritesWritten DEF DiskInv, RecoveryAnswersForOriginal, Answered
  <2>3. QED
    BY <1>3, <2>2, AnsweredKept
<1>9. QED
  BY <1>1, <1>3, <1>4, <1>5, <1>6, <1>7, <1>8 DEF DiskInv

LEMMA StillDisk ==
  ASSUME FileTypes, DiskInv, UNCHANGED <<attempts, results, marker, current>>
  PROVE  StoreTypeOK' /\ Grown /\ DiskInv'
<1>1. \A x \in Effects : Committed(x)' <=> Committed(x)
  BY DEF Committed
<1>2. StoreTypeOK' /\ Grown /\ ResultAfterAttempt'
  BY <1>1 DEF FileTypes, StoreTypeOK, Grown, DiskInv, ResultAfterAttempt
<1>3. QED
  BY <1>1, <1>2, DiskSame

-----------------------------------------------------------------------------
(* Where a process goes.                                                   *)
LEMMA MoveTypes ==
  ASSUME ProcTypes, NEW p \in Procs, pc[p] \notin Locking, NEW step \in Steps \ Locking,
         pc' = [pc EXCEPT ![p] = step], UNCHANGED <<job, lock>>, window' \subseteq Procs
  PROVE  ProcTypes' /\ OthersKept(p) /\ pc'[p] = step /\ job'[p] = job[p]
BY DEF ProcTypes, Locking, OthersKept

LEMMA LeaveTypes ==
  ASSUME ProcTypes, NEW p \in Procs, Leave(p)
  PROVE  ProcTypes' /\ OthersKept(p) /\ pc'[p] = "idle" /\ window \ {p} \subseteq window'
<1>1. /\ pc' = [pc EXCEPT ![p] = "idle"] /\ job' = [job EXCEPT ![p] = None]
      /\ window' = window \ {p} /\ lock' = [k \in Kinds |-> IF lock[k] = p THEN None ELSE lock[k]]
  BY DEF Leave
<1>2. \A k \in Kinds, q \in Procs : lock'[k] = q <=> pc'[q] \notin Locking /\ job'[q].kind = k
  BY <1>1 DEF ProcTypes, Locking
<1>3. QED
  BY <1>1, <1>2 DEF ProcTypes, OthersKept, Steps

(* A call returns, fails or dies.                                          *)
LEMMA LeaveInv ==
  ASSUME SInv, NEW p \in Procs, Leave(p), Grown, MarkersLeft(p), UNCHANGED source,
         FileTypes', Counters', DiskInv'
  PROVE  SInv'
<1>1. ProcTypes' /\ OthersKept(p) /\ pc'[p] = "idle" /\ window \ {p} \subseteq window'
  BY LeaveTypes DEF SInv
<1>2. ProcInv(p)' /\ LookInv(p)'
  BY <1>1 DEF ProcInv, LookInv
<1>3. WindowKept(p)
  BY <1>1 DEF WindowKept
<1>4. QED
  BY <1>1, <1>2, <1>3, StepInv

(* A process goes on under its lock and leaves the source alone.           *)
LEMMA MoveInv ==
  ASSUME SInv, NEW p \in Procs, pc[p] \notin Locking, NEW step \in Steps \ Locking,
         pc' = [pc EXCEPT ![p] = step], UNCHANGED <<job, lock, window, source, calls, edits, crashes>>,
         Grown, MarkersLeft(p), FileTypes', DiskInv', ProcInv(p)', LookInv(p)'
  PROVE  SInv'
<1>1. ProcTypes' /\ OthersKept(p)
  BY MoveTypes DEF SInv, ProcTypes
<1>2. WindowKept(p) /\ Counters'
  BY DEF WindowKept, SInv, Counters
<1>3. QED
  BY <1>1, <1>2, StepInv


-----------------------------------------------------------------------------
(* The steps that touch the records alone, or nothing.                     *)
LEMMA Parts == ASSUME SInv
               PROVE  /\ FileTypes /\ ProcTypes /\ Counters /\ DiskInv
                      /\ \A p \in Procs : ProcInv(p) /\ LookInv(p)
BY DEF SInv

LEMMA RecordTypes ==
  ASSUME FileTypes, StoreTypeOK', UNCHANGED <<source, marker, current, deferral, temps, torn>>
  PROVE  FileTypes'
BY DEF FileTypes

LEMMA RefuseInv ==
  ASSUME SInv, NEW p \in Procs, Refuse(p), UNCHANGED <<calls, edits, crashes>>
  PROVE  SInv'
<1>1. Leave(p) /\ UNCHANGED <<attempts, results, source, marker, current, deferral, temps, torn>>
  BY DEF Refuse, diskVars
<1>2. StoreTypeOK' /\ Grown /\ DiskInv'
  BY <1>1, Parts, StillDisk
<1>3. MarkersLeft(p) /\ FileTypes' /\ Counters'
  BY <1>1, <1>2, Parts, RecordTypes DEF MarkersLeft, Counters
<1>4. QED
  BY <1>1, <1>2, <1>3, LeaveInv

LEMMA CommitInv ==
  ASSUME SInv, NEW p \in Procs, CommitWrite(p) \/ CommitDeferral(p), UNCHANGED <<calls, edits, crashes>>
  PROVE  SInv'
<1>1. /\ pc[p] \in {"commit", "d-commit"} /\ Commit(job[p], Done) /\ Leave(p)
      /\ UNCHANGED <<source, marker, current, deferral, temps, torn>>
  BY DEF CommitWrite, CommitDeferral, At, Effect
<1>2. PICK e \in Effects : e = job[p]
  BY <1>1, Parts, JobFacts
<1>3. e.op = "write" => marker[e.kind][e.post] = e
  BY <1>1, <1>2, Parts DEF ProcInv
<1>4. e.op = "recover" => Answered(e)
  BY <1>1, <1>2, Parts DEF ProcInv
<1>5. StoreTypeOK' /\ Grown /\ DiskInv'
  BY <1>1, <1>2, <1>3, <1>4, Parts, CommitDisk
<1>6. MarkersLeft(p) /\ FileTypes' /\ Counters'
  BY <1>1, <1>5, Parts, RecordTypes DEF MarkersLeft, Counters
<1>7. QED
  BY <1>1, <1>5, <1>6, LeaveInv

LEMMA AdmissionInv ==
  ASSUME SInv, NEW p \in Procs, Admission(p), UNCHANGED <<calls, edits, crashes>>
  PROVE  SInv'
<1>1. PICK e \in Effects : e = job[p]
  BY Parts, JobFacts DEF Admission, At
<1>2. /\ pc[p] = "admit" /\ May(p) /\ pc' = [pc EXCEPT ![p] = AfterAdmission(e)]
      /\ IF CanAdmit(e) THEN Admit(e) ELSE UNCHANGED <<attempts, results>>
      /\ UNCHANGED <<source, marker, current, deferral, temps, torn, job, lock, window>>
  BY <1>1 DEF Admission, At, Effect, Continue
<1>3. StoreTypeOK' /\ Grown /\ DiskInv'
  BY <1>2, Parts, AdmitDisk, StillDisk
<1>4. attempts'[e] = Admitted
  <2>1. CASE CanAdmit(e)
    BY <1>2, <2>1, Parts, AdmitDisk
  <2>2. CASE ~CanAdmit(e)
    BY <1>1, <1>2, <2>2 DEF May, At, Effect, CanPrepare
  <2>3. QED
    BY <2>1, <2>2
<1>5. /\ e.op \in {"write", "defer", "recover"} /\ e.kind \in Kinds /\ e.post \in Contents
      /\ e.op = "write" => Markable(e) \/ marker[e.kind][e.post] = e
  BY <1>1, <1>2, Parts, EffectFacts DEF ProcInv
<1>6. AfterAdmission(e) \in Steps \ Locking
  BY <1>5 DEF AfterAdmission, Steps, Locking
<1>7. pc'[p] = AfterAdmission(e) /\ job'[p] = e
  BY <1>1, <1>2, Parts DEF ProcTypes
<1>8. ProcInv(p)'
  <2>1. CASE e.op = "write" /\ marker[e.kind][e.post] = e
    BY <1>2, <1>4, <1>5, <1>7, <2>1 DEF ProcInv, AfterAdmission, Resumed
  <2>2. CASE e.op = "write" /\ marker[e.kind][e.post] # e
    <3>1. Markable(e)'
      <4>1. CASE marker[e.kind][e.post] = Absent
        BY <1>2, <4>1 DEF Markable
      <4>2. CASE marker[e.kind][e.post] \notin Marked
        <5>1. PICK x \in Effects : x = marker[e.kind][e.post]
          BY <1>5, <4>2, Parts, MarkerFacts
        <5>2. Committed(x) /\ e.returns > x.returns
          BY <1>5, <2>2, <4>2, <5>1 DEF Markable, Marked
        <5>3. Committed(x)'
          BY <1>3, <5>2 DEF Grown
        <5>4. QED
          BY <1>2, <4>2, <5>1, <5>2, <5>3 DEF Markable, Committed
      <4>3. QED
        BY <1>5, <2>2, <4>1, <4>2 DEF Markable, Marked
    <3>2. QED
      BY <1>2, <1>4, <1>5, <1>7, <2>2, <3>1 DEF ProcInv, AfterAdmission, Resumed
  <2>3. CASE e.op = "defer"
    BY <1>4, <1>7, <2>3 DEF ProcInv, AfterAdmission
  <2>4. CASE e.op = "recover"
    BY <1>4, <1>7, <2>4 DEF ProcInv, AfterAdmission
  <2>5. QED
    BY <1>5, <2>1, <2>2, <2>3, <2>4
<1>9. LookInv(p)'
  BY <1>5, <1>7 DEF LookInv, AfterAdmission
<1>10. MarkersLeft(p) /\ FileTypes' /\ pc[p] \notin Locking
  BY <1>2, <1>3, Parts, RecordTypes DEF MarkersLeft, Locking
<1>11. QED
  BY <1>2, <1>3, <1>6, <1>8, <1>9, <1>10, MoveInv

(* The steps that look, or that touch only a temporary or the deferral.    *)
LEMMA PlainInv ==
  ASSUME SInv, NEW p \in Procs, pc[p] \notin Locking, NEW step \in Steps \ Locking,
         pc' = [pc EXCEPT ![p] = step],
         UNCHANGED <<attempts, results, source, marker, current, job, lock, window, calls, edits, crashes>>,
         FileTypes', ProcInv(p)', LookInv(p)'
  PROVE  SInv'
<1>1. Grown /\ DiskInv' /\ MarkersLeft(p)
  BY Parts, StillDisk DEF MarkersLeft
<1>2. QED
  BY <1>1, MoveInv

LEMMA StageInv ==
  ASSUME SInv, NEW p \in Procs, Stage(p), UNCHANGED <<calls, edits, crashes>>
  PROVE  SInv'
<1>1. /\ pc[p] = "stage" /\ pc' = [pc EXCEPT ![p] = "barrier"] /\ temps' = temps \cup {job[p]}
      /\ UNCHANGED <<attempts, results, source, marker, current, deferral, torn, job, lock, window>>
  BY DEF Stage, At, Effect, Continue
<1>2. pc'[p] = "barrier" /\ job[p] \in Effects /\ job[p].op = "write" /\ pc[p] \notin Locking
  BY <1>1, Parts, JobFacts DEF ProcTypes, ProcInv, Locking
<1>3. FileTypes'
  BY <1>1, <1>2, Parts, EffectFacts DEF FileTypes, StoreTypeOK
<1>4. ProcInv(p)' /\ LookInv(p)'
  BY <1>1, <1>2, Parts DEF ProcInv, LookInv
<1>5. QED
  BY <1>1, <1>2, <1>3, <1>4, PlainInv DEF Steps, Locking

LEMMA BarrierInv ==
  ASSUME SInv, NEW p \in Procs, Barrier(p), UNCHANGED <<calls, edits, crashes>>
  PROVE  SInv'
<1> DEFINE e == job[p]
           step == IF e.kind = "instructions" THEN "project" ELSE "install"
<1>1. /\ pc[p] = "barrier" /\ pc' = [pc EXCEPT ![p] = step] /\ Revalidated(e)
      /\ UNCHANGED <<attempts, results, source, marker, current, deferral, temps, torn, job, lock, window>>
  BY DEF Barrier, May, At, Effect, Kind, Continue, diskVars
<1>2. pc'[p] = step /\ e.op = "write" /\ pc[p] \notin Locking /\ step \in Steps \ Locking
  BY <1>1, Parts DEF ProcTypes, ProcInv, Locking, Steps
<1>3. source[e.kind] = e.before /\ e.policy = Policy(e.kind)
  BY <1>1, <1>2 DEF Revalidated, WriteOffered
<1>4. FileTypes'
  BY <1>1, Parts DEF FileTypes, StoreTypeOK
<1>5. ProcInv(p)'
  BY <1>1, <1>2, Parts DEF ProcInv
<1>6. LookInv(p)'
  BY <1>1, <1>2, <1>3 DEF LookInv, Policy
<1>7. QED
  BY <1>1, <1>2, <1>4, <1>5, <1>6, PlainInv

LEMMA UnlinkInv ==
  ASSUME SInv, NEW p \in Procs, Unlink(p), UNCHANGED <<calls, edits, crashes>>
  PROVE  SInv'
<1>1. /\ pc[p] = "unlink" /\ pc' = [pc EXCEPT ![p] = "commit"]
      /\ temps' \subseteq temps /\ deferral' \in {None, deferral}
      /\ UNCHANGED <<attempts, results, source, marker, current, torn, job, lock, window>>
  BY DEF Unlink, At, Continue
<1>2. pc'[p] = "commit" /\ job[p].op = "write" /\ pc[p] \notin Locking
  BY <1>1, Parts DEF ProcTypes, ProcInv, Locking
<1>3. FileTypes'
  BY <1>1, Parts DEF FileTypes, StoreTypeOK
<1>4. ProcInv(p)' /\ LookInv(p)'
  BY <1>1, <1>2, Parts DEF ProcInv, LookInv
<1>5. QED
  BY <1>1, <1>2, <1>3, <1>4, PlainInv DEF Steps, Locking

LEMMA InstallDeferralInv ==
  ASSUME SInv, NEW p \in Procs, InstallDeferral(p), UNCHANGED <<calls, edits, crashes>>
  PROVE  SInv'
<1>1. /\ pc[p] = "d-barrier" /\ pc' = [pc EXCEPT ![p] = "d-commit"] /\ deferral' = job[p]
      /\ UNCHANGED <<attempts, results, source, marker, current, temps, torn, job, lock, window>>
  BY DEF InstallDeferral, At, Continue, Effect
<1>2. pc'[p] = "d-commit" /\ job[p] \in Effects /\ job[p].op = "defer" /\ pc[p] \notin Locking
  BY <1>1, Parts, JobFacts DEF ProcTypes, ProcInv, Locking
<1>3. FileTypes'
  BY <1>1, <1>2, Parts, EffectFacts DEF FileTypes, StoreTypeOK
<1>4. ProcInv(p)' /\ LookInv(p)'
  BY <1>1, <1>2, Parts DEF ProcInv, LookInv
<1>5. QED
  BY <1>1, <1>2, <1>3, <1>4, PlainInv DEF Steps, Locking


-----------------------------------------------------------------------------
(* The beginning of a call, and its lock.                                  *)
LEMMA DeferralOf ==
  ASSUME NEW k, NEW b, NEW c, NEW x, NEW t, NEW n
  PROVE  [Deferral(Write(k, b, c, x, t, n)) EXCEPT !.op = "write"] = Write(k, b, c, x, t, n)
<1> DEFINE d == [op |-> "defer", kind |-> k, before |-> b, post |-> c,
                 policy |-> x, task |-> t, returns |-> n]
<1>1. Deferral(Write(k, b, c, x, t, n)) = d
  BY DEF Deferral, Write
<1>2. [d EXCEPT !.op = "write"] = Write(k, b, c, x, t, n)
  BY DEF Write
<1>3. QED
  BY <1>1, <1>2

LEMMA OfferedIsEffect ==
  ASSUME FileTypes, NEW k \in Kinds, NEW c \in Contents, NEW t \in Tasks, NEW e \in Requests(k, c, t)
  PROVE  e \in Effects
<1> DEFINE w == Write(k, source[k], c, Policy(k), t, Returns(k, c))
<1>1. Policy(k) \in Policies(k)
  BY DEF FileTypes, Policy, Policies
<1>2. Returns(k, c) \in Nat /\ (k # "system-intent" => Returns(k, c) = 0)
  BY MarkerFacts, EffectFacts DEF Returns, Held
<1>3. ASSUME Returns(k, c) <= MaxReturns, k # "instructions" => source[k] # c
      PROVE  w \in Written
  BY <1>1, <1>2, <1>3 DEF Written, Write, FileTypes, Policies
<1>4. ASSUME Revalidated(w) PROVE k # "instructions" => source[k] # c
  BY <1>4 DEF Revalidated, WriteOffered, Write, ConfigurationOffered, IntentOffered, SourceAssumption
<1>5. ASSUME Revalidated(Deferral(w)), k = "configuration" PROVE source[k] # c
  <2>1. [Deferral(w) EXCEPT !.op = "write"] = w
    BY DeferralOf
  <2>2. WriteOffered(w)
    BY <1>5, <2>1 DEF Revalidated, Deferral, Write
  <2>3. QED
    BY <1>5, <2>2 DEF WriteOffered, Write, ConfigurationOffered
<1> DEFINE writes == IF k = "configuration" THEN {w, Deferral(w)} ELSE {w}
           recoveries == IF Held(k, c) THEN {Recovery(marker[k][c], t)} ELSE {}
<1>r. \/ e \in writes /\ e.returns <= MaxReturns /\ Revalidated(e)
      \/ e \in recoveries
  <2> HIDE DEF writes, recoveries, w
  <2>1. e \in {x \in writes : x.returns <= MaxReturns /\ Revalidated(x)}
             \cup {r \in recoveries : RecoveryOffered(r)}
    BY DEF Requests, writes, recoveries, w
  <2>2. QED
    BY <2>1, Zenon
<1>6. CASE e = w /\ e.returns <= MaxReturns /\ Revalidated(e)
  BY <1>3, <1>4, <1>6, WritesWritten DEF Write
<1>7. CASE k = "configuration" /\ e = Deferral(w) /\ Revalidated(e)
  <2>1. Returns(k, c) = 0
    BY <1>2, <1>7
  <2>2. w \in Written /\ w.kind = "configuration"
    BY <1>3, <1>5, <1>7, <2>1 DEF Write
  <2>3. QED
    BY <1>7, <2>2, EffectsAssumption DEF Deferred
<1>8. CASE Held(k, c) /\ e = Recovery(marker[k][c], t)
  <2>1. marker[k][c] \in Written
    BY <1>8, MarkerFacts DEF Held
  <2>2. QED
    BY <1>8, <2>1, EffectsAssumption DEF Recovered
<1>9. QED
  BY <1>r, <1>6, <1>7, <1>8


LEMMA BeginInv ==
  ASSUME SInv, NEW p \in Procs, NEW e \in Effects, Begin(p, e)
  PROVE  SInv'
<1>1. /\ pc[p] = "idle" /\ pc' = [pc EXCEPT ![p] = "lock"] /\ job' = [job EXCEPT ![p] = e]
      /\ UNCHANGED <<attempts, results, source, marker, current, deferral, temps, torn,
                     lock, window, edits, crashes>>
      /\ calls' \in 0 .. MaxCalls
  BY Parts DEF Begin, At, diskVars, Counters
<1>2. pc'[p] = "lock" /\ job'[p] = e /\ OthersKept(p)
  BY <1>1, Parts DEF ProcTypes, OthersKept
<1>3. e # None
  BY EffectFacts
<1>4. ProcTypes'
  <2>1. pc' \in [Procs -> Steps] /\ job' \in [Procs -> Effects \cup {None}]
    BY <1>1, Parts DEF ProcTypes, Steps
  <2>2. \A q \in Procs : pc'[q] = "idle" <=> job'[q] = None
    BY <1>2, <1>3, Parts DEF ProcTypes, OthersKept
  <2>3. \A k \in Kinds, q \in Procs : lock'[k] = q <=> pc'[q] \notin Locking /\ job'[q].kind = k
    BY <1>1, <1>2, Parts DEF ProcTypes, OthersKept, Locking
  <2>4. QED
    BY <1>1, <2>1, <2>2, <2>3, Parts DEF ProcTypes
<1>5. FileTypes' /\ Counters'
  BY <1>1, Parts DEF FileTypes, StoreTypeOK, Counters
<1>6. Grown /\ DiskInv' /\ MarkersLeft(p) /\ WindowKept(p)
  BY <1>1, Parts, StillDisk DEF MarkersLeft, WindowKept
<1>7. ProcInv(p)' /\ LookInv(p)'
  BY <1>2 DEF ProcInv, LookInv
<1>8. QED
  BY <1>2, <1>4, <1>5, <1>6, <1>7, StepInv

(* Under the lock a write finds its postimage unmarked, superseded or its  *)
(* own.                                                                    *)
LEMMA PreparedMarkable ==
  ASSUME FileTypes, NEW e \in Written, CanPrepareWrite(e)
  PROVE  Markable(e) \/ marker[e.kind][e.post] = e
<1>1. /\ e.op = "write" /\ e.kind \in Kinds /\ e.post \in Contents
  BY DEF Written
<1>2. CASE marker[e.kind][e.post] = Absent
  BY <1>2 DEF Markable
<1>3. CASE Held(e.kind, e.post) /\ ~Superseding(e)
  BY <1>3 DEF CanPrepareWrite, Resumed
<1>4. CASE Superseding(e)
  <2>1. Held(e.kind, e.post) /\ Committed(marker[e.kind][e.post]) /\ e.kind = "system-intent"
    BY <1>4 DEF Superseding, Consumed
  <2>2. IntentOffered(e)
    BY <1>1, <2>1 DEF CanPrepareWrite, Revalidated, WriteOffered
  <2>3. e.returns = marker[e.kind][e.post].returns + 1
    BY <2>1, <2>2 DEF IntentOffered, Returns
  <2>4. marker[e.kind][e.post].returns \in Nat
    BY <1>1, <2>1, MarkerFacts, EffectFacts DEF Held
  <2>5. QED
    BY <2>1, <2>3, <2>4 DEF Markable, Held
<1>5. QED
  BY <1>2, <1>3, <1>4 DEF CanPrepareWrite, Readable

LEMMA LockInv ==
  ASSUME SInv, NEW p \in Procs, Lock(p), UNCHANGED <<calls, edits, crashes>>
  PROVE  SInv'
<1>1. PICK e \in Effects : e = job[p]
  BY Parts, JobFacts DEF Lock, At
<1>2. /\ pc[p] = "lock" /\ lock[e.kind] = None /\ lock' = [lock EXCEPT ![e.kind] = p]
      /\ pc' = [pc EXCEPT ![p] = "admit"] /\ (e.op = "write" => CanPrepareWrite(e))
      /\ UNCHANGED <<attempts, results, source, marker, current, deferral, temps, torn, job, window>>
  BY <1>1 DEF Lock, May, At, Effect, Kind, diskVars
<1>3. e.kind \in Kinds /\ pc'[p] = "admit" /\ job'[p] = e /\ OthersKept(p)
  BY <1>1, <1>2, Parts, EffectFacts DEF ProcTypes, OthersKept
<1>4. ProcTypes'
  <2>1. pc' \in [Procs -> Steps] /\ lock' \in [Kinds -> Procs \cup {None}]
    BY <1>2, Parts DEF ProcTypes, Steps
  <2>2. \A q \in Procs : pc'[q] = "idle" <=> job'[q] = None
    BY <1>2, Parts DEF ProcTypes
  <2>3. ASSUME NEW k \in Kinds, NEW q \in Procs
        PROVE  lock'[k] = q <=> pc'[q] \notin Locking /\ job'[q].kind = k
    <3>1. CASE q = p
      BY <1>1, <1>2, <1>3, <3>1, Parts DEF ProcTypes, Locking
    <3>2. CASE q # p
      BY <1>1, <1>2, <1>3, <3>2, Parts DEF ProcTypes, Locking, OthersKept
    <3>3. QED
      BY <3>1, <3>2
  <2>4. QED
    BY <1>2, <2>1, <2>2, <2>3, Parts DEF ProcTypes
<1>5. FileTypes' /\ Counters'
  BY <1>2, Parts DEF FileTypes, StoreTypeOK, Counters
<1>6. Grown /\ DiskInv' /\ MarkersLeft(p) /\ WindowKept(p)
  BY <1>2, Parts, StillDisk DEF MarkersLeft, WindowKept
<1>7. e.op = "write" => Markable(e)' \/ marker[e.kind][e.post] = e
  <2>1. e.op = "write" => Markable(e) \/ marker[e.kind][e.post] = e
    BY <1>2, Parts, EffectFacts, PreparedMarkable
  <2>2. Markable(e) => Markable(e)'
    BY <1>2 DEF Markable, Committed
  <2>3. QED
    BY <2>1, <2>2
<1>8. ProcInv(p)' /\ LookInv(p)'
  BY <1>2, <1>3, <1>7 DEF ProcInv, LookInv, Markable, Committed
<1>9. QED
  BY <1>3, <1>4, <1>5, <1>6, <1>8, StepInv


-----------------------------------------------------------------------------
(* The marker: created where there is none, or over one that is settled.   *)
LEMMA MarkDisk ==
  ASSUME FileTypes, DiskInv, NEW e \in Written, NEW x,
         marker' = [marker EXCEPT ![e.kind][e.post] = x], UNCHANGED <<attempts, results, current>>,
         \/ x = e /\ attempts[e] = Admitted /\ Markable(e)
            /\ (marker[e.kind][e.post] # Absent => e.kind = "system-intent")
         \/ x = Torn /\ marker[e.kind][e.post] = Absent
  PROVE  marker' \in [Kinds -> [Contents -> Written \cup Marked]] /\ Grown /\ DiskInv'
<1>1. e.kind \in Kinds /\ e.post \in Contents /\ e \notin Marked /\ x \in Written \cup Marked
  BY WritesWritten, EffectFacts DEF Written, Marked
<1>2. /\ marker' \in [Kinds -> [Contents -> Written \cup Marked]]
      /\ marker'[e.kind][e.post] = x
      /\ \A k \in Kinds, c \in Contents : k # e.kind \/ c # e.post => marker'[k][c] = marker[k][c]
  BY <1>1 DEF FileTypes
<1>3. \A v \in Effects : Committed(v)' <=> Committed(v)
  BY DEF Committed
<1>4. Grown /\ ResultAfterAttempt'
  BY <1>3 DEF Grown, DiskInv, ResultAfterAttempt
<1>5. MarkerInv'
  <2> SUFFICES ASSUME NEW k \in Kinds, NEW c \in Contents, marker'[k][c] \notin Marked
               PROVE  marker'[k][c].kind = k /\ marker'[k][c].post = c /\ attempts[marker'[k][c]] = Admitted
    BY DEF MarkerInv
  <2>1. CASE k = e.kind /\ c = e.post
    BY <1>2, <2>1 DEF Marked
  <2>2. CASE k # e.kind \/ c # e.post
    BY <1>2, <2>2 DEF DiskInv, MarkerInv
  <2>3. QED
    BY <2>1, <2>2
<1>6. CommittedBehind'
  <2> SUFFICES ASSUME NEW v \in Written, Committed(v)
               PROVE  marker'[v.kind][v.post] \notin Marked
                      /\ (marker'[v.kind][v.post] = v \/ marker'[v.kind][v.post].returns > v.returns)
    BY <1>3, WritesWritten DEF CommittedBehind
  <2>1. v.kind \in Kinds /\ v.post \in Contents
    BY DEF Written
  <2>2. /\ marker[v.kind][v.post] \notin Marked
        /\ marker[v.kind][v.post] = v \/ marker[v.kind][v.post].returns > v.returns
    BY DEF DiskInv, CommittedBehind
  <2>3. CASE v.kind = e.kind /\ v.post = e.post
    <3>1. x = e /\ e.returns > marker[e.kind][e.post].returns
      BY <2>2, <2>3 DEF Markable, Marked
    <3>2. e.returns \in Nat /\ v.returns \in Nat /\ marker[e.kind][e.post].returns \in Nat
      BY <1>1, <2>2, <2>3, MarkerFacts, WritesWritten, EffectFacts
    <3>3. QED
      BY <1>1, <1>2, <2>2, <2>3, <3>1, <3>2
  <2>4. CASE v.kind # e.kind \/ v.post # e.post
    BY <1>2, <2>1, <2>2, <2>4
  <2>5. QED
    BY <2>3, <2>4
<1>7. PublishedOnce' /\ RecoveryAnswersForOriginal'
  BY <1>3, WritesWritten DEF DiskInv, PublishedOnce, RecoveryAnswersForOriginal, Recoveries, Writes
<1>8. CurrentHeld'
  <2> SUFFICES ASSUME current # None PROVE "instructions" \in Kinds /\ Held("instructions", current)'
    BY DEF CurrentHeld
  <2>1. "instructions" \in Kinds /\ Held("instructions", current) /\ current \in Contents
    BY DEF DiskInv, CurrentHeld, FileTypes
  <2>2. marker[e.kind][e.post] = Absent \/ e.kind = "system-intent"
    BY DEF Markable
  <2>3. marker'["instructions"][current] = marker["instructions"][current]
    BY <1>2, <2>1, <2>2 DEF Held, Marked
  <2>4. QED
    BY <1>4, <2>1, <2>3, HeldKept
<1>9. QED
  BY <1>2, <1>4, <1>5, <1>6, <1>7, <1>8 DEF DiskInv

LEMMA MarkInv ==
  ASSUME SInv, NEW p \in Procs, Mark(p), UNCHANGED <<calls, edits, crashes>>
  PROVE  SInv'
<1>1. PICK e \in Effects : e = job[p]
  BY Parts, JobFacts DEF Mark, At
<1>2. /\ pc[p] = "mark" /\ May(p) /\ marker' = [marker EXCEPT ![e.kind][e.post] = e]
      /\ pc' = [pc EXCEPT ![p] = "stage"]
      /\ UNCHANGED <<attempts, results, source, current, deferral, temps, torn, job, lock, window>>
  BY <1>1 DEF Mark, At, Effect, Kind, Post, Continue
<1>3. /\ e.op = "write" /\ attempts[e] = Admitted /\ Markable(e) /\ pc[p] \notin Locking
      /\ e \in Written
  BY <1>1, <1>2, Parts, EffectFacts DEF ProcInv, Locking
<1>4. marker[e.kind][e.post] # Absent => e.kind = "system-intent"
  BY <1>1, <1>2 DEF May, At, Effect, Superseding
<1>5. marker' \in [Kinds -> [Contents -> Written \cup Marked]] /\ Grown /\ DiskInv'
  BY <1>2, <1>3, <1>4, Parts, MarkDisk
<1>6. FileTypes'
  BY <1>2, <1>5, Parts DEF FileTypes, StoreTypeOK
<1>7. MarkersLeft(p)
  BY <1>1, <1>2, <1>3, Parts DEF MarkersLeft, FileTypes
<1>8. marker'[e.kind][e.post] = e /\ pc'[p] = "stage" /\ job'[p] = e
  BY <1>1, <1>2, Parts, EffectFacts DEF FileTypes, ProcTypes
<1>9. ProcInv(p)' /\ LookInv(p)'
  BY <1>2, <1>3, <1>8 DEF ProcInv, LookInv
<1>10. QED
  BY <1>2, <1>3, <1>5, <1>6, <1>7, <1>9, MoveInv DEF Steps, Locking

(* The projection: what it names is marked.                                *)
LEMMA CurrentDisk ==
  ASSUME FileTypes, DiskInv, current' = current \/ (current' \in Contents /\ "instructions" \in Kinds
         /\ Held("instructions", current')), UNCHANGED <<attempts, results, marker>>
  PROVE  Grown /\ DiskInv'
<1>1. \A v \in Effects : Committed(v)' <=> Committed(v)
  BY DEF Committed
<1>2. Grown /\ ResultAfterAttempt' /\ MarkerInv'
  BY <1>1 DEF Grown, DiskInv, ResultAfterAttempt, MarkerInv
<1>3. CommittedBehind' /\ PublishedOnce' /\ RecoveryAnswersForOriginal'
  BY <1>1, WritesWritten DEF DiskInv, CommittedBehind, PublishedOnce, RecoveryAnswersForOriginal,
     Recoveries, Writes
<1>4. CurrentHeld'
  BY DEF DiskInv, CurrentHeld, Held
<1>5. QED
  BY <1>2, <1>3, <1>4 DEF DiskInv

LEMMA ProjectInv ==
  ASSUME SInv, NEW p \in Procs, Project(p), UNCHANGED <<calls, edits, crashes>>
  PROVE  SInv'
<1>1. PICK e \in Effects : e = job[p]
  BY Parts, JobFacts DEF Project, At
<1>2. /\ pc[p] = "project" /\ current' = e.post /\ pc' = [pc EXCEPT ![p] = "install"]
      /\ UNCHANGED <<attempts, results, source, marker, deferral, temps, torn, job, lock, window>>
  BY <1>1 DEF Project, At, Post, Continue
<1>3. /\ e.op = "write" /\ e.kind = "instructions" /\ marker[e.kind][e.post] = e
      /\ attempts[e] = Admitted /\ e.kind \in Kinds /\ e.post \in Contents /\ e \notin Marked
  BY <1>1, <1>2, Parts, EffectFacts DEF ProcInv
<1>4. Grown /\ DiskInv'
  BY <1>2, <1>3, Parts, CurrentDisk DEF Held
<1>5. FileTypes' /\ MarkersLeft(p) /\ pc[p] \notin Locking
  BY <1>2, <1>3, Parts DEF FileTypes, StoreTypeOK, MarkersLeft, Locking
<1>6. pc'[p] = "install" /\ job'[p] = job[p]
  BY <1>2, Parts DEF ProcTypes
<1>7. ProcInv(p)' /\ LookInv(p)'
  BY <1>2, <1>6, Parts DEF ProcInv, LookInv, Policy
<1>8. QED
  BY <1>2, <1>4, <1>5, <1>7, MoveInv DEF Steps, Locking

LEMMA VerifyInv ==
  ASSUME SInv, NEW p \in Procs, VerifyRecovery(p), UNCHANGED <<calls, edits, crashes>>
  PROVE  SInv'
<1>1. PICK e \in Effects : e = job[p]
  BY Parts, JobFacts DEF VerifyRecovery, At
<1>2. /\ pc[p] = "r-verify" /\ RecoveryAccepted(e) /\ pc' = [pc EXCEPT ![p] = "r-original"]
      /\ current' = IF e.kind = "instructions" THEN e.post ELSE current
      /\ UNCHANGED <<attempts, results, source, marker, deferral, temps, torn, job, lock, window>>
  BY <1>1 DEF VerifyRecovery, May, At, Effect, Post, Kind, Continue
<1>3. /\ e.op = "recover" /\ attempts[e] = Admitted /\ e.kind \in Kinds /\ e.post \in Contents
  BY <1>1, <1>2, Parts, EffectFacts DEF ProcInv
<1>4. /\ source[e.kind] = e.post /\ Held(e.kind, e.post)
      /\ e = Recovery(marker[e.kind][e.post], e.task)
  BY <1>2 DEF RecoveryAccepted
<1>5. marker[e.kind][e.post] \notin Marked /\ marker[e.kind][e.post] \in Written
  BY <1>3, <1>4, Parts, MarkerFacts DEF Held
<1>6. PICK w \in Written : w = marker[e.kind][e.post]
  BY <1>5
<1>7. w.policy = e.policy
  BY <1>4, <1>6 DEF Recovery, Written
<1>8. Grown /\ DiskInv'
  BY <1>2, <1>3, <1>4, Parts, CurrentDisk
<1>9. FileTypes' /\ MarkersLeft(p) /\ pc[p] \notin Locking
  BY <1>2, <1>3, Parts DEF FileTypes, StoreTypeOK, MarkersLeft, Locking
<1>10. pc'[p] = "r-original" /\ job'[p] = e
  BY <1>1, <1>2, Parts DEF ProcTypes
<1>11. ProcInv(p)' /\ LookInv(p)'
  BY <1>2, <1>3, <1>4, <1>5, <1>6, <1>7, <1>10 DEF ProcInv, LookInv
<1>12. QED
  BY <1>2, <1>8, <1>9, <1>11, MoveInv DEF Steps, Locking

LEMMA CommitOriginalInv ==
  ASSUME SInv, NEW p \in Procs, CommitOriginal(p), UNCHANGED <<calls, edits, crashes>>
  PROVE  SInv'
<1>1. PICK e \in Effects : e = job[p]
  BY Parts, JobFacts DEF CommitOriginal, At
<1>2. /\ pc[p] = "r-original" /\ Commit(marker[e.kind][e.post], Done)
      /\ pc' = [pc EXCEPT ![p] = "commit"]
      /\ UNCHANGED <<source, marker, current, deferral, temps, torn, job, lock, window>>
  BY <1>1 DEF CommitOriginal, At, Kind, Post, Continue
<1>3. /\ e.op = "recover" /\ attempts[e] = Admitted /\ e.kind \in Kinds /\ e.post \in Contents
      /\ marker[e.kind][e.post] \notin Marked /\ marker[e.kind][e.post].policy = e.policy
  BY <1>1, <1>2, Parts, EffectFacts DEF ProcInv
<1>4. PICK w \in Written : w = marker[e.kind][e.post] /\ w \in Effects
  BY <1>3, Parts, MarkerFacts
<1>5. w.kind = e.kind /\ w.post = e.post /\ w.policy = e.policy /\ w.op = "write"
  <2>1. MarkerInv
    BY Parts DEF DiskInv
  <2>2. marker[e.kind][e.post].kind = e.kind /\ marker[e.kind][e.post].post = e.post
    <3>1. e.kind \in Kinds /\ e.post \in Contents /\ marker[e.kind][e.post] \notin Marked
      BY <1>3
    <3>2. PICK k \in Kinds : k = e.kind
      BY <3>1
    <3>3. PICK c \in Contents : c = e.post
      BY <3>1
    <3>4. marker[k][c].kind = k /\ marker[k][c].post = c
      <4>1. marker[k][c] \notin Marked
        BY <3>1, <3>2, <3>3
      <4>2. QED
        BY <2>1, <4>1, MarkerNames
    <3>5. QED
      BY <3>2, <3>3, <3>4
  <2>3. w.op = "write"
    BY DEF Written
  <2>4. QED
    BY <1>3, <1>4, <2>2, <2>3
<1>6. StoreTypeOK' /\ Grown /\ DiskInv' /\ Committed(w)'
  BY <1>2, <1>4, <1>5, Parts, CommitDisk
<1>7. FileTypes' /\ MarkersLeft(p) /\ pc[p] \notin Locking
  BY <1>2, <1>6, Parts, RecordTypes DEF MarkersLeft, Locking
<1>8. pc'[p] = "commit" /\ job'[p] = e
  BY <1>1, <1>2, Parts DEF ProcTypes
<1>9. Answered(e)'
  <2>1. /\ Committed(w)' /\ w.kind = e.kind /\ w.post = e.post /\ w.policy = e.policy
    BY <1>5, <1>6
  <2>2. \E v \in Written : Committed(v)' /\ v.kind = e.kind /\ v.post = e.post /\ v.policy = e.policy
    BY <2>1, Zenon
  <2>3. QED
    BY <2>2 DEF Answered
<1>10. attempts'[e] = Admitted
  BY <1>3, <1>6 DEF Grown
<1>11. ProcInv(p)' /\ LookInv(p)'
  BY <1>3, <1>8, <1>9, <1>10 DEF ProcInv, LookInv, Answered, Committed
<1>12. QED
  BY <1>2, <1>6, <1>7, <1>11, MoveInv DEF Steps, Locking


-----------------------------------------------------------------------------
(* The source: whoever relied on it, or on the policy, is in the window.   *)
LEMMA InstallInv ==
  ASSUME SInv, NEW p \in Procs, Install(p), UNCHANGED <<calls, edits, crashes>>
  PROVE  SInv'
<1>1. PICK e \in Effects : e = job[p]
  BY Parts, JobFacts DEF Install, At
<1> DEFINE step == IF e.before = Absent \/ e.kind = "configuration" THEN "unlink" ELSE "commit"
<1>2. /\ pc[p] = "install" /\ source' = [source EXCEPT ![e.kind] = e.post]
      /\ temps' \subseteq temps /\ pc' = [pc EXCEPT ![p] = step]
      /\ window' = (window \cup Exposed(e.kind)) \ {p}
      /\ UNCHANGED <<attempts, results, marker, current, deferral, torn, job, lock>>
  BY <1>1 DEF Install, At, Effect
<1>3. /\ e.op = "write" /\ attempts[e] = Admitted /\ e.kind \in Kinds /\ e.post \in Contents
      /\ marker[e.kind][e.post] = e /\ pc[p] \notin Locking /\ step \in Steps \ Locking
  BY <1>1, <1>2, Parts, EffectFacts DEF ProcInv, Locking, Steps
<1>4. window' \subseteq Procs
  BY <1>2, Parts DEF ProcTypes, Exposed
<1>5. ProcTypes' /\ OthersKept(p) /\ pc'[p] = step /\ job'[p] = e
  <2> HIDE DEF step
  <2>1. ProcTypes' /\ OthersKept(p) /\ pc'[p] = step /\ job'[p] = job[p]
    BY <1>2, <1>3, <1>4, Parts, MoveTypes
  <2>2. QED
    BY <1>1, <2>1
<1>6. /\ source' \in [Kinds -> Contents \cup {Absent}] /\ source'[e.kind] = e.post
      /\ \A k \in Kinds : source'[k] # source[k] => k = e.kind
  BY <1>2, <1>3, Parts DEF FileTypes
<1>7. FileTypes' /\ Counters'
  BY <1>2, <1>6, Parts DEF FileTypes, StoreTypeOK, Counters
<1>8. WindowKept(p)
  BY <1>2, <1>6 DEF WindowKept
<1>9. Grown /\ DiskInv' /\ MarkersLeft(p)
  BY <1>2, Parts, StillDisk DEF MarkersLeft
<1>10. ProcInv(p)' /\ LookInv(p)'
  BY <1>2, <1>3, <1>5, <1>6 DEF ProcInv, LookInv
<1>11. QED
  BY <1>5, <1>7, <1>8, <1>9, <1>10, StepInv

LEMMA EditInv ==
  ASSUME SInv, NEW k \in Kinds, NEW c \in Contents \cup {Absent}, Edit(k, c)
  PROVE  SInv'
<1>1. /\ source' = [source EXCEPT ![k] = c] /\ window' = window \cup Exposed(k)
      /\ UNCHANGED <<attempts, results, marker, current, deferral, temps, torn,
                     lock, pc, job, calls, crashes>>
      /\ edits' \in 0 .. MaxEdits
  BY Parts DEF Edit, Counters
<1>2. /\ source' \in [Kinds -> Contents \cup {Absent}]
      /\ \A j \in Kinds : source'[j] # source[j] => j = k
  BY <1>1, Parts DEF FileTypes
<1>3. FileTypes' /\ Counters' /\ ProcTypes'
  BY <1>1, <1>2, Parts DEF FileTypes, StoreTypeOK, Counters, ProcTypes, Exposed
<1>4. Grown /\ DiskInv'
  BY <1>1, Parts, StillDisk
<1>5. \A q \in Procs : ProcInv(q)'
  BY <1>1, <1>4, ProcKept
<1>6. \A q \in Procs : LookInv(q)'
  BY <1>1, <1>2, LookKept
<1>7. QED
  BY <1>3, <1>4, <1>5, <1>6 DEF SInv

(* A death, with or without a record that it tears.                        *)
LEMMA DeathInv ==
  ASSUME SInv, NEW p \in Procs, Death(p)
  PROVE  SInv'
<1>1. /\ Leave(p) /\ UNCHANGED <<source, current, deferral, temps, calls, edits>> /\ pc[p] # "idle"
      /\ crashes' \in 0 .. MaxCrashes
      /\ UNCHANGED <<attempts, results, marker, torn>> \/ Tear(p)
  BY Parts DEF Death, At, Counters
<1>2. PICK e \in Effects : e = job[p]
  BY <1>1, Parts, JobFacts
<1>3. ASSUME Grown, DiskInv', StoreTypeOK', marker' = marker, torn' \subseteq Written PROVE SInv'
  <2>1. FileTypes' /\ Counters' /\ MarkersLeft(p)
    BY <1>1, <1>3, Parts DEF FileTypes, Counters, MarkersLeft
  <2>2. QED
    BY <1>1, <1>3, <2>1, LeaveInv
<1>4. CASE UNCHANGED <<attempts, results, marker, torn>>
  BY <1>1, <1>3, <1>4, Parts, StillDisk DEF FileTypes
<1>5. CASE TearAttempt(e) /\ UNCHANGED <<marker, torn>>
  BY <1>1, <1>3, <1>5, Parts, AdmitDisk DEF FileTypes
<1>6. CASE TearResult(e) /\ UNCHANGED <<marker, torn>>
  BY <1>1, <1>3, <1>6, Parts, TearDisk DEF FileTypes
<1>7. CASE pc[p] = "stage" /\ torn' = torn \cup {e} /\ UNCHANGED <<attempts, results, marker>>
  <2>1. e \in Written
    BY <1>2, <1>7, Parts, EffectFacts DEF ProcInv
  <2>2. torn' \subseteq Written
    BY <1>7, <2>1, Parts DEF FileTypes
  <2>3. QED
    BY <1>1, <1>3, <1>7, <2>2, Parts, StillDisk
<1>8. CASE /\ pc[p] = "mark" /\ marker[e.kind][e.post] = Absent
           /\ marker' = [marker EXCEPT ![e.kind][e.post] = Torn]
           /\ UNCHANGED <<attempts, results, torn>>
  <2>1. e \in Written
    BY <1>2, <1>8, Parts, EffectFacts DEF ProcInv
  <2>2. marker' \in [Kinds -> [Contents -> Written \cup Marked]] /\ Grown /\ DiskInv'
    BY <1>1, <1>8, <2>1, Parts, MarkDisk
  <2>3. MarkersLeft(p)
    BY <1>2, <1>8, Parts DEF MarkersLeft, FileTypes, Locking
  <2>4. FileTypes' /\ Counters'
    BY <1>1, <1>8, <2>2, Parts DEF FileTypes, StoreTypeOK, Counters
  <2>5. QED
    BY <1>1, <2>2, <2>3, <2>4, LeaveInv
<1>9. CASE /\ pc[p] = "r-original" /\ TearResult(marker[e.kind][e.post])
           /\ UNCHANGED <<marker, torn>>
  <2>1. marker[e.kind][e.post] \in Effects
    BY <1>2, <1>9, Parts, EffectFacts, MarkerFacts DEF ProcInv
  <2>2. PICK w \in Effects : w = marker[e.kind][e.post]
    BY <2>1
  <2>3. StoreTypeOK' /\ Grown /\ DiskInv'
    BY <1>1, <1>9, <2>2, Parts, TearDisk
  <2>4. QED
    BY <1>3, <1>9, <2>3, Parts DEF FileTypes
<1>10. QED
  BY <1>1, <1>2, <1>4, <1>5, <1>6, <1>7, <1>8, <1>9 DEF Tear, At, Effect

LEMMA SInvStep == SInv /\ [Next]_vars => SInv'
<1> SUFFICES ASSUME SInv, [Next]_vars PROVE SInv'
  OBVIOUS
<1>1. ASSUME NEW p \in Procs, NEW k \in Kinds, NEW c \in Contents, NEW t \in Tasks,
             NEW e \in Requests(k, c, t), Begin(p, e)
      PROVE  SInv'
  <2>1. PICK x \in Effects : x = e
    BY Parts, OfferedIsEffect
  <2>2. Begin(p, x)
    BY <1>1, <2>1
  <2>3. QED
    BY <2>2, BeginInv
<1>2. ASSUME NEW p \in Procs, Proceed(p) PROVE SInv'
  <2>1. UNCHANGED <<calls, edits, crashes>>
    BY <1>2 DEF Proceed
  <2>2. QED
    BY <1>2, <2>1, LockInv, AdmissionInv, MarkInv, StageInv, BarrierInv, ProjectInv, InstallInv,
       UnlinkInv, CommitInv, InstallDeferralInv, VerifyInv, CommitOriginalInv, RefuseInv
    DEF Proceed, Publish
<1>3. CASE UNCHANGED vars
  <2>1. FileTypes' /\ ProcTypes' /\ Counters' /\ Grown /\ DiskInv'
    BY <1>3, Parts, StillDisk DEF vars, FileTypes, StoreTypeOK, ProcTypes, Counters
  <2>2. \A q \in Procs : ProcInv(q)' /\ LookInv(q)'
    BY <1>3, <2>1, ProcKept, LookKept DEF vars
  <2>3. QED
    BY <2>1, <2>2 DEF SInv
<1>4. QED
  BY <1>1, <1>2, <1>3, EditInv, DeathInv DEF Next

THEOREM SourceInvariant == Spec => []SInv
BY InitSInv, SInvStep, PTL DEF Spec


(* Types and locks; every publication under way, every marker that is      *)
(* whole and what the projection names can be found again; a content is    *)
(* published once; and a recovery answers for a result that is there       *)
(* (native_config_write.rs, native_instruction_write.rs,                   *)
(* native_intent_write.rs).                                                *)
THEOREM SourcesStayConsistent == Spec => []SourcesConsistent
<1>1. ASSUME SInv PROVE SourcesConsistent
  <2>1. TypeOK
    <3>1. \A k \in Kinds, c \in Contents : marker[k][c] \notin Marked =>
              marker[k][c] \in Effects /\ marker[k][c].op = "write"
      BY <1>1, Parts, MarkerFacts, EffectFacts
    <3>2. \A e \in temps \cup torn : e \in Effects /\ e.op = "write"
      BY <1>1, Parts, WritesWritten, EffectFacts DEF FileTypes
    <3>3. deferral = None \/ deferral \in Effects
      BY <1>1, Parts, EffectsAssumption DEF FileTypes
    <3>4. \A k \in Kinds, p \in Procs :
              lock[k] = p <=> pc[p] \notin {"idle", "lock"} /\ job[p].kind = k
      BY <1>1, Parts DEF ProcTypes, Locking
    <3>5. \A p \in Procs : (job[p] # None => job[p] \in Effects) /\ (At(p, "idle") <=> job[p] = None)
      BY <1>1, Parts DEF ProcTypes, At
    <3>6. /\ StoreTypeOK
          /\ source \in [Kinds -> Contents \cup {Absent}]
          /\ current \in Contents \cup {None}
      BY <1>1, Parts DEF FileTypes
    <3>7. /\ pc \in [Procs -> Steps]
          /\ \A k \in Kinds : lock[k] \in Procs \cup {None}
          /\ window \subseteq Procs
      BY <1>1, Parts DEF ProcTypes
    <3>8. calls \in 0 .. MaxCalls /\ edits \in 0 .. MaxEdits /\ crashes \in 0 .. MaxCrashes
      BY <1>1, Parts DEF Counters
    <3>9. QED
      BY <3>1, <3>2, <3>3, <3>4, <3>5, <3>6, <3>7, <3>8 DEF TypeOK
  <2>2. PublicationTraceable
    BY <1>1, Parts DEF DiskInv, MarkerInv, CurrentHeld, ProcInv, PublicationTraceable, Resumed
  <2>3. QED
    BY <1>1, <2>1, <2>2, Parts DEF DiskInv, SourcesConsistent
<1>2. QED
  BY <1>1, SourceInvariant, PTL

(* A write lands on the bytes it named and under the policy it was         *)
(* authorised by, unless they moved after its last look; a file that was   *)
(* to be created is never written over (native_config_write.rs,     *)
(* native_instruction_write.rs, native_intent_write.rs).                 *)
THEOREM WritesLandOnPreimage == Spec => LandsOnPreimage
<1> DEFINE Lands == \A p \in Procs :
          At(p, "install") /\ pc'[p] \in {"unlink", "commit"} =>
            LET e == job[p]
            IN /\ e.before = Absent => source[e.kind] = Absent
               /\ p \notin window => source[e.kind] = e.before /\ e.policy = Policy(e.kind)
<1>1. SInv /\ [Next]_vars => [Lands]_vars
  <2> SUFFICES ASSUME SInv, [Next]_vars, NEW p \in Procs,
                      pc[p] = "install", pc'[p] \in {"unlink", "commit"}
               PROVE  /\ job[p].before = Absent => source[job[p].kind] = Absent
                      /\ p \notin window => /\ source[job[p].kind] = job[p].before
                                            /\ job[p].policy = Policy(job[p].kind)
    BY DEF At
  <2>1. /\ p \notin window => /\ source[job[p].kind] = job[p].before
                              /\ job[p].policy = Policy(job[p].kind)
    BY Parts DEF LookInv
  <2>2. CASE Install(p)
    BY <2>1, <2>2 DEF Install, May, At, Effect
  <2>3. ASSUME NEW q \in Procs, Proceed(q) PROVE Install(p)
    <3>1. CASE q = p
      BY <2>3, <3>1, Parts DEF Proceed, Publish, Lock, Admission, Mark, Stage, Barrier, Project, Unlink,
         CommitWrite, InstallDeferral, CommitDeferral, VerifyRecovery, CommitOriginal, Refuse, Leave,
         At, ProcTypes
    <3>2. CASE q # p
      BY <2>3, <3>2, Parts DEF Proceed, Publish, Lock, Admission, Mark, Stage, Barrier, Project, Install,
         Unlink, CommitWrite, InstallDeferral, CommitDeferral, VerifyRecovery, CommitOriginal, Refuse,
         Leave, Continue, ProcTypes
    <3>3. QED
      BY <3>1, <3>2
  <2>4. ASSUME NEW q \in Procs, Death(q) PROVE FALSE
    BY <2>4, Parts DEF Death, Leave, ProcTypes
  <2>5. ASSUME NEW q \in Procs, NEW e, Begin(q, e) PROVE FALSE
    BY <2>5, Parts DEF Begin, ProcTypes
  <2>6. ASSUME NEW k, NEW c, Edit(k, c) PROVE FALSE
    BY <2>6 DEF Edit
  <2>7. QED
    BY <2>2, <2>3, <2>4, <2>5, <2>6 DEF Next, vars
<1>2. QED
  BY <1>1, SourceInvariant, PTL DEF Spec, LandsOnPreimage

(* The result of a write is committed only while the source holds its      *)
(* postimage, unless that moved after the last look of the one who commits *)
(* it, be it the write or a recovery.                                      *)
THEOREM CommittedResultsTrue == Spec => ResultsTrue
<1> DEFINE True == \A w \in Writes :
          Committed(w)' /\ ~Committed(w) =>
            \/ source[w.kind] = w.post
            \/ \E p \in window : job[p] # None /\ job[p].kind = w.kind
<1>1. SInv /\ [Next]_vars => [True]_vars
  <2> SUFFICES ASSUME SInv, [Next]_vars, NEW w \in Written, Committed(w)', ~Committed(w)
               PROVE  \/ source[w.kind] = w.post
                      \/ \E p \in window : job[p] # None /\ job[p].kind = w.kind
    BY WritesWritten
  <2>w. w \in Effects /\ w.op = "write" /\ results'[w] # results[w] /\ results'[w] \in Outcomes
    BY Parts, WritesWritten DEF Written, Committed, DiskInv, ResultAfterAttempt
  <2>1. ASSUME NEW p \in Procs, pc[p] = "commit", job[p] = w
        PROVE  source[w.kind] = w.post \/ \E q \in window : job[q] # None /\ job[q].kind = w.kind
    <3>1. p \notin window => source[w.kind] = w.post
      BY <2>1, <2>w, Parts DEF LookInv
    <3>2. job[p] # None
      BY <2>1, <2>w, EffectFacts
    <3>3. QED
      BY <2>1, <3>1, <3>2
  <2>2. ASSUME NEW p \in Procs, pc[p] = "r-original", marker[job[p].kind][job[p].post] = w
        PROVE  source[w.kind] = w.post \/ \E q \in window : job[q] # None /\ job[q].kind = w.kind
    <3>1. job[p] \in Effects
      BY <2>2, Parts, JobFacts
    <3>2. PICK k \in Kinds : k = job[p].kind
      BY <3>1, EffectFacts
    <3>3. PICK c \in Contents : c = job[p].post
      BY <3>1, EffectFacts
    <3>4. w.kind = k /\ w.post = c
      BY <2>2, <2>w, <3>2, <3>3, Parts, MarkerNames, EffectFacts DEF DiskInv
    <3>5. p \notin window => source[w.kind] = w.post
      BY <2>2, <3>2, <3>3, <3>4, Parts DEF LookInv
    <3>6. job[p] # None
      BY <3>1, EffectFacts
    <3>7. QED
      BY <3>2, <3>4, <3>5, <3>6
  <2>3. ASSUME NEW p \in Procs, Proceed(p)
        PROVE  \/ pc[p] = "commit" /\ job[p] = w
               \/ pc[p] = "r-original" /\ marker[job[p].kind][job[p].post] = w
               \/ pc[p] = "d-commit" /\ job[p] = w
    BY <2>3, <2>w, Parts DEF Proceed, Publish, Lock, Admission, Mark, Stage, Barrier, Project, Install,
       Unlink, CommitWrite, InstallDeferral, CommitDeferral, VerifyRecovery, CommitOriginal, Refuse,
       Admit, Commit, diskVars, At, Effect, Kind, Post, FileTypes, StoreTypeOK
  <2>4. ASSUME NEW p \in Procs, pc[p] = "d-commit" PROVE job[p] # w
    BY <2>4, <2>w, Parts DEF ProcInv
  <2>5. ASSUME NEW p \in Procs, Death(p) PROVE FALSE
    BY <2>5, <2>w, Parts DEF Death, Tear, TearAttempt, TearResult, FileTypes, StoreTypeOK
  <2>6. ASSUME NEW q \in Procs, NEW e, Begin(q, e) PROVE FALSE
    BY <2>6, <2>w DEF Begin, diskVars
  <2>7. ASSUME NEW k, NEW c, Edit(k, c) PROVE FALSE
    BY <2>7, <2>w DEF Edit
  <2>8. QED
    BY <2>w, <2>1, <2>2, <2>3, <2>4, <2>5, <2>6, <2>7 DEF Next, vars
<1>2. QED
  BY <1>1, SourceInvariant, PTL DEF Spec, ResultsTrue
=============================================================================
