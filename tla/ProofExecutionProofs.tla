------------------------ MODULE ProofExecutionProofs ------------------------
(***************************************************************************)
(* Proofs about ProofExecution, for any processes, effects, subjects and   *)
(* statuses.  The inductive invariant IInv says what each step of the      *)
(* owner of an effect may rely on: an admitted effect has at most one      *)
(* process past its admission, the carriers on disk are exactly the ones   *)
(* that process has written, and nothing about an effect exists before its *)
(* intact attempt.                                                         *)
(***************************************************************************)
EXTENDS ProofExecution, TLAPS

USE StoreAssumption, ProofAssumption

-----------------------------------------------------------------------------
(* Typing, by the parts of the state a step touches.                       *)

(* A process has a note before it observes anything (ProofAssumption gives *)
(* a command at least one status).                                         *)
LEMMA BlankOutcome == Blank \in Outcomes
<1>1. PICK s \in Statuses : TRUE
  OBVIOUS
<1>2. [process |-> s, current |-> TRUE, admitted |-> TRUE] \in Outcomes
  BY <1>1
<1>3. QED
  BY <1>2 DEF Blank

(* A process that leaves, for whatever reason, keeps its variables typed.  *)
LEMMA LeaveType ==
  ASSUME ProcsTypeOK, NEW p \in Procs, Leave(p)
  PROVE  ProcsTypeOK'
BY BlankOutcome DEF ProcsTypeOK, Leave, Goto, PCs

(* A process under way that goes on to another step keeps its effect.      *)
LEMMA GotoType ==
  ASSUME ProcsTypeOK, NEW p \in Procs, pc[p] # "idle",
         NEW label \in PCs \ {"idle"}, Goto(p, label), work' = work,
         old' \in [Procs -> {"none", "run", "completed"}],
         note' \in [Procs -> Outcomes]
  PROVE  ProcsTypeOK'
BY DEF ProcsTypeOK, Goto

(* Writing one carrier, whole or torn, keeps the files typed.              *)
LEMMA CarrierType ==
  ASSUME FilesTypeOK, NEW e \in Effects, NEW f \in Carriers,
         NEW v \in {"torn", "whole"},
         carrier' = [carrier EXCEPT ![e][f] = v], UNCHANGED storeVars
  PROVE  FilesTypeOK'
<1>1. [carrier[e] EXCEPT ![f] = v] \in [Carriers -> {"absent", "torn", "whole"}]
  BY DEF FilesTypeOK
<1>2. carrier' \in [Effects -> [Carriers -> {"absent", "torn", "whole"}]]
  BY <1>1 DEF FilesTypeOK
<1>3. QED
  BY <1>2 DEF FilesTypeOK, StoreTypeOK, storeVars

(* A failure leaves every file and history as it was.                      *)
LEMMA FailType ==
  ASSUME TypeOK, NEW p \in Procs, Fail(p), UNCHANGED world
  PROVE  TypeOK'
BY LeaveType DEF TypeOK, Fail, FilesTypeOK, StoreTypeOK, WorldTypeOK, files, world

(* The variables keep their types through every step of execute.           *)
LEMMA TypeInvariant == TypeOK /\ [Next]_vars => TypeOK'
<1> SUFFICES ASSUME TypeOK, [Next]_vars PROVE TypeOK'
  OBVIOUS
<1> USE DEF TypeOK
<1>1. CASE UNCHANGED vars
  BY <1>1 DEF vars, files, world, procs, FilesTypeOK, StoreTypeOK, WorldTypeOK, ProcsTypeOK
<1>2. CASE World
  BY <1>2 DEF World, files, procs, FilesTypeOK, StoreTypeOK, WorldTypeOK, ProcsTypeOK
<1>3. ASSUME NEW p \in Procs, NEW e \in Effects, Enter(p, e) PROVE TypeOK'
  BY <1>3 DEF Enter, At, Goto, files, world, PCs, FilesTypeOK, StoreTypeOK, WorldTypeOK, ProcsTypeOK
<1>4. ASSUME NEW p \in Procs, Proceed(p) PROVE TypeOK'
  <2> DEFINE e == work[p]
  <2>0. pc[p] # "idle" => e \in Effects
    BY DEF ProcsTypeOK
  <2>1. CASE Examine(p)
    <3>1. CASE Fail(p)
      BY <2>1, <3>1, FailType DEF Examine
    <3>2. CASE ~Fail(p)
      <4>1. old' \in [Procs -> {"none", "run", "completed"}]
        BY <2>1, <3>2 DEF Examine, Found, ProcsTypeOK
      <4>2. ProcsTypeOK'
        BY <2>1, <3>2, <4>1, GotoType DEF Examine, At, PCs, ProcsTypeOK
      <4>3. QED
        BY <2>1, <3>2, <4>2 DEF Examine, files, world, FilesTypeOK, StoreTypeOK, WorldTypeOK
    <3>3. QED
      BY <3>1, <3>2
  <2>2. CASE AdmitNew(p)
    <3>1. CASE Fail(p)
      BY <2>2, <3>1, FailType DEF AdmitNew
    <3>2. CASE ~Fail(p)
      <4>1. ProcsTypeOK'
        BY <2>2, <3>2, GotoType DEF AdmitNew, At, PCs, ProcsTypeOK
      <4>2. FilesTypeOK'
        BY <2>0, <2>2, <3>2 DEF AdmitNew, Admit, FilesTypeOK, StoreTypeOK
      <4>3. QED
        BY <2>2, <3>2, <4>1, <4>2 DEF AdmitNew, world, WorldTypeOK
    <3>3. QED
      BY <3>1, <3>2
  <2>3. CASE Replay(p)
    <3>1. CASE Fail(p)
      BY <2>3, <3>1, FailType DEF Replay
    <3>2. CASE ~Fail(p)
      BY <2>0, <2>3, <3>2, LeaveType
         DEF Replay, Committed, At, files, world, FilesTypeOK, StoreTypeOK, WorldTypeOK
    <3>3. QED
      BY <3>1, <3>2
  <2>4. CASE Uncertain(p)
    BY <2>4, FailType DEF Uncertain
  <2>5. CASE Retain(p)
    <3>1. CASE Fail(p)
      BY <2>5, <3>1, FailType DEF Retain
    <3>2. CASE ~Fail(p)
      <4>1. FilesTypeOK'
        BY <2>0, <2>5, <3>2, CarrierType DEF Retain, At, Create, Carriers
      <4>2. ProcsTypeOK'
        BY <2>5, <3>2, GotoType DEF Retain, At, PCs, ProcsTypeOK
      <4>3. QED
        BY <2>5, <3>2, <4>1, <4>2 DEF Retain, world, WorldTypeOK
    <3>3. QED
      BY <3>1, <3>2
  <2>6. CASE Revalidate(p)
    <3>1. CASE Fail(p)
      BY <2>6, <3>1, FailType DEF Revalidate
    <3>2. CASE ~Fail(p)
      BY <2>6, <3>2, GotoType
         DEF Revalidate, At, PCs, files, world, FilesTypeOK, StoreTypeOK, WorldTypeOK, ProcsTypeOK
    <3>3. QED
      BY <3>1, <3>2
  <2>7. CASE Recheck(p)
    <3>1. CASE Fail(p)
      BY <2>7, <3>1, FailType DEF Recheck
    <3>2. CASE ~Fail(p)
      BY <2>7, <3>2, GotoType
         DEF Recheck, At, PCs, files, world, FilesTypeOK, StoreTypeOK, WorldTypeOK, ProcsTypeOK
    <3>3. QED
      BY <3>1, <3>2
  <2>8. CASE Launch(p)
    <3>1. ProcsTypeOK'
      BY <2>8, GotoType DEF Launch, At, PCs, ProcsTypeOK
    <3>2. launches' \in [Effects -> Nat]
      BY <2>0, <2>8 DEF Launch, At, Started
    <3>3. QED
      BY <2>8, <3>1, <3>2 DEF Launch, files, world, FilesTypeOK, StoreTypeOK, WorldTypeOK
  <2>9. CASE Finish(p)
    <3>1. CASE Fail(p)
      BY <2>9, <3>1, FailType DEF Finish
    <3>2. CASE ~Fail(p)
      <4>1. FilesTypeOK'
        BY <2>0, <2>9, <3>2, CarrierType DEF Finish, At, Create, Carriers
      <4>2. note' \in [Procs -> Outcomes]
        BY <2>9, <3>2 DEF Finish, ProcsTypeOK
      <4>3. ProcsTypeOK'
        BY <2>9, <3>2, <4>2, GotoType DEF Finish, At, PCs, ProcsTypeOK
      <4>4. QED
        BY <2>9, <3>2, <4>1, <4>3 DEF Finish, world, WorldTypeOK
    <3>3. QED
      BY <3>1, <3>2
  <2>10. CASE Assess(p)
    <3>1. Offered(e) \in BOOLEAN
      BY DEF Offered
    <3>2. note' \in [Procs -> Outcomes]
      BY <2>10, <3>1 DEF Assess, ProcsTypeOK
    <3>3. ProcsTypeOK'
      BY <2>10, <3>2, GotoType DEF Assess, At, PCs, ProcsTypeOK
    <3>4. QED
      BY <2>10, <3>3 DEF Assess, files, world, FilesTypeOK, StoreTypeOK, WorldTypeOK
  <2>11. CASE Compare(p)
    <3>1. CASE Fail(p)
      BY <2>11, <3>1, FailType DEF Compare
    <3>2. CASE ~Fail(p)
      <4>1. FilesTypeOK'
        BY <2>0, <2>11, <3>2, CarrierType DEF Compare, At, Create, Carriers
      <4>2. Reusable(e) \in BOOLEAN
        BY DEF Reusable
      <4>3. note' \in [Procs -> Outcomes]
        BY <2>11, <3>2, <4>2 DEF Compare, ProcsTypeOK
      <4>4. ProcsTypeOK'
        BY <2>11, <3>2, <4>3, GotoType DEF Compare, At, PCs, ProcsTypeOK
      <4>5. QED
        BY <2>11, <3>2, <4>1, <4>4 DEF Compare, world, WorldTypeOK
    <3>3. QED
      BY <3>1, <3>2
  <2>12. CASE CommitOutcome(p)
    <3>1. CASE Fail(p)
      BY <2>12, <3>1, FailType DEF CommitOutcome
    <3>2. CASE ~Fail(p)
      <4>1. FilesTypeOK'
        <5>1. PICK o \in Outcomes : o = note[p]
          BY DEF ProcsTypeOK
        <5>2. Commit(e, o) /\ UNCHANGED carrier
          BY <2>0, <2>12, <3>2, <5>1 DEF CommitOutcome
        <5>3. QED
          BY <5>2 DEF Commit, FilesTypeOK, StoreTypeOK
      <4>2. ProcsTypeOK'
        BY <2>12, <3>2, GotoType DEF CommitOutcome, At, PCs, ProcsTypeOK
      <4>3. QED
        BY <2>12, <3>2, <4>1, <4>2 DEF CommitOutcome, world, WorldTypeOK
    <3>3. QED
      BY <3>1, <3>2
  <2>13. CASE Complete(p)
    <3>1. CASE Fail(p)
      BY <2>13, <3>1, FailType DEF Complete
    <3>2. CASE ~Fail(p)
      <4>1. FilesTypeOK'
        BY <2>0, <2>13, <3>2, CarrierType DEF Complete, At, Create, Carriers
      <4>2. ProcsTypeOK'
        BY <2>13, <3>2, LeaveType DEF Complete
      <4>3. QED
        BY <2>0, <2>13, <3>2, <4>1, <4>2 DEF Complete, At, world, WorldTypeOK, ProcsTypeOK
    <3>3. QED
      BY <3>1, <3>2
  <2>14. QED
    BY <1>4, <2>1, <2>2, <2>3, <2>4, <2>5, <2>6, <2>7, <2>8, <2>9, <2>10,
       <2>11, <2>12, <2>13 DEF Proceed
<1>5. ASSUME NEW p \in Procs, Die(p) PROVE TypeOK'
  <2>0. pc[p] # "idle" => work[p] \in Effects
    BY DEF ProcsTypeOK
  <2>1. CASE Crash(p)
    BY <2>1, FailType DEF Crash
  <2>2. CASE CrashCreating(p)
    <3>1. Writing(p) \in Carriers /\ work[p] \in Effects
      BY <2>0, <2>2 DEF CrashCreating, Writing, Carriers
    <3>2. FilesTypeOK'
      BY <2>2, <3>1, CarrierType DEF CrashCreating
    <3>3. QED
      BY <2>2, <3>2, LeaveType DEF CrashCreating, world, WorldTypeOK
  <2>3. CASE CrashInStore(p)
    <3>1. FilesTypeOK'
      BY <2>3 DEF CrashInStore, TearAttempt, TearResult, FilesTypeOK, StoreTypeOK
    <3>2. QED
      BY <2>3, <3>1, LeaveType DEF CrashInStore, world, WorldTypeOK
  <2>4. QED
    BY <1>5, <2>1, <2>2, <2>3 DEF Die
<1>6. QED
  BY <1>1, <1>2, <1>3, <1>4, <1>5 DEF Next

-----------------------------------------------------------------------------
(* The inductive invariant.                                                *)

OwnerPCs == {"retain", "revalidate", "recheck", "launch", "finish", "assess",
             "compare", "commit", "complete"}

(* The carriers the owner has written when it is about to take a step.     *)
Kept(label) ==
    CASE label = "retain" -> {}
      [] label \in {"revalidate", "recheck", "launch", "finish"} -> {"run"}
      [] label \in {"assess", "compare"} -> {"run", "command"}
      [] OTHER -> {"run", "command", "assessment"}

Exactly(e, kept) ==
    \A f \in Carriers : carrier[e][f] = IF f \in kept THEN "whole" ELSE "absent"

(* The owner's place, its files and its history agree.                     *)
InStep(p) ==
    /\ attempts[work[p]] = Admitted
    /\ Exactly(work[p], Kept(pc[p]))
    /\ results[work[p]] = IF pc[p] = "complete" THEN note[p] ELSE Absent
    /\ launches[work[p]] = IF pc[p] \in {"retain", "revalidate", "recheck", "launch"}
                           THEN 0 ELSE Started(work[p])

OneOwner ==
    \A p, q \in Procs :
        pc[p] \in OwnerPCs /\ pc[q] \in OwnerPCs /\ work[p] = work[q] => p = q

RepeatsTerminal(e) == RepeatOf[e] # None => Terminal(RepeatOf[e])

ProcInv(p) ==
    /\ pc[p] \in OwnerPCs => InStep(p)
    /\ pc[p] = "admit" /\ old[p] = "completed" => Completed(work[p])
    /\ pc[p] # "idle" => RepeatsTerminal(work[p])

(* What the files of one effect say about each other.                      *)
FilesInv(e) ==
    /\ attempts[e] # Admitted =>
          Exactly(e, {}) /\ launches[e] = 0 /\ results[e] = Absent
    /\ results[e] # Absent =>
          /\ launches[e] = Started(e)
          /\ \A f \in {"run", "command", "assessment"} : carrier[e][f] = "whole"
    /\ carrier[e]["completed"] # "absent" => results[e] \in Outcomes
    /\ launches[e] \in {0, Started(e)}
    /\ launches[e] > 0 => carrier[e]["run"] = "whole"
    /\ \A o \in Outcomes : <<e, o>> \in replies => results[e] = o

EffectInv(e) == FilesInv(e) /\ (attempts[e] # Absent => RepeatsTerminal(e))

IInv ==
    /\ TypeOK
    /\ OneOwner
    /\ \A p \in Procs : ProcInv(p)
    /\ \A e \in Effects : EffectInv(e)

-----------------------------------------------------------------------------
(* How a step of one process leaves everybody else's part of IInv alone.   *)

SameEffect(e) ==
    /\ attempts'[e] = attempts[e]
    /\ results'[e] = results[e]
    /\ carrier'[e] = carrier[e]
    /\ launches'[e] = launches[e]
    /\ \A o \in Outcomes : <<e, o>> \in replies' <=> <<e, o>> \in replies

SameProc(q) ==
    /\ pc'[q] = pc[q] /\ work'[q] = work[q]
    /\ old'[q] = old[q] /\ note'[q] = note[q]

Stable(e) ==
    /\ Completed(e) => Completed(e)'
    /\ Committed(e) => Committed(e)'

(* What execute may do to the state while p takes a step: it touches only  *)
(* p and the effect p works on, that one only as its owner, to admit it or *)
(* to answer from its completed outcome.                                   *)
Frame(p) ==
    /\ \A q \in Procs \ {p} : SameProc(q)
    /\ \A e \in Effects \ {work[p]} : SameEffect(e)
    /\ \A e \in Effects : Stable(e)
    /\ \/ pc[p] \in OwnerPCs
       \/ attempts[work[p]] = Absent
       \/ Completed(work[p])
       \/ \A e \in Effects : SameEffect(e)
    /\ pc'[p] \in OwnerPCs =>
          /\ work'[p] = work[p]
          /\ pc[p] \in OwnerPCs \/ attempts[work[p]] = Absent

(* An effect nobody touches keeps what its files say.                      *)
LEMMA SameEffectInv ==
  ASSUME NEW e \in Effects, SameEffect(e), EffectInv(e), \A x \in Effects : Stable(x)
  PROVE  EffectInv(e)'
<1>1. FilesInv(e)'
  BY DEF SameEffect, EffectInv, FilesInv, Exactly, Started
<1>2. RepeatsTerminal(e) => RepeatsTerminal(e)'
  <2>1. RepeatOf[e] # None => RepeatOf[e] \in Effects
    OBVIOUS
  <2>2. QED
    BY <2>1 DEF RepeatsTerminal, Terminal, Stable
<1>3. QED
  BY <1>1, <1>2 DEF SameEffect, EffectInv

(* A process that rests keeps its invariant when its effect is untouched.  *)
LEMMA SameProcInv ==
  ASSUME NEW q \in Procs, TypeOK, SameProc(q), ProcInv(q), \A x \in Effects : Stable(x),
         pc[q] \in OwnerPCs => SameEffect(work[q])
  PROVE  ProcInv(q)'
<1>1. pc[q] # "idle" => work[q] \in Effects
  BY DEF TypeOK, ProcsTypeOK
<1>2. pc[q] \in OwnerPCs => InStep(q)'
  BY <1>1 DEF ProcInv, SameProc, SameEffect, InStep, Exactly, Started, OwnerPCs
<1>3. pc[q] = "admit" /\ old[q] = "completed" => Completed(work[q])'
  BY <1>1 DEF ProcInv, SameProc, Stable, Completed
<1>4. pc[q] # "idle" => RepeatsTerminal(work[q])'
  <2>1. pc[q] # "idle" /\ RepeatOf[work[q]] # None => RepeatOf[work[q]] \in Effects
    BY <1>1
  <2>2. QED
    BY <1>1, <2>1 DEF ProcInv, SameProc, RepeatsTerminal, Terminal, Stable, Completed, Committed
<1>5. QED
  BY <1>2, <1>3, <1>4 DEF SameProc, ProcInv, Completed, RepeatsTerminal

(* A framed step preserves IInv when p and the effect it works on do.      *)
LEMMA FrameStep ==
  ASSUME IInv, TypeOK', NEW p \in Procs, Frame(p), ProcInv(p)',
         \A e \in Effects : e = work[p] => EffectInv(e)'
  PROVE  IInv'
<1>1. \A q \in Procs : pc[q] \in OwnerPCs =>
          attempts[work[q]] = Admitted /\ ~Completed(work[q])
  BY DEF IInv, ProcInv, InStep, Exactly, Kept, Completed, Carriers, OwnerPCs
<1>2. OneOwner'
  <2> SUFFICES ASSUME NEW q \in Procs, NEW r \in Procs, pc'[q] \in OwnerPCs,
                      pc'[r] \in OwnerPCs, work'[q] = work'[r]
               PROVE  q = r
    BY DEF OneOwner
  <2>1. CASE q # p /\ r # p
    BY <2>1 DEF Frame, SameProc, IInv, OneOwner
  <2>2. CASE q = p /\ r # p
    BY <2>2, <1>1 DEF Frame, SameProc, IInv, OneOwner
  <2>3. CASE q # p /\ r = p
    BY <2>3, <1>1 DEF Frame, SameProc, IInv, OneOwner
  <2>4. QED
    BY <2>1, <2>2, <2>3
<1>3. ASSUME NEW q \in Procs PROVE ProcInv(q)'
  <2>1. CASE q = p
    BY <2>1
  <2>2. CASE q # p
    <3>1. pc[q] \in OwnerPCs => work[q] \in Effects
      BY DEF IInv, TypeOK, ProcsTypeOK, OwnerPCs
    <3>2. pc[q] \in OwnerPCs => SameEffect(work[q])
      BY <1>1, <2>2, <3>1 DEF Frame, IInv, OneOwner
    <3>3. QED
      BY <2>2, <3>2, SameProcInv DEF Frame, IInv
  <2>3. QED
    BY <2>1, <2>2
<1>4. ASSUME NEW e \in Effects PROVE EffectInv(e)'
  <2>1. CASE e = work[p]
    BY <2>1
  <2>2. CASE e # work[p]
    BY <2>2, SameEffectInv DEF Frame, IInv
  <2>3. QED
    BY <2>1, <2>2
<1>5. QED
  BY <1>2, <1>3, <1>4 DEF IInv

(* A step that touches no effect and does not take ownership.              *)
LEMMA QuietStep ==
  ASSUME IInv, TypeOK', NEW p \in Procs,
         \A q \in Procs \ {p} : SameProc(q), \A e \in Effects : SameEffect(e),
         pc'[p] \in OwnerPCs => work'[p] = work[p] /\ pc[p] \in OwnerPCs,
         ProcInv(p)'
  PROVE  IInv'
<1>1. \A e \in Effects : Stable(e)
  BY DEF SameEffect, Stable, Completed, Committed
<1>2. Frame(p)
  BY <1>1 DEF Frame
<1>3. \A e \in Effects : EffectInv(e)'
  BY <1>1, SameEffectInv DEF IInv
<1>4. QED
  BY <1>2, <1>3, FrameStep

(* Leaving ends the process's obligations and touches no other process.    *)
LEMMA LeaveProc ==
  ASSUME TypeOK, NEW p \in Procs, Leave(p)
  PROVE  /\ \A q \in Procs \ {p} : SameProc(q)
         /\ pc'[p] = "idle"
         /\ ProcInv(p)'
<1>1. pc'[p] = "idle" /\ \A q \in Procs \ {p} : SameProc(q)
  BY DEF TypeOK, ProcsTypeOK, Leave, Goto, SameProc
<1>2. QED
  BY <1>1 DEF ProcInv, OwnerPCs

(* Every early return preserves the invariant: what was written stays.     *)
LEMMA FailStep ==
  ASSUME IInv, TypeOK', NEW p \in Procs, Fail(p)
  PROVE  IInv'
<1>1. Leave(p) /\ \A e \in Effects : SameEffect(e)
  BY DEF Fail, files, storeVars, SameEffect
<1>2. QED
  BY <1>1, LeaveProc, QuietStep DEF IInv, OwnerPCs

(* A process that goes on with nothing but its place, its find and its     *)
(* note changed leaves every other process alone.                          *)
LEMMA GotoProc ==
  ASSUME TypeOK, NEW p \in Procs, NEW label, Goto(p, label), work' = work,
         \A q \in Procs \ {p} : old'[q] = old[q] /\ note'[q] = note[q]
  PROVE  /\ \A q \in Procs \ {p} : SameProc(q)
         /\ pc'[p] = label
         /\ work'[p] = work[p]
BY DEF TypeOK, ProcsTypeOK, Goto, SameProc

(* A step of the owner of an effect, or one that admits it.                *)
LEMMA OwnStep ==
  ASSUME IInv, TypeOK', NEW p \in Procs, NEW e \in Effects, e = work[p],
         pc[p] # "idle",
         pc[p] \in OwnerPCs \/ attempts[e] = Absent,
         \A q \in Procs \ {p} : SameProc(q),
         \A x \in Effects \ {e} : SameEffect(x),
         Stable(e), FilesInv(e)',
         \/ pc'[p] = "idle"
         \/ pc'[p] \in OwnerPCs /\ work'[p] = work[p] /\ InStep(p)'
  PROVE  IInv'
<1>1. Frame(p)
  <2>1. \A x \in Effects : Stable(x)
    BY DEF SameEffect, Stable, Completed, Committed
  <2>2. QED
    BY <2>1 DEF Frame, OwnerPCs
<1>2. RepeatsTerminal(e)'
  <2>1. RepeatOf[e] # None => RepeatOf[e] \in Effects
    OBVIOUS
  <2>2. \A x \in Effects : Stable(x)
    BY <1>1 DEF Frame
  <2>3. RepeatsTerminal(e)
    BY DEF IInv, ProcInv
  <2>4. QED
    BY <2>1, <2>2, <2>3 DEF RepeatsTerminal, Terminal, Stable
<1>3. EffectInv(e)'
  BY <1>2 DEF EffectInv
<1>4. ProcInv(p)'
  BY <1>2 DEF ProcInv, OwnerPCs, RepeatsTerminal
<1>5. QED
  BY <1>1, <1>3, <1>4, FrameStep

(* What IInv says of an owner, in one place.                               *)
LEMMA OwnerFacts ==
  ASSUME IInv, NEW p \in Procs, pc[p] \in OwnerPCs
  PROVE  /\ work[p] \in Effects
         /\ pc[p] # "idle"
         /\ InStep(p)
         /\ FilesInv(work[p])
         /\ note[p] \in Outcomes
         /\ \A e \in Effects : SameEffect(e) => Stable(e)
BY DEF IInv, TypeOK, ProcsTypeOK, ProcInv, EffectInv, OwnerPCs, SameEffect, Stable,
       Completed, Committed

(* A carrier created, whole or torn, changes one file of one effect.       *)
LEMMA CarrierFrame ==
  ASSUME TypeOK, NEW e \in Effects, NEW f \in Carriers,
         NEW v \in {"torn", "whole"},
         carrier' = [carrier EXCEPT ![e][f] = v],
         UNCHANGED storeVars, UNCHANGED launches, UNCHANGED replies
  PROVE  /\ \A x \in Effects \ {e} : SameEffect(x)
         /\ \A g \in Carriers : carrier'[e][g] = IF g = f THEN v ELSE carrier[e][g]
<1>1. carrier'[e] = [carrier[e] EXCEPT ![f] = v]
  BY DEF TypeOK, FilesTypeOK
<1>2. \A x \in Effects \ {e} : carrier'[x] = carrier[x]
  BY DEF TypeOK, FilesTypeOK
<1>3. carrier[e] \in [Carriers -> {"absent", "torn", "whole"}]
  BY DEF TypeOK, FilesTypeOK
<1>4. QED
  BY <1>1, <1>2, <1>3 DEF SameEffect, storeVars

(* The owner creates its next carrier and goes on: run.json, command.json  *)
(* and assessment.json.                                                    *)
LEMMA OwnCarrier ==
  ASSUME IInv, TypeOK', NEW p \in Procs, pc[p] \in OwnerPCs \ {"complete"},
         NEW e \in Effects, e = work[p],
         NEW f \in Carriers \ {"completed"}, Create(e, f),
         UNCHANGED <<storeVars, launches, replies>>,
         NEW label \in OwnerPCs \ {"complete"}, Goto(p, label), work' = work,
         \A q \in Procs \ {p} : old'[q] = old[q] /\ note'[q] = note[q],
         Kept(label) = Kept(pc[p]) \cup {f},
         pc[p] \in {"retain", "revalidate", "recheck", "launch"}
            <=> label \in {"retain", "revalidate", "recheck", "launch"}
  PROVE  IInv'
<1>1. TypeOK /\ InStep(p) /\ FilesInv(e) /\ pc[p] # "idle"
  BY OwnerFacts DEF IInv
<1>2. /\ \A q \in Procs \ {p} : SameProc(q)
      /\ pc'[p] = label /\ work'[p] = e
  BY <1>1, GotoProc
<1>3. /\ \A x \in Effects \ {e} : SameEffect(x)
      /\ \A g \in Carriers : carrier'[e][g] = IF g = f THEN "whole" ELSE carrier[e][g]
  <2>1. f \in Carriers /\ carrier' = [carrier EXCEPT ![e][f] = "whole"]
    BY DEF Create
  <2>2. QED
    BY <1>1, <2>1, CarrierFrame
<1>4. /\ attempts[e] = Admitted /\ attempts'[e] = Admitted
      /\ results[e] = Absent /\ results'[e] = Absent
      /\ launches'[e] = launches[e]
  BY <1>1 DEF InStep, storeVars
<1>5. \A g \in Carriers :
         carrier'[e][g] = IF g \in Kept(label) THEN "whole" ELSE "absent"
  BY <1>1, <1>3 DEF InStep, Exactly
<1>6. InStep(p)'
  <2>1. Exactly(work[p], Kept(pc[p]))'
    BY <1>2, <1>5 DEF Exactly
  <2>2. launches'[e] = IF label \in {"retain", "revalidate", "recheck", "launch"}
                       THEN 0 ELSE Started(e)
    BY <1>1, <1>4 DEF InStep
  <2>3. QED
    BY <1>2, <1>4, <2>1, <2>2 DEF InStep, Started
<1>7. FilesInv(e)'
  <2>1. carrier'[e]["completed"] = "absent"
    <3>1. carrier[e]["completed"] = "absent"
      BY <1>1 DEF InStep, Exactly, Kept, Carriers
    <3>2. QED
      BY <1>3, <3>1 DEF Carriers
  <2>2. launches[e] > 0 => carrier'[e]["run"] = "whole"
    BY <1>1, <1>3 DEF FilesInv, Carriers
  <2>3. QED
    BY <1>1, <1>4, <2>1, <2>2 DEF FilesInv, Started
<1>8. Stable(e)
  BY <1>1, <1>4 DEF Stable, Completed, Committed, InStep, Exactly, Kept, Carriers
<1>9. QED
  BY <1>1, <1>2, <1>3, <1>6, <1>7, <1>8, OwnStep

(* The owner goes on without touching a file: what it checks costs nothing *)
(* on disk, so two places with the same files and launches are alike.      *)
LEMMA OwnMove ==
  ASSUME IInv, TypeOK', NEW p \in Procs, pc[p] \in OwnerPCs \ {"complete"},
         UNCHANGED <<files, launches, replies>>,
         NEW label \in OwnerPCs \ {"complete"}, Goto(p, label), work' = work,
         \A q \in Procs \ {p} : old'[q] = old[q] /\ note'[q] = note[q],
         Kept(label) = Kept(pc[p]),
         pc[p] \in {"retain", "revalidate", "recheck", "launch"}
            <=> label \in {"retain", "revalidate", "recheck", "launch"}
  PROVE  IInv'
<1>1. TypeOK /\ InStep(p) /\ pc[p] # "idle" /\ RepeatsTerminal(work[p])
  BY OwnerFacts DEF IInv, ProcInv
<1>2. /\ \A q \in Procs \ {p} : SameProc(q)
      /\ pc'[p] = label /\ work'[p] = work[p]
  BY <1>1, GotoProc
<1>3. \A e \in Effects : SameEffect(e)
  BY DEF files, storeVars, SameEffect
<1>4. InStep(p)'
  BY <1>1, <1>2 DEF InStep, Exactly, Started, files, storeVars
<1>5. RepeatsTerminal(work[p])'
  BY <1>1, <1>2 DEF RepeatsTerminal, Terminal, Completed, Committed, files, storeVars
<1>6. ProcInv(p)'
  BY <1>2, <1>4, <1>5 DEF ProcInv, OwnerPCs
<1>7. QED
  BY <1>2, <1>3, <1>6, QuietStep

-----------------------------------------------------------------------------
(* Every step preserves the inductive invariant.                           *)
LEMMA Inductive == IInv /\ [Next]_vars => IInv'
<1> SUFFICES ASSUME IInv, [Next]_vars PROVE IInv'
  OBVIOUS
<1>t. TypeOK /\ TypeOK'
  BY TypeInvariant DEF IInv
<1>1. CASE UNCHANGED files /\ UNCHANGED procs /\ UNCHANGED launches /\ UNCHANGED replies
  <2>1. \A e \in Effects : SameEffect(e) /\ Stable(e)
    BY <1>1 DEF files, storeVars, SameEffect, Stable, Completed, Committed
  <2>2. \A q \in Procs : SameProc(q)
    BY <1>1 DEF procs, SameProc
  <2>3. ASSUME NEW q \in Procs PROVE ProcInv(q)'
    <3>1. pc[q] \in OwnerPCs => work[q] \in Effects
      BY <1>t DEF TypeOK, ProcsTypeOK, OwnerPCs
    <3>2. QED
      BY <1>t, <2>1, <2>2, <3>1, SameProcInv DEF IInv
  <2>4. ASSUME NEW e \in Effects PROVE EffectInv(e)'
    BY <2>1, SameEffectInv DEF IInv
  <2>5. OneOwner'
    BY <2>2 DEF IInv, OneOwner, SameProc
  <2>6. QED
    BY <1>t, <2>3, <2>4, <2>5 DEF IInv
<1>2. ASSUME NEW p \in Procs, NEW e \in Effects, Enter(p, e) PROVE IInv'
  <2>1. \A x \in Effects : SameEffect(x)
    BY <1>2 DEF Enter, files, storeVars, SameEffect
  <2>2. /\ \A q \in Procs \ {p} : SameProc(q)
        /\ pc'[p] = "examine" /\ work'[p] = e
    BY <1>2, <1>t DEF Enter, Goto, TypeOK, ProcsTypeOK, SameProc
  <2>3. RepeatsTerminal(work[p])'
    BY <1>2, <2>2 DEF Enter, Offered, RepeatsTerminal, Terminal, Completed, Committed, files, storeVars
  <2>4. ProcInv(p)'
    BY <2>2, <2>3 DEF ProcInv, OwnerPCs
  <2>5. QED
    BY <1>t, <2>1, <2>2, <2>4, QuietStep DEF OwnerPCs
<1>3. ASSUME NEW p \in Procs, NEW e \in Effects, e = work[p], Proceed(p) PROVE IInv'
  <2> USE <1>3
  <2>1. CASE Examine(p)
    <3>1. CASE Fail(p)
      BY <1>t, <3>1, FailStep
    <3>2. CASE ~Fail(p)
      <4>1. /\ Goto(p, "admit") /\ old' = [old EXCEPT ![p] = Found(e)]
            /\ UNCHANGED <<files, work, note, launches, replies>>
            /\ pc[p] = "examine"
        BY <2>1, <3>2 DEF Examine, At
      <4>2. /\ \A q \in Procs \ {p} : SameProc(q)
            /\ pc'[p] = "admit" /\ work'[p] = e
        BY <1>t, <4>1, GotoProc DEF TypeOK, ProcsTypeOK
      <4>3. \A x \in Effects : SameEffect(x)
        BY <4>1 DEF files, storeVars, SameEffect
      <4>4. old'[p] = "completed" => Completed(e)
        BY <1>t, <4>1 DEF Found, TypeOK, ProcsTypeOK
      <4>5. RepeatsTerminal(e)
        BY <4>1 DEF IInv, ProcInv
      <4>6. ProcInv(p)'
        BY <4>1, <4>2, <4>4, <4>5 DEF ProcInv, OwnerPCs, Completed, RepeatsTerminal,
           Terminal, Committed, files, storeVars
      <4>7. QED
        BY <1>t, <4>2, <4>3, <4>6, QuietStep DEF OwnerPCs
    <3>3. QED
      BY <3>1, <3>2
  <2>2. CASE AdmitNew(p)
    <3>1. CASE Fail(p)
      BY <1>t, <3>1, FailStep
    <3>2. CASE ~Fail(p)
      <4>1. /\ Admit(e) /\ Goto(p, "retain") /\ pc[p] = "admit"
            /\ UNCHANGED <<carrier, work, old, note, launches, replies>>
        BY <2>2, <3>2 DEF AdmitNew, At
      <4>2. /\ \A q \in Procs \ {p} : SameProc(q)
            /\ pc'[p] = "retain" /\ work'[p] = e
        BY <1>t, <4>1, GotoProc
      <4>3. e \in Effects /\ attempts[e] = Absent /\ results[e] = Absent
        BY <4>1 DEF Admit, CanAdmit
      <4>4. attempts'[e] = Admitted /\ results'[e] = Absent
        BY <1>t, <4>1, <4>3 DEF Admit, TypeOK, FilesTypeOK, StoreTypeOK
      <4>5. \A x \in Effects \ {e} : SameEffect(x)
        BY <1>t, <4>1 DEF Admit, TypeOK, FilesTypeOK, StoreTypeOK, SameEffect
      <4>6. Exactly(e, {}) /\ launches[e] = 0 /\ FilesInv(e)
        BY <4>3 DEF IInv, EffectInv, FilesInv
      <4>7. FilesInv(e)'
        BY <4>1, <4>4, <4>6, <4>3 DEF FilesInv, Exactly, Carriers, Started
      <4>8. Stable(e)
        BY <4>3 DEF Stable, Completed, Committed, FilesInv, Exactly, Carriers, IInv, EffectInv
      <4>9. InStep(p)'
        BY <4>1, <4>2, <4>4, <4>6 DEF InStep, Kept, Exactly
      <4>10. QED
        BY <1>t, <4>1, <4>2, <4>3, <4>5, <4>7, <4>8, <4>9, OwnStep DEF OwnerPCs
    <3>3. QED
      BY <3>1, <3>2
  <2>3. CASE Replay(p)
    <3>1. CASE Fail(p)
      BY <1>t, <3>1, FailStep
    <3>2. CASE ~Fail(p)
      <4>1. /\ Committed(e) /\ Leave(p) /\ UNCHANGED files /\ UNCHANGED launches
            /\ replies' = replies \cup {<<e, results[e]>>}
            /\ pc[p] = "admit" /\ old[p] = "completed"
        BY <2>3, <3>2 DEF Replay, At
      <4>2. /\ \A q \in Procs \ {p} : SameProc(q)
            /\ pc'[p] = "idle" /\ ProcInv(p)'
        BY <1>t, <4>1, LeaveProc
      <4>3. Completed(e) /\ e \in Effects
        BY <1>t, <4>1 DEF IInv, ProcInv
      <4>4. \A x \in Effects \ {e} : SameEffect(x)
        BY <4>1 DEF files, storeVars, SameEffect
      <4>5. \A x \in Effects : Stable(x)
        BY <4>1 DEF files, storeVars, Stable, Completed, Committed
      <4>6. Frame(p)
        BY <4>2, <4>3, <4>4, <4>5 DEF Frame, OwnerPCs
      <4>7. FilesInv(e) /\ EffectInv(e)
        BY <4>3 DEF IInv, EffectInv
      <4>8. FilesInv(e)'
        BY <4>1, <4>7 DEF FilesInv, Exactly, Started, files, storeVars
      <4>9. EffectInv(e)'
        BY <4>1, <4>7, <4>8 DEF EffectInv, RepeatsTerminal, Terminal, Completed, Committed,
           files, storeVars
      <4>10. QED
        BY <1>t, <4>2, <4>6, <4>9, FrameStep
    <3>3. QED
      BY <3>1, <3>2
  <2>4. CASE Uncertain(p)
    BY <1>t, <2>4, FailStep DEF Uncertain
  <2>5. CASE Retain(p)
    <3>1. CASE Fail(p)
      BY <1>t, <3>1, FailStep
    <3>2. CASE ~Fail(p)
      <4>1. /\ Create(e, "run") /\ Goto(p, "revalidate") /\ pc[p] = "retain"
            /\ UNCHANGED <<storeVars, work, old, note, launches, replies>>
        BY <2>5, <3>2 DEF Retain, At
      <4>2. pc[p] \in OwnerPCs
        BY <4>1 DEF OwnerPCs
      <4>3. Kept("revalidate") = Kept(pc[p]) \cup {"run"}
        BY <4>1 DEF Kept
      <4>4. QED
        BY <1>t, <4>1, <4>2, <4>3, OwnCarrier DEF OwnerPCs, Carriers
    <3>3. QED
      BY <3>1, <3>2
  <2>6. CASE Revalidate(p)
    <3>1. CASE Fail(p)
      BY <1>t, <3>1, FailStep
    <3>2. CASE ~Fail(p)
      <4>1. /\ Goto(p, "recheck") /\ pc[p] = "revalidate"
            /\ UNCHANGED <<files, work, old, note, launches, replies>>
        BY <2>6, <3>2 DEF Revalidate, At
      <4>2. Kept("recheck") = Kept(pc[p])
        BY <4>1 DEF Kept
      <4>3. QED
        BY <1>t, <4>1, <4>2, OwnMove DEF OwnerPCs
    <3>3. QED
      BY <3>1, <3>2
  <2>7. CASE Recheck(p)
    <3>1. CASE Fail(p)
      BY <1>t, <3>1, FailStep
    <3>2. CASE ~Fail(p)
      <4>1. /\ Goto(p, "launch") /\ pc[p] = "recheck"
            /\ UNCHANGED <<files, work, old, note, launches, replies>>
        BY <2>7, <3>2 DEF Recheck, At
      <4>2. Kept("launch") = Kept(pc[p])
        BY <4>1 DEF Kept
      <4>3. QED
        BY <1>t, <4>1, <4>2, OwnMove DEF OwnerPCs
    <3>3. QED
      BY <3>1, <3>2
  <2>8. CASE Launch(p)
    <3>1. /\ Goto(p, "finish") /\ pc[p] = "launch"
          /\ launches' = [launches EXCEPT ![e] = @ + Started(e)]
          /\ UNCHANGED <<files, work, old, note, replies>>
      BY <2>8 DEF Launch, At
    <3>2. pc[p] \in OwnerPCs /\ InStep(p) /\ FilesInv(e)
      BY <3>1, OwnerFacts DEF OwnerPCs
    <3>3. /\ \A q \in Procs \ {p} : SameProc(q)
          /\ pc'[p] = "finish" /\ work'[p] = e
      BY <1>t, <3>1, GotoProc
    <3>4. launches[e] = 0 /\ attempts[e] = Admitted /\ results[e] = Absent
      BY <3>1, <3>2 DEF InStep
    <3>5. launches'[e] = Started(e) /\ \A x \in Effects \ {e} : launches'[x] = launches[x]
      BY <1>t, <3>1, <3>4 DEF TypeOK, Started
    <3>6. \A x \in Effects \ {e} : SameEffect(x)
      BY <3>1, <3>5 DEF SameEffect, files, storeVars
    <3>7. \A f \in Carriers : carrier[e][f] = IF f = "run" THEN "whole" ELSE "absent"
      BY <3>1, <3>2 DEF InStep, Exactly, Kept
    <3>8. InStep(p)'
      BY <3>1, <3>3, <3>4, <3>5, <3>7 DEF InStep, Exactly, Kept, files, storeVars, Started
    <3>9. FilesInv(e)'
      BY <3>1, <3>2, <3>4, <3>5, <3>7 DEF FilesInv, Carriers, files, storeVars, Started
    <3>10. Stable(e)
      BY <3>1 DEF files, storeVars, Stable, Completed, Committed
    <3>11. QED
      BY <1>t, <3>1, <3>2, <3>3, <3>6, <3>8, <3>9, <3>10, OwnStep DEF OwnerPCs
  <2>9. CASE Finish(p)
    <3>1. CASE Fail(p)
      BY <1>t, <3>1, FailStep
    <3>2. CASE ~Fail(p)
      <4>1. /\ Create(e, "command") /\ Goto(p, "assess") /\ pc[p] = "finish"
            /\ UNCHANGED <<storeVars, work, old, launches, replies>>
        BY <2>9, <3>2 DEF Finish, At
      <4>2. \A q \in Procs \ {p} : old'[q] = old[q] /\ note'[q] = note[q]
        BY <1>t, <2>9, <3>2 DEF Finish, TypeOK, ProcsTypeOK
      <4>3. Kept("assess") = Kept(pc[p]) \cup {"command"}
        BY <4>1 DEF Kept
      <4>4. QED
        BY <1>t, <4>1, <4>2, <4>3, OwnCarrier DEF OwnerPCs, Carriers
    <3>3. QED
      BY <3>1, <3>2
  <2>10. CASE Assess(p)
    <3>1. /\ Goto(p, "compare") /\ pc[p] = "assess"
          /\ UNCHANGED <<files, work, old, launches, replies>>
      BY <2>10 DEF Assess, At
    <3>2. \A q \in Procs \ {p} : old'[q] = old[q] /\ note'[q] = note[q]
      BY <1>t, <2>10 DEF Assess, TypeOK, ProcsTypeOK
    <3>3. Kept("compare") = Kept(pc[p])
      BY <3>1 DEF Kept
    <3>4. QED
      BY <1>t, <3>1, <3>2, <3>3, OwnMove DEF OwnerPCs
  <2>11. CASE Compare(p)
    <3>1. CASE Fail(p)
      BY <1>t, <3>1, FailStep
    <3>2. CASE ~Fail(p)
      <4>1. /\ Create(e, "assessment") /\ Goto(p, "commit") /\ pc[p] = "compare"
            /\ UNCHANGED <<storeVars, work, old, launches, replies>>
        BY <2>11, <3>2 DEF Compare, At
      <4>2. \A q \in Procs \ {p} : old'[q] = old[q] /\ note'[q] = note[q]
        BY <1>t, <2>11, <3>2 DEF Compare, TypeOK, ProcsTypeOK
      <4>3. Kept("commit") = Kept(pc[p]) \cup {"assessment"}
        BY <4>1 DEF Kept
      <4>4. QED
        BY <1>t, <4>1, <4>2, <4>3, OwnCarrier DEF OwnerPCs, Carriers
    <3>3. QED
      BY <3>1, <3>2
  <2>12. CASE CommitOutcome(p)
    <3>1. CASE Fail(p)
      BY <1>t, <3>1, FailStep
    <3>2. CASE ~Fail(p)
      <4>1. /\ Commit(e, note[p]) /\ Goto(p, "complete") /\ pc[p] = "commit"
            /\ UNCHANGED <<carrier, work, old, note, launches, replies>>
        BY <2>12, <3>2 DEF CommitOutcome, At
      <4>2. pc[p] \in OwnerPCs /\ InStep(p) /\ FilesInv(e) /\ note[p] \in Outcomes
        BY <4>1, OwnerFacts DEF OwnerPCs
      <4>3. /\ \A q \in Procs \ {p} : SameProc(q)
            /\ pc'[p] = "complete" /\ work'[p] = e
        BY <1>t, <4>1, GotoProc
      <4>4. attempts[e] = Admitted /\ results[e] = Absent /\ launches[e] = Started(e)
        BY <4>1, <4>2 DEF InStep
      <4>5. /\ results'[e] = note[p] /\ attempts'[e] = Admitted
            /\ \A x \in Effects \ {e} : results'[x] = results[x]
        BY <1>t, <4>1, <4>4 DEF Commit, TypeOK, FilesTypeOK, StoreTypeOK
      <4>6. \A x \in Effects \ {e} : SameEffect(x)
        BY <4>1, <4>5 DEF Commit, SameEffect
      <4>7. Exactly(e, {"run", "command", "assessment"})
        BY <4>1, <4>2 DEF InStep, Kept
      <4>8. InStep(p)'
        BY <4>1, <4>3, <4>4, <4>5, <4>7 DEF InStep, Exactly, Kept, Started
      <4>9. FilesInv(e)'
        BY <4>1, <4>2, <4>4, <4>5, <4>7 DEF FilesInv, Exactly, Carriers, Started
      <4>10. Stable(e)
        BY <4>1, <4>4 DEF Stable, Completed, Committed
      <4>11. QED
        BY <1>t, <4>1, <4>2, <4>3, <4>6, <4>8, <4>9, <4>10, OwnStep DEF OwnerPCs
    <3>3. QED
      BY <3>1, <3>2
  <2>13. CASE Complete(p)
    <3>1. CASE Fail(p)
      BY <1>t, <3>1, FailStep
    <3>2. CASE ~Fail(p)
      <4>1. /\ Create(e, "completed") /\ Leave(p) /\ pc[p] = "complete"
            /\ replies' = replies \cup {<<e, note[p]>>}
            /\ UNCHANGED <<storeVars, launches>>
        BY <2>13, <3>2 DEF Complete, At
      <4>2. pc[p] \in OwnerPCs /\ InStep(p) /\ FilesInv(e) /\ note[p] \in Outcomes
        BY <4>1, OwnerFacts DEF OwnerPCs
      <4>3. /\ \A q \in Procs \ {p} : SameProc(q)
            /\ pc'[p] = "idle"
        BY <1>t, <4>1, LeaveProc
      <4>4. attempts[e] = Admitted /\ results[e] = note[p] /\ launches[e] = Started(e)
        BY <4>1, <4>2 DEF InStep
      <4>5. carrier' = [carrier EXCEPT ![e]["completed"] = "whole"]
        BY <4>1 DEF Create
      <4>6. /\ \A x \in Effects \ {e} : carrier'[x] = carrier[x]
            /\ carrier'[e] = [carrier[e] EXCEPT !["completed"] = "whole"]
            /\ carrier[e] \in [Carriers -> {"absent", "torn", "whole"}]
        BY <1>t, <4>5 DEF TypeOK, FilesTypeOK
      <4>7. \A x \in Effects \ {e} : SameEffect(x)
        BY <4>1, <4>6 DEF storeVars, SameEffect
      <4>8. \A f \in Carriers : carrier'[e][f] = "whole"
        BY <4>1, <4>2, <4>6 DEF InStep, Exactly, Kept, Carriers
      <4>9. FilesInv(e)'
        BY <4>1, <4>2, <4>4, <4>8 DEF FilesInv, Carriers, Started, storeVars
      <4>10. Stable(e)
        BY <4>1, <4>8 DEF Stable, Completed, Committed, storeVars, Carriers
      <4>11. QED
        BY <1>t, <4>1, <4>2, <4>3, <4>7, <4>9, <4>10, OwnStep
    <3>3. QED
      BY <3>1, <3>2
  <2>14. QED
    BY <1>3, <2>1, <2>2, <2>3, <2>4, <2>5, <2>6, <2>7, <2>8, <2>9, <2>10,
       <2>11, <2>12, <2>13 DEF Proceed
<1>4. ASSUME NEW p \in Procs, Die(p) PROVE IInv'
  <2>1. CASE Crash(p)
    BY <1>t, <2>1, FailStep DEF Crash
  <2>2. CASE CrashCreating(p)
    <3> DEFINE e == work[p]
               f == Writing(p)
    <3>1. /\ f \in Carriers /\ carrier[e][f] = "absent"
          /\ carrier' = [carrier EXCEPT ![e][f] = "torn"]
          /\ UNCHANGED storeVars /\ UNCHANGED launches /\ UNCHANGED replies
          /\ Leave(p)
      BY <2>2 DEF CrashCreating
    <3>2. /\ pc[p] \in {"retain", "finish", "compare", "complete"}
          /\ pc[p] = "retain" <=> f = "run"
          /\ pc[p] = "complete" <=> f = "completed"
      BY <3>1 DEF Writing, Carriers
    <3>3. pc[p] \in OwnerPCs
      BY <3>2 DEF OwnerPCs
    <3>4. /\ InStep(p) /\ note[p] \in Outcomes
          /\ \A x \in Effects : x = e => FilesInv(x)
      BY <3>3, OwnerFacts
    <3>5. PICK x \in Effects : x = e
      BY <3>3, OwnerFacts
    <3>6. /\ \A q \in Procs \ {p} : SameProc(q)
          /\ pc'[p] = "idle"
      BY <1>t, <3>1, LeaveProc
    <3>7. /\ \A y \in Effects \ {x} : SameEffect(y)
          /\ \A g \in Carriers : carrier'[x][g] = IF g = f THEN "torn" ELSE carrier[x][g]
      BY <1>t, <3>1, <3>5, CarrierFrame
    <3>8. /\ attempts[x] = Admitted
          /\ results[x] = IF pc[p] = "complete" THEN note[p] ELSE Absent
          /\ pc[p] = "retain" => launches[x] = 0
          /\ pc[p] = "complete" => launches[x] = Started(x)
      BY <3>4, <3>5 DEF InStep
    <3>9. \A g \in Carriers :
             carrier[x][g] = IF g \in Kept(pc[p]) THEN "whole" ELSE "absent"
      BY <3>4, <3>5 DEF InStep, Exactly
    <3>10. FilesInv(x)
      BY <3>4, <3>5
    <3>11. FilesInv(x)'
      <4>1. carrier'[x]["completed"] # "absent" => pc[p] = "complete"
        BY <3>2, <3>7, <3>9 DEF Carriers, Kept
      <4>2. pc[p] = "complete" =>
               \A g \in {"run", "command", "assessment"} : carrier'[x][g] = "whole"
        BY <3>2, <3>7, <3>9 DEF Carriers, Kept
      <4>3. launches[x] > 0 => carrier'[x]["run"] = "whole"
        BY <3>2, <3>7, <3>8, <3>9, <3>10 DEF Carriers, Kept, FilesInv
      <4>4. attempts'[x] = Admitted /\ results'[x] = results[x]
            /\ launches'[x] = launches[x] /\ replies' = replies
        BY <3>1, <3>8 DEF storeVars
      <4>5. QED
        BY <3>4, <3>8, <3>10, <4>1, <4>2, <4>3, <4>4 DEF FilesInv, Started
    <3>12. Stable(x)
      BY <3>1, <3>9 DEF Stable, Completed, Committed, Kept, Carriers, storeVars
    <3>13. QED
      BY <1>t, <3>2, <3>3, <3>5, <3>6, <3>7, <3>11, <3>12, OwnStep
  <2>3. CASE CrashInStore(p)
    <3>1. /\ Leave(p) /\ UNCHANGED <<carrier, launches, replies>>
          /\ pc[p] \in {"admit", "commit"}
          /\ pc[p] = "admit" => TearAttempt(work[p])
          /\ pc[p] = "commit" => TearResult(work[p])
      BY <2>3 DEF CrashInStore, At
    <3>2. PICK x \in Effects : x = work[p]
      BY <1>t, <3>1 DEF TypeOK, ProcsTypeOK
    <3>3. /\ \A q \in Procs \ {p} : SameProc(q)
          /\ pc'[p] = "idle"
      BY <1>t, <3>1, LeaveProc
    <3>4. FilesInv(x)
      BY DEF IInv, EffectInv
    <3>5. CASE pc[p] = "admit"
      <4>1. attempts[x] = Absent /\ results[x] = Absent /\ TearAttempt(x)
        BY <3>1, <3>2, <3>5 DEF TearAttempt, CanAdmit
      <4>2. /\ attempts'[x] = Torn /\ results' = results
            /\ \A y \in Effects \ {x} : attempts'[y] = attempts[y]
        BY <1>t, <4>1 DEF TearAttempt, TypeOK, FilesTypeOK, StoreTypeOK
      <4>3. \A y \in Effects \ {x} : SameEffect(y)
        BY <3>1, <4>2 DEF SameEffect
      <4>4. FilesInv(x)' /\ Stable(x)
        BY <3>1, <3>4, <4>1, <4>2 DEF FilesInv, Exactly, Started, Stable, Completed, Committed
      <4>5. QED
        BY <1>t, <3>1, <3>2, <3>3, <3>5, <4>1, <4>3, <4>4, OwnStep
    <3>6. CASE pc[p] = "commit"
      <4>1. pc[p] \in OwnerPCs
        BY <3>6 DEF OwnerPCs
      <4>2. InStep(p)
        BY <4>1, OwnerFacts
      <4>3. /\ attempts[x] = Admitted /\ results[x] = Absent /\ launches[x] = Started(x)
            /\ Exactly(x, {"run", "command", "assessment"}) /\ TearResult(x)
        BY <3>1, <3>2, <3>6, <4>2 DEF InStep, Kept
      <4>4. /\ results'[x] = Torn /\ attempts' = attempts
            /\ \A y \in Effects \ {x} : results'[y] = results[y]
        BY <1>t, <4>3 DEF TearResult, TypeOK, FilesTypeOK, StoreTypeOK
      <4>5. \A y \in Effects \ {x} : SameEffect(y)
        BY <3>1, <4>4 DEF SameEffect
      <4>6. FilesInv(x)' /\ Stable(x)
        BY <3>1, <3>4, <4>3, <4>4 DEF FilesInv, Exactly, Carriers, Started, Stable,
           Completed, Committed
      <4>7. QED
        BY <1>t, <3>2, <3>3, <3>6, <4>1, <4>5, <4>6, OwnStep
    <3>7. QED
      BY <3>1, <3>5, <3>6
  <2>4. QED
    BY <1>4, <2>1, <2>2, <2>3 DEF Die
<1>5. CASE World
  BY <1>1, <1>5 DEF World
<1>6. CASE UNCHANGED vars
  BY <1>1, <1>6 DEF vars
<1>7. ASSUME NEW p \in Procs, Proceed(p) PROVE IInv'
  <2>1. pc[p] # "idle"
    BY <1>7 DEF Proceed, Examine, AdmitNew, Replay, Uncertain, Retain, Revalidate, Recheck,
       Launch, Finish, Assess, Compare, CommitOutcome, Complete, At
  <2>2. work[p] \in Effects
    BY <1>t, <2>1 DEF TypeOK, ProcsTypeOK
  <2>3. QED
    BY <1>3, <1>7, <2>2
<1>8. QED
  BY <1>2, <1>4, <1>5, <1>6, <1>7 DEF Next

(* The initial states satisfy the inductive invariant.                     *)
LEMMA InitInvariant == Init => IInv
<1> SUFFICES ASSUME Init PROVE IInv
  OBVIOUS
<1>1. TypeOK
  BY BlankOutcome DEF Init, StoreInit, TypeOK, FilesTypeOK, StoreTypeOK, WorldTypeOK,
     ProcsTypeOK, PCs, Carriers
<1>2. \A p \in Procs : pc[p] = "idle"
  BY DEF Init
<1>3. OneOwner /\ \A p \in Procs : ProcInv(p)
  BY <1>2 DEF OneOwner, ProcInv, OwnerPCs
<1>4. ASSUME NEW e \in Effects PROVE EffectInv(e)
  <2>1. \A f \in Carriers : carrier[e][f] = "absent"
    BY DEF Init
  <2>2. attempts[e] = Absent /\ results[e] = Absent /\ launches[e] = 0 /\ replies = {}
    BY DEF Init, StoreInit
  <2>3. QED
    BY <2>1, <2>2 DEF EffectInv, FilesInv, Exactly, Carriers, Started
<1>5. QED
  BY <1>1, <1>3, <1>4 DEF IInv

(* The inductive invariant holds in every reachable state.                 *)
THEOREM Invariant == Spec => []IInv
BY InitInvariant, Inductive, PTL DEF Spec

(* The variables of an execution have their types: attempts, results and   *)
(* run files are absent, torn or whole, and every process is at one of the *)
(* steps of execute, with an effect exactly while it is under way.         *)
THEOREM TypeCorrect == Spec => []TypeOK
<1>1. IInv => TypeOK
  BY DEF IInv
<1>2. QED
  BY <1>1, Invariant, PTL

(* However many processes run an invocation and wherever they die, the     *)
(* command of a logical effect is started at most once.                    *)
THEOREM LaunchedOnce == Spec => []AtMostOneLaunch
<1>1. ASSUME IInv, NEW e \in Effects PROVE launches[e] <= 1
  <2>1. launches[e] \in {0, Started(e)}
    BY <1>1 DEF IInv, EffectInv, FilesInv
  <2>2. Started(e) = 0 \/ Started(e) = 1
    BY DEF Started
  <2>3. QED
    BY <2>1, <2>2
<1>2. IInv => AtMostOneLaunch
  BY <1>1 DEF AtMostOneLaunch
<1>3. QED
  BY <1>2, Invariant, PTL

(* A committed outcome has the files it cites, a completion names a        *)
(* committed outcome, and a command has a retained run.                    *)
THEOREM EvidenceIsComplete == Spec => []EvidenceComplete
<1>1. ASSUME IInv, NEW e \in Effects
      PROVE  /\ results[e] # Absent =>
                  \A f \in {"run", "command", "assessment"} : carrier[e][f] = "whole"
             /\ carrier[e]["completed"] # "absent" => Committed(e)
             /\ launches[e] > 0 => carrier[e]["run"] = "whole"
  <2>1. FilesInv(e)
    BY <1>1 DEF IInv, EffectInv
  <2>2. QED
    BY <2>1 DEF FilesInv, Exactly, Carriers, Committed
<1>2. IInv => EvidenceComplete
  BY <1>1 DEF EvidenceComplete
<1>3. QED
  BY <1>2, Invariant, PTL

(* A repeat is admitted only after the execution it repeats was committed  *)
(* and completed.                                                          *)
THEOREM RepeatsAreOrdered == Spec => []RepeatAfterTerminal
<1>1. IInv => RepeatAfterTerminal
  BY DEF IInv, EffectInv, RepeatsTerminal, RepeatAfterTerminal
<1>2. QED
  BY <1>1, Invariant, PTL

-----------------------------------------------------------------------------
(* An abandoned execution: nobody past its admission works on it.          *)

Bystander(p, e) == work[p] # e \/ pc[p] \in {"examine", "admit"}

(* What any step does to an abandoned effect and to the processes near it. *)
LEMMA AbandonedStep ==
  ASSUME IInv, [Next]_vars, NEW e \in Effects, Abandoned(e)
  PROVE  SameEffect(e) /\ \A q \in Procs : Bystander(q, e)'
<1>t. TypeOK /\ TypeOK'
  BY TypeInvariant DEF IInv
<1>a. /\ attempts[e] # Absent /\ ~Terminal(e)
      /\ \A q \in Procs : Bystander(q, e)
  BY DEF Abandoned, Bystander
<1>1. CASE UNCHANGED files /\ UNCHANGED procs /\ UNCHANGED launches /\ UNCHANGED replies
  BY <1>1, <1>a DEF files, storeVars, procs, SameEffect, Bystander
<1>2. ASSUME NEW p \in Procs, Leave(p) PROVE \A q \in Procs : Bystander(q, e)'
  <2>1. work'[p] = None /\ \A q \in Procs \ {p} : SameProc(q)
    BY <1>2, <1>t, LeaveProc DEF TypeOK, ProcsTypeOK
  <2>2. QED
    BY <2>1, <1>a DEF SameProc, Bystander
<1>3. ASSUME NEW p \in Procs, Fail(p) PROVE SameEffect(e) /\ \A q \in Procs : Bystander(q, e)'
  BY <1>2, <1>3 DEF Fail, files, storeVars, SameEffect
<1>4. ASSUME NEW p \in Procs, NEW x \in Effects, Enter(p, x)
      PROVE  SameEffect(e) /\ \A q \in Procs : Bystander(q, e)'
  BY <1>4, <1>a, <1>t DEF Enter, Goto, Bystander, files, storeVars, SameEffect, TypeOK,
     ProcsTypeOK
<1>5. ASSUME NEW p \in Procs, ~Fail(p), Proceed(p)
      PROVE  SameEffect(e) /\ \A q \in Procs : Bystander(q, e)'
  <2>1. CASE Examine(p)
    BY <1>5, <2>1, <1>a, <1>t DEF Examine, Goto, Bystander, files, storeVars, SameEffect,
       TypeOK, ProcsTypeOK
  <2>2. CASE AdmitNew(p)
    <3>1. work[p] # e /\ Admit(work[p])
      BY <1>5, <1>a, <2>2 DEF AdmitNew, Admit, CanAdmit
    <3>2. QED
      BY <1>5, <2>2, <3>1, <1>a, <1>t DEF AdmitNew, Admit, Goto, Bystander, SameEffect,
         TypeOK, ProcsTypeOK, FilesTypeOK, StoreTypeOK
  <2>3. CASE Replay(p)
    <3>1. /\ Committed(work[p]) /\ Leave(p) /\ pc[p] = "admit" /\ old[p] = "completed"
          /\ replies' = replies \cup {<<work[p], results[work[p]]>>}
          /\ UNCHANGED <<files, launches>>
      BY <1>5, <2>3 DEF Replay, At
    <3>2. work[p] # e
      BY <3>1, <1>a DEF IInv, ProcInv, Terminal
    <3>3. QED
      BY <3>1, <3>2, <1>2 DEF files, storeVars, SameEffect
  <2>4. CASE Uncertain(p)
    BY <1>5, <2>4 DEF Uncertain
  <2>5. CASE pc[p] \in OwnerPCs
    <3>1. work[p] # e /\ work[p] \in Effects
      BY <1>a, <1>t, <2>5 DEF Bystander, OwnerPCs, TypeOK, ProcsTypeOK
    <3>2. SameEffect(e)
      <4>1. attempts'[e] = attempts[e] /\ results'[e] = results[e]
        BY <1>5, <1>t, <2>5, <3>1 DEF Proceed, Examine, AdmitNew, Replay, Uncertain, Fail,
           Retain, Revalidate, Recheck, Launch, Finish, Assess, Compare, CommitOutcome, Commit,
           Complete, At, OwnerPCs, files, storeVars, TypeOK, FilesTypeOK, StoreTypeOK
      <4>2. carrier'[e] = carrier[e] /\ launches'[e] = launches[e]
        BY <1>5, <1>t, <2>5, <3>1 DEF Proceed, Examine, AdmitNew, Replay, Uncertain, Fail,
           Retain, Revalidate, Recheck, Launch, Finish, Assess, Compare, CommitOutcome, Create,
           Complete, At, OwnerPCs, files, TypeOK, FilesTypeOK
      <4>3. \A o \in Outcomes : <<e, o>> \in replies' <=> <<e, o>> \in replies
        BY <1>5, <1>t, <2>5, <3>1 DEF Proceed, Examine, AdmitNew, Replay, Uncertain, Fail,
           Retain, Revalidate, Recheck, Launch, Finish, Assess, Compare, CommitOutcome,
           Complete, At, OwnerPCs
      <4>4. QED
        BY <4>1, <4>2, <4>3 DEF SameEffect
    <3>3. CASE Leave(p)
      BY <3>2, <3>3, <1>2
    <3>4. CASE ~Leave(p)
      <4>1. work' = work /\ \A q \in Procs \ {p} : pc'[q] = pc[q]
        BY <1>5, <1>t, <2>5, <3>4 DEF Proceed, Examine, AdmitNew, Replay, Uncertain, Fail,
           Retain, Revalidate, Recheck, Launch, Finish, Assess, Compare, CommitOutcome,
           Complete, At, Goto, OwnerPCs, TypeOK, ProcsTypeOK
      <4>2. QED
        BY <3>1, <3>2, <4>1, <1>a DEF Bystander
    <3>5. QED
      BY <3>3, <3>4
  <2>6. QED
    BY <1>5, <2>1, <2>2, <2>3, <2>4, <2>5 DEF Proceed, Retain, Revalidate, Recheck, Launch,
       Finish, Assess, Compare, CommitOutcome, Complete, At, OwnerPCs
<1>6. ASSUME NEW p \in Procs, ~Fail(p), Die(p)
      PROVE  SameEffect(e) /\ \A q \in Procs : Bystander(q, e)'
  <2>1. Leave(p)
    BY <1>6 DEF Die, Crash, CrashCreating, CrashInStore
  <2>2. CASE CrashCreating(p)
    <3>1. pc[p] \in OwnerPCs
      BY <2>2 DEF CrashCreating, Writing, Carriers, OwnerPCs
    <3>2. work[p] # e /\ work[p] \in Effects
      BY <3>1, <1>a, <1>t DEF Bystander, OwnerPCs, TypeOK, ProcsTypeOK
    <3>3. SameEffect(e)
      BY <2>2, <3>2, <1>t DEF CrashCreating, SameEffect, storeVars, TypeOK, FilesTypeOK
    <3>4. QED
      BY <2>1, <3>3, <1>2
  <2>3. CASE CrashInStore(p)
    <3>1. work[p] # e
      BY <2>3, <1>a DEF CrashInStore, TearAttempt, CanAdmit, Bystander, At
    <3>2. SameEffect(e)
      BY <2>3, <3>1, <1>t DEF CrashInStore, TearAttempt, TearResult, SameEffect, TypeOK,
         FilesTypeOK, StoreTypeOK
    <3>3. QED
      BY <2>1, <3>2, <1>2
  <2>4. QED
    BY <1>6, <2>2, <2>3 DEF Die, Crash
<1>7. QED
  BY <1>1, <1>3, <1>4, <1>5, <1>6 DEF Next, World, vars

(* An execution nobody finished is never taken up again by a later         *)
(* process: no launch, no outcome and no answer comes of it.               *)
THEOREM AbandonedIsFinal == Spec => AbandonedStaysAbandoned
<1>1. ASSUME IInv, [Next]_vars, NEW e \in Effects, Abandoned(e)
      PROVE  /\ Abandoned(e)'
             /\ launches'[e] = launches[e]
             /\ results'[e] = results[e]
             /\ \A o \in Outcomes : <<e, o>> \in replies' => <<e, o>> \in replies
  <2>1. SameEffect(e) /\ \A q \in Procs : Bystander(q, e)'
    BY <1>1, AbandonedStep
  <2>2. QED
    BY <1>1, <2>1 DEF SameEffect, Abandoned, Bystander, Terminal, Completed, Committed
<1>2. IInv /\ [Next]_vars =>
         [\A e \in Effects : Abandoned(e) =>
            /\ Abandoned(e)'
            /\ launches'[e] = launches[e]
            /\ results'[e] = results[e]
            /\ \A o \in Outcomes : <<e, o>> \in replies' => <<e, o>> \in replies]_vars
  BY <1>1
<1>3. QED
  BY <1>2, Invariant, PTL DEF Spec, AbandonedStaysAbandoned

-----------------------------------------------------------------------------
(* The execution implements the promise of the attempt store.              *)

Begun == {e \in Effects : attempts[e] # Absent}
Performed == {e \in Effects : launches[e] > 0}
Settled == {<<e, results[e]>> : e \in {x \in Effects : results[x] \in Outcomes}}

(* Nothing the abstract store sees has changed.                            *)
LEMMA Stutter ==
  ASSUME UNCHANGED Begun, UNCHANGED Performed, UNCHANGED Settled, UNCHANGED replies
  PROVE  [Once!OnceNext]_Once!onceVars
BY DEF Once!onceVars, Begun, Performed, Settled

(* The first files an effect gets begin it.                                *)
LEMMA BeginStep ==
  ASSUME TypeOK, NEW e \in Effects, attempts[e] = Absent, NEW v \in {Torn, Admitted},
         attempts' = [attempts EXCEPT ![e] = v],
         UNCHANGED results, UNCHANGED launches, UNCHANGED replies
  PROVE  [Once!OnceNext]_Once!onceVars
<1>1. Begun' = Begun \cup {e} /\ e \notin Begun
  BY DEF Begun, TypeOK, FilesTypeOK, StoreTypeOK
<1>2. UNCHANGED Performed /\ UNCHANGED Settled
  BY DEF Performed, Settled
<1>3. Once!Begin(e)
  BY <1>1, <1>2 DEF Once!Begin, Begun, Performed, Settled
<1>4. QED
  BY <1>3 DEF Once!OnceNext

(* A reply that is the committed outcome is an answer.                     *)
LEMMA AnswerStep ==
  ASSUME NEW e \in Effects, results[e] \in Outcomes,
         replies' = replies \cup {<<e, results[e]>>},
         UNCHANGED storeVars, UNCHANGED launches
  PROVE  [Once!OnceNext]_Once!onceVars
<1>1. <<e, results[e]>> \in Settled
  BY DEF Settled
<1>2. UNCHANGED Begun /\ UNCHANGED Performed /\ UNCHANGED Settled
  BY DEF Begun, Performed, Settled, storeVars
<1>3. Once!Answer(e, results[e])
  BY <1>1, <1>2 DEF Once!Answer, Begun, Performed, Settled
<1>4. QED
  BY <1>3 DEF Once!OnceNext

(* The start of a command performs an effect that is begun, not performed  *)
(* and not settled.                                                        *)
LEMMA PerformStep ==
  ASSUME TypeOK, NEW e \in Effects \ Reported, attempts[e] = Admitted, results[e] = Absent,
         launches[e] = 0, launches' = [launches EXCEPT ![e] = 1],
         UNCHANGED storeVars, UNCHANGED replies
  PROVE  [Once!OnceNext]_Once!onceVars
<1>1. Performed' = Performed \cup {e} /\ e \in Begun \ (Performed \cup Reported)
  BY DEF Begun, Performed, TypeOK
<1>2. UNCHANGED Begun /\ UNCHANGED Settled
  BY DEF Begun, Settled, storeVars
<1>3. \A o \in Outcomes : <<e, o>> \notin Settled
  BY DEF Settled
<1>4. Once!Perform(e)
  BY <1>1, <1>2, <1>3 DEF Once!Perform, Begun, Performed, Settled
<1>5. QED
  BY <1>4 DEF Once!OnceNext

(* A commit settles an effect whose command was started, or that reports.  *)
LEMMA SettleStep ==
  ASSUME TypeOK, NEW e \in Effects, NEW o \in Outcomes, attempts[e] = Admitted,
         results[e] = Absent, launches[e] = Started(e),
         results' = [results EXCEPT ![e] = o],
         UNCHANGED attempts, UNCHANGED launches, UNCHANGED replies
  PROVE  [Once!OnceNext]_Once!onceVars
<1>1. results'[e] = o /\ \A x \in Effects \ {e} : results'[x] = results[x]
  BY DEF TypeOK, FilesTypeOK, StoreTypeOK
<1>2. Settled' = Settled \cup {<<e, o>>}
  <2>1. {x \in Effects : results'[x] \in Outcomes} = {x \in Effects : results[x] \in Outcomes} \cup {e}
    BY <1>1
  <2>2. \A x \in Effects : results[x] \in Outcomes => x # e /\ results'[x] = results[x]
    BY <1>1
  <2>3. ASSUME NEW y PROVE y \in Settled' <=> y \in Settled \/ y = <<e, o>>
    BY <1>1, <2>1, <2>2 DEF Settled
  <2>4. QED
    BY <2>3
<1>3. UNCHANGED Begun /\ UNCHANGED Performed /\ e \in Begun
  BY DEF Begun, Performed
<1>4. e \in Performed \cup Reported
  BY DEF Performed, Started
<1>5. \A x \in Outcomes : <<e, x>> \notin Settled
  BY DEF Settled
<1>6. Once!Settle(e, o)
  BY <1>2, <1>3, <1>4, <1>5 DEF Once!Settle, Begun, Performed, Settled
<1>7. QED
  BY <1>6 DEF Once!OnceNext

(* Every step of the execution is a step of the abstract store, or none.   *)
LEMMA StepImplements == IInv /\ [Next]_vars => [Once!OnceNext]_Once!onceVars
<1> SUFFICES ASSUME IInv, [Next]_vars PROVE [Once!OnceNext]_Once!onceVars
  OBVIOUS
<1>t. TypeOK
  BY DEF IInv
<1>1. CASE UNCHANGED storeVars /\ UNCHANGED launches /\ UNCHANGED replies
  BY <1>1, Stutter DEF storeVars, Begun, Performed, Settled
<1>2. ASSUME NEW p \in Procs, NEW e \in Effects, e = work[p], Proceed(p)
      PROVE  [Once!OnceNext]_Once!onceVars
  <2> USE <1>2
  <2>0. CASE Fail(p)
    BY <2>0, <1>1 DEF Fail, files, storeVars
  <2>1. CASE AdmitNew(p) /\ ~Fail(p)
    BY <1>t, <2>1, BeginStep DEF AdmitNew, Admit, CanAdmit
  <2>2. CASE Replay(p) /\ ~Fail(p)
    BY <2>2, AnswerStep DEF Replay, Committed, files, storeVars
  <2>3. CASE Launch(p)
    <3>1. InStep(p) /\ pc[p] = "launch"
      BY <2>3, OwnerFacts DEF Launch, At, OwnerPCs
    <3>2. /\ launches[e] = 0 /\ attempts[e] = Admitted /\ results[e] = Absent
          /\ launches' = [launches EXCEPT ![e] = Started(e)]
          /\ UNCHANGED storeVars /\ UNCHANGED replies
      BY <1>t, <2>3, <3>1 DEF Launch, InStep, files, storeVars, Started, TypeOK
    <3>3. CASE e \in Reported
      BY <1>t, <1>1, <3>2, <3>3 DEF Started, TypeOK
    <3>4. CASE e \notin Reported
      BY <1>t, <3>2, <3>4, PerformStep DEF Started
    <3>5. QED
      BY <3>3, <3>4
  <2>4. CASE CommitOutcome(p) /\ ~Fail(p)
    <3>1. pc[p] = "commit" /\ InStep(p) /\ note[p] \in Outcomes
      BY <2>4, OwnerFacts DEF CommitOutcome, At, OwnerPCs
    <3>2. attempts[e] = Admitted /\ results[e] = Absent /\ launches[e] = Started(e)
      BY <3>1 DEF InStep
    <3>3. QED
      BY <1>t, <2>4, <3>1, <3>2, SettleStep DEF CommitOutcome, Commit
  <2>5. CASE Complete(p) /\ ~Fail(p)
    <3>1. pc[p] = "complete" /\ InStep(p) /\ note[p] \in Outcomes
      BY <2>5, OwnerFacts DEF Complete, At, OwnerPCs
    <3>2. results[e] = note[p]
      BY <3>1 DEF InStep
    <3>3. QED
      BY <2>5, <3>1, <3>2, AnswerStep DEF Complete
  <2>6. QED
    BY <1>1, <2>0, <2>1, <2>2, <2>3, <2>4, <2>5 DEF Proceed, Examine, Uncertain, Retain,
       Revalidate, Recheck, Finish, Assess, Compare, files, storeVars
<1>3. ASSUME NEW p \in Procs, Proceed(p) PROVE [Once!OnceNext]_Once!onceVars
  <2>1. pc[p] # "idle"
    BY <1>3 DEF Proceed, Examine, AdmitNew, Replay, Uncertain, Retain, Revalidate, Recheck,
       Launch, Finish, Assess, Compare, CommitOutcome, Complete, At
  <2>2. QED
    BY <1>2, <1>3, <1>t, <2>1 DEF TypeOK, ProcsTypeOK
<1>4. ASSUME NEW p \in Procs, Die(p) PROVE [Once!OnceNext]_Once!onceVars
  <2>1. CASE Crash(p) \/ CrashCreating(p)
    BY <1>1, <2>1 DEF Crash, CrashCreating, Fail, files, storeVars
  <2>2. CASE At(p, "admit") /\ TearAttempt(work[p]) /\ CrashInStore(p)
    <3>1. work[p] \in Effects
      BY <1>t, <2>2 DEF At, TypeOK, ProcsTypeOK
    <3>2. QED
      BY <1>t, <2>2, <3>1, BeginStep DEF TearAttempt, CanAdmit, CrashInStore
  <2>3. CASE At(p, "commit") /\ TearResult(work[p]) /\ CrashInStore(p)
    <3>1. PICK e \in Effects : e = work[p]
      BY <1>t, <2>3 DEF At, TypeOK, ProcsTypeOK
    <3>2. results[e] = Absent /\ results' = [results EXCEPT ![e] = Torn] /\ attempts' = attempts
      BY <2>3, <3>1 DEF TearResult, CanCommit
    <3>3. \A x \in Effects : results'[x] \in Outcomes \/ results[x] \in Outcomes =>
                               results'[x] = results[x]
      BY <1>t, <3>2 DEF TypeOK, FilesTypeOK, StoreTypeOK
    <3>4. ASSUME NEW y PROVE y \in Settled' <=> y \in Settled
      BY <3>3 DEF Settled
    <3>5. UNCHANGED Begun /\ UNCHANGED Performed /\ UNCHANGED Settled /\ UNCHANGED replies
      BY <2>3, <3>2, <3>4 DEF Begun, Performed, CrashInStore
    <3>6. QED
      BY <3>5, Stutter
  <2>4. QED
    BY <1>4, <2>1, <2>2, <2>3 DEF Die, CrashInStore
<1>5. ASSUME NEW p \in Procs, NEW e \in Effects, Enter(p, e)
      PROVE  [Once!OnceNext]_Once!onceVars
  BY <1>1, <1>5 DEF Enter, files, storeVars
<1>6. CASE World \/ UNCHANGED vars
  BY <1>1, <1>6 DEF World, vars, files, storeVars
<1>7. QED
  BY <1>3, <1>4, <1>5, <1>6 DEF Next

(* The execution implements the store's promise: an effect is begun once,  *)
(* performed at most once and before its one outcome, and every reply,     *)
(* replays included, is that outcome.                                      *)
THEOREM Implements == Spec => ImplementsEffectOnce
<1>1. Init => Once!OnceInit
  BY DEF Init, StoreInit, Once!OnceInit
<1>2. QED
  BY <1>1, StepImplements, Invariant, PTL DEF Spec, ImplementsEffectOnce, Once!OnceSpec
=============================================================================
