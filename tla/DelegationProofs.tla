-------------------------- MODULE DelegationProofs --------------------------
(***************************************************************************)
(* Proofs about PatchIntegration and the dispatches it extends, for any    *)
(* processes, dispatches, files and bounds.  DispatchInv and ProcInv say   *)
(* how far the files of a dispatch have come and what the one process that *)
(* owns it relies on; the integrations are proved on top of them.          *)
(***************************************************************************)
EXTENDS PatchIntegration, TLAPS

USE StoreAssumption, DelegationAssumption, PatchAssumption, IntegrationAssumption

Owned == {"retain", "revalidate", "launch", "working", "terminal", "commit"}

DispatchSteps == Owned \cup {"examine", "recover", "recommit", "admit", "complete", "replay"}

IntegrationSteps ==
    {"p-lock", "p-admit", "p-mark", "p-next", "p-compare", "p-rename", "p-commit", "p-answer"}

Worked == {"returned", "censored"}

(* A process is idle, at a dispatch or at an integration.                  *)
ProcTypeOK ==
    /\ pc \in [Procs -> {"idle"} \cup DispatchSteps \cup IntegrationSteps]
    /\ job \in [Procs -> Dispatches \cup Integrations \cup {None}]
    /\ note \in [Procs -> Worked \cup {None, "resumed", "new"}]
    /\ \A p \in Procs :
          /\ pc[p] \in DispatchSteps => job[p] \in Dispatches
          /\ pc[p] \in IntegrationSteps => job[p] \in Integrations

DispatchTypeOK ==
    /\ runs \in [Dispatches -> {Absent, Torn, Admitted}]
    /\ terminals \in [Dispatches -> Worked \cup {Absent, Torn}]
    /\ completions \in [Dispatches -> {Absent, Torn, Admitted}]
    /\ launched \in [Dispatches -> {0, 1, 2}]

TypeOK == StoreTypeOK /\ ProcTypeOK /\ DispatchTypeOK

(* The files of a dispatch come in order: attempt, run, terminal, result,  *)
(* completion; the worker is started between run and terminal; and the     *)
(* result is what the terminal announced.                                  *)
DispatchInv(d) ==
    /\ attempts[d] # Admitted => runs[d] = Absent
    /\ runs[d] # Admitted => launched[d] = 0
    /\ launched[d] # 2
    /\ launched[d] = 0 => terminals[d] = Absent
    /\ terminals[d] \in {Absent, Torn} => results[d] = Absent
    /\ results[d] \in {Absent, Torn, terminals[d]}
    /\ results[d] \notin Outcomes => completions[d] = Absent

(* What a process at a dispatch relies on.                                 *)
ProcInv(p) ==
    LET d == job[p] IN
    /\ pc[p] \in Owned => attempts[d] = Admitted
    /\ pc[p] = "retain" => runs[d] = Absent
    /\ pc[p] \in {"revalidate", "launch"} => runs[d] = Admitted /\ launched[d] = 0
    /\ pc[p] = "launch" => (Prior[d] # None => results[Prior[d]] \in Outcomes)
    /\ pc[p] \in {"working", "terminal"} => launched[d] = 1 /\ terminals[d] = Absent
    /\ pc[p] = "terminal" => note[p] \in Worked
    /\ pc[p] = "commit" => note[p] \in Worked /\ terminals[d] = note[p]
    /\ pc[p] \in {"recover", "recommit"} => terminals[d] \in Worked

OneOwner ==
    \A p, q \in Procs : pc[p] \in Owned /\ pc[q] \in Owned /\ job[p] = job[q] => p = q

DInv ==
    /\ TypeOK
    /\ \A d \in Dispatches : DispatchInv(d)
    /\ \A p \in Procs : ProcInv(p)
    /\ OneOwner

-----------------------------------------------------------------------------
LEMMA InitDInv == Init => DInv
<1> SUFFICES ASSUME Init PROVE DInv
  OBVIOUS
<1>1. TypeOK
  BY DEF Init, DelegationInit, StoreInit, TypeOK, StoreTypeOK, ProcTypeOK, DispatchTypeOK,
         DispatchSteps, IntegrationSteps, Owned
<1>2. \A d \in Dispatches : DispatchInv(d)
  BY DEF Init, DelegationInit, StoreInit, DispatchInv
<1>3. (\A p \in Procs : ProcInv(p)) /\ OneOwner
  BY DEF Init, DelegationInit, ProcInv, OneOwner, Owned
<1>4. QED
  BY <1>1, <1>2, <1>3 DEF DInv

-----------------------------------------------------------------------------
(* Steps of a dispatch.                                                    *)
LEMMA DispatchStepInv ==
  ASSUME DInv, NEW p \in Procs, DispatchStep(p)
  PROVE  DInv'
<1> USE DEF DInv
<1> DEFINE d == job[p]
<1>1. ASSUME NEW e \in Dispatches, EnterDispatch(p, e) PROVE DInv'
  <2>1. TypeOK'
    BY <1>1 DEF EnterDispatch, At, runVars, historyVars, TypeOK, StoreTypeOK, ProcTypeOK, DispatchTypeOK, DispatchSteps, IntegrationSteps, Owned
  <2>2. \A x \in Dispatches : DispatchInv(x)'
    BY <1>1 DEF EnterDispatch, At, runVars, historyVars, DispatchInv
  <2>3. \A q \in Procs : ProcInv(q)'
    BY <1>1 DEF EnterDispatch, At, runVars, historyVars, ProcInv, Owned, TypeOK, ProcTypeOK, DispatchSteps
  <2>4. OneOwner'
    BY <1>1 DEF EnterDispatch, At, OneOwner, Owned, TypeOK, ProcTypeOK, DispatchSteps
  <2>5. QED
    BY <2>1, <2>2, <2>3, <2>4
<1>2. CASE Examine(p)
  <2>1. TypeOK'
    BY <1>2 DEF Examine, Found, RunLegible, CanPrepare, Go, At, runVars, historyVars, TypeOK, StoreTypeOK, ProcTypeOK, DispatchTypeOK, DispatchSteps, IntegrationSteps, Owned
  <2>2. \A x \in Dispatches : DispatchInv(x)'
    BY <1>2 DEF Examine, Found, RunLegible, CanPrepare, Go, At, runVars, historyVars, DispatchInv
  <2>3. \A q \in Procs : ProcInv(q)'
    BY <1>2 DEF Examine, Found, RunLegible, CanPrepare, Go, At, runVars, historyVars, StoreTypeOK, DispatchTypeOK, DispatchInv, ProcInv, Owned, TypeOK, ProcTypeOK, DispatchSteps
  <2>4. OneOwner'
    BY <1>2 DEF Examine, Found, RunLegible, CanPrepare, Go, At, OneOwner, Owned, TypeOK, ProcTypeOK, DispatchSteps
  <2>5. QED
    BY <2>1, <2>2, <2>3, <2>4
<1>3. CASE Recover(p)
  <2>1. TypeOK'
    BY <1>3 DEF Recover, Go, At, runVars, historyVars, TypeOK, StoreTypeOK, ProcTypeOK, DispatchTypeOK, DispatchSteps, IntegrationSteps, Owned
  <2>2. \A x \in Dispatches : DispatchInv(x)'
    BY <1>3 DEF Recover, Go, At, runVars, historyVars, DispatchInv
  <2>3. \A q \in Procs : ProcInv(q)'
    BY <1>3 DEF Recover, Go, At, runVars, historyVars, ProcInv, Owned, TypeOK, ProcTypeOK, DispatchSteps
  <2>4. OneOwner'
    BY <1>3 DEF Recover, Go, At, OneOwner, Owned, TypeOK, ProcTypeOK, DispatchSteps
  <2>5. QED
    BY <2>1, <2>2, <2>3, <2>4
<1>4. CASE Recommit(p)
  <2>1. TypeOK'
    BY <1>4 DEF Recommit, Commit, CanCommit, Go, At, runVars, historyVars, Worked, TypeOK, StoreTypeOK, ProcTypeOK, DispatchTypeOK, DispatchSteps, IntegrationSteps, Owned
  <2>2. \A x \in Dispatches : DispatchInv(x)'
    BY <1>4 DEF Recommit, Commit, CanCommit, Go, At, runVars, historyVars, Worked, TypeOK, StoreTypeOK, DispatchTypeOK, ProcTypeOK, DispatchSteps, Owned, ProcInv, DispatchInv
  <2>3. \A q \in Procs : ProcInv(q)'
    BY <1>4 DEF Recommit, Commit, CanCommit, Go, At, runVars, historyVars, StoreTypeOK, DispatchTypeOK, DispatchInv, Worked, ProcInv, Owned, TypeOK, ProcTypeOK, DispatchSteps
  <2>4. OneOwner'
    BY <1>4 DEF Recommit, Commit, CanCommit, Go, At, OneOwner, Owned, TypeOK, ProcTypeOK, DispatchSteps
  <2>5. QED
    BY <2>1, <2>2, <2>3, <2>4
<1>5. CASE AdmitNew(p)
  <2>1. TypeOK'
    BY <1>5 DEF AdmitNew, Admit, CanAdmit, Go, At, runVars, historyVars, TypeOK, StoreTypeOK, ProcTypeOK, DispatchTypeOK, DispatchSteps, IntegrationSteps, Owned
  <2>2. \A x \in Dispatches : DispatchInv(x)'
    BY <1>5 DEF AdmitNew, Admit, CanAdmit, Go, At, runVars, historyVars, TypeOK, StoreTypeOK, DispatchTypeOK, ProcTypeOK, DispatchSteps, Owned, ProcInv, DispatchInv
  <2>3. \A q \in Procs : ProcInv(q)'
    BY <1>5 DEF AdmitNew, Admit, CanAdmit, Go, At, runVars, historyVars, StoreTypeOK, ProcInv, Owned, TypeOK, ProcTypeOK, DispatchSteps
  <2>4. OneOwner'
    BY <1>5 DEF AdmitNew, Admit, CanAdmit, Go, At, ProcInv, OneOwner, Owned, TypeOK, ProcTypeOK, DispatchSteps
  <2>5. QED
    BY <2>1, <2>2, <2>3, <2>4
<1>6. CASE Retain(p)
  <2>1. TypeOK'
    BY <1>6 DEF Retain, Go, At, runVars, historyVars, TypeOK, StoreTypeOK, ProcTypeOK, DispatchTypeOK, DispatchSteps, IntegrationSteps, Owned
  <2>2. \A x \in Dispatches : DispatchInv(x)'
    BY <1>6 DEF Retain, Go, At, runVars, historyVars, TypeOK, StoreTypeOK, DispatchTypeOK, ProcTypeOK, DispatchSteps, Owned, ProcInv, DispatchInv
  <2>3. \A q \in Procs : ProcInv(q)'
    BY <1>6 DEF Retain, Go, At, runVars, historyVars, DispatchInv, OneOwner, DispatchTypeOK, ProcInv, Owned, TypeOK, ProcTypeOK, DispatchSteps
  <2>4. OneOwner'
    BY <1>6 DEF Retain, Go, At, OneOwner, Owned, TypeOK, ProcTypeOK, DispatchSteps
  <2>5. QED
    BY <2>1, <2>2, <2>3, <2>4
<1>7. CASE Revalidate(p)
  <2>1. TypeOK'
    BY <1>7 DEF Revalidate, Dispatchable, OriginalSettled, Committed, Go, At, runVars, historyVars, TypeOK, StoreTypeOK, ProcTypeOK, DispatchTypeOK, DispatchSteps, IntegrationSteps, Owned
  <2>2. \A x \in Dispatches : DispatchInv(x)'
    BY <1>7 DEF Revalidate, Dispatchable, OriginalSettled, Committed, Go, At, runVars, historyVars, DispatchInv
  <2>3. \A q \in Procs : ProcInv(q)'
    BY <1>7 DEF Revalidate, Dispatchable, OriginalSettled, Committed, Go, At, runVars, historyVars, ProcInv, Owned, TypeOK, ProcTypeOK, DispatchSteps
  <2>4. OneOwner'
    BY <1>7 DEF Revalidate, Dispatchable, OriginalSettled, Committed, Go, At, OneOwner, Owned, TypeOK, ProcTypeOK, DispatchSteps
  <2>5. QED
    BY <2>1, <2>2, <2>3, <2>4
<1>8. CASE Launch(p)
  <2>1. TypeOK'
    BY <1>8 DEF Launch, Go, At, runVars, historyVars, TypeOK, StoreTypeOK, ProcTypeOK, DispatchTypeOK, DispatchSteps, IntegrationSteps, Owned
  <2>2. \A x \in Dispatches : DispatchInv(x)'
    BY <1>8 DEF Launch, Go, At, runVars, historyVars, TypeOK, StoreTypeOK, DispatchTypeOK, ProcTypeOK, DispatchSteps, Owned, ProcInv, DispatchInv
  <2>3. \A q \in Procs : ProcInv(q)'
    BY <1>8 DEF Launch, Go, At, runVars, historyVars, DispatchInv, OneOwner, DispatchTypeOK, ProcInv, Owned, TypeOK, ProcTypeOK, DispatchSteps
  <2>4. OneOwner'
    BY <1>8 DEF Launch, Go, At, OneOwner, Owned, TypeOK, ProcTypeOK, DispatchSteps
  <2>5. QED
    BY <2>1, <2>2, <2>3, <2>4
<1>9. ASSUME NEW o \in Worked, Return(p, o) PROVE DInv'
  <2>1. TypeOK'
    BY <1>9 DEF Return, Go, At, runVars, historyVars, TypeOK, StoreTypeOK, ProcTypeOK, DispatchTypeOK, DispatchSteps, IntegrationSteps, Owned
  <2>2. \A x \in Dispatches : DispatchInv(x)'
    BY <1>9 DEF Return, Go, At, runVars, historyVars, DispatchInv
  <2>3. \A q \in Procs : ProcInv(q)'
    BY <1>9 DEF Return, Go, At, runVars, historyVars, ProcInv, Owned, TypeOK, ProcTypeOK, DispatchSteps
  <2>4. OneOwner'
    BY <1>9 DEF Return, Go, At, OneOwner, Owned, TypeOK, ProcTypeOK, DispatchSteps
  <2>5. QED
    BY <2>1, <2>2, <2>3, <2>4
<1>10. CASE WriteTerminal(p)
  <2>1. TypeOK'
    BY <1>10 DEF WriteTerminal, Go, At, runVars, historyVars, ProcInv, TypeOK, StoreTypeOK, ProcTypeOK, DispatchTypeOK, DispatchSteps, IntegrationSteps, Owned
  <2>2. \A x \in Dispatches : DispatchInv(x)'
    BY <1>10 DEF WriteTerminal, Go, At, runVars, historyVars, Worked, TypeOK, StoreTypeOK, DispatchTypeOK, ProcTypeOK, DispatchSteps, Owned, ProcInv, DispatchInv
  <2>3. \A q \in Procs : ProcInv(q)'
    BY <1>10 DEF WriteTerminal, Go, At, runVars, historyVars, DispatchInv, OneOwner, DispatchTypeOK, Worked, ProcInv, Owned, TypeOK, ProcTypeOK, DispatchSteps
  <2>4. OneOwner'
    BY <1>10 DEF WriteTerminal, Go, At, OneOwner, Owned, TypeOK, ProcTypeOK, DispatchSteps
  <2>5. QED
    BY <2>1, <2>2, <2>3, <2>4
<1>11. CASE CommitReturn(p)
  <2>1. TypeOK'
    BY <1>11 DEF CommitReturn, Commit, CanCommit, Go, At, runVars, historyVars, ProcInv, Worked, TypeOK, StoreTypeOK, ProcTypeOK, DispatchTypeOK, DispatchSteps, IntegrationSteps, Owned
  <2>2. \A x \in Dispatches : DispatchInv(x)'
    BY <1>11 DEF CommitReturn, Commit, CanCommit, Go, At, runVars, historyVars, Worked, TypeOK, StoreTypeOK, DispatchTypeOK, ProcTypeOK, DispatchSteps, Owned, ProcInv, DispatchInv
  <2>3. \A q \in Procs : ProcInv(q)'
    BY <1>11 DEF CommitReturn, Commit, CanCommit, Go, At, runVars, historyVars, StoreTypeOK, DispatchTypeOK, DispatchInv, Worked, ProcInv, Owned, TypeOK, ProcTypeOK, DispatchSteps
  <2>4. OneOwner'
    BY <1>11 DEF CommitReturn, Commit, CanCommit, Go, At, OneOwner, Owned, TypeOK, ProcTypeOK, DispatchSteps
  <2>5. QED
    BY <2>1, <2>2, <2>3, <2>4
<1>12. CASE Complete(p)
  <2>1. TypeOK'
    BY <1>12 DEF Complete, Committed, Go, At, runVars, historyVars, TypeOK, StoreTypeOK, ProcTypeOK, DispatchTypeOK, DispatchSteps, IntegrationSteps, Owned
  <2>2. \A x \in Dispatches : DispatchInv(x)'
    BY <1>12 DEF Complete, Committed, Go, At, runVars, historyVars, TypeOK, StoreTypeOK, DispatchTypeOK, ProcTypeOK, DispatchSteps, Owned, ProcInv, DispatchInv
  <2>3. \A q \in Procs : ProcInv(q)'
    BY <1>12 DEF Complete, Committed, Go, At, runVars, historyVars, DispatchTypeOK, ProcInv, Owned, TypeOK, ProcTypeOK, DispatchSteps
  <2>4. OneOwner'
    BY <1>12 DEF Complete, Committed, Go, At, OneOwner, Owned, TypeOK, ProcTypeOK, DispatchSteps
  <2>5. QED
    BY <2>1, <2>2, <2>3, <2>4
<1>13. CASE Replay(p)
  <2>1. TypeOK'
    BY <1>13 DEF Replay, Stop, Answer, At, runVars, historyVars, TypeOK, StoreTypeOK, ProcTypeOK, DispatchTypeOK, DispatchSteps, IntegrationSteps, Owned
  <2>2. \A x \in Dispatches : DispatchInv(x)'
    BY <1>13 DEF Replay, Stop, Answer, At, runVars, historyVars, DispatchInv
  <2>3. \A q \in Procs : ProcInv(q)'
    BY <1>13 DEF Replay, Stop, Answer, At, runVars, historyVars, ProcInv, Owned, TypeOK, ProcTypeOK, DispatchSteps
  <2>4. OneOwner'
    BY <1>13 DEF Replay, Stop, Answer, At, OneOwner, Owned, TypeOK, ProcTypeOK, DispatchSteps
  <2>5. QED
    BY <2>1, <2>2, <2>3, <2>4
<1>14. CASE RefuseDispatch(p)
  <2>1. TypeOK'
    BY <1>14 DEF RefuseDispatch, Stop, runVars, historyVars, TypeOK, StoreTypeOK, ProcTypeOK, DispatchTypeOK, DispatchSteps, IntegrationSteps, Owned
  <2>2. \A x \in Dispatches : DispatchInv(x)'
    BY <1>14 DEF RefuseDispatch, Stop, runVars, historyVars, DispatchInv
  <2>3. \A q \in Procs : ProcInv(q)'
    BY <1>14 DEF RefuseDispatch, Stop, runVars, historyVars, ProcInv, Owned, TypeOK, ProcTypeOK, DispatchSteps
  <2>4. OneOwner'
    BY <1>14 DEF RefuseDispatch, Stop, OneOwner, Owned, TypeOK, ProcTypeOK, DispatchSteps
  <2>5. QED
    BY <2>1, <2>2, <2>3, <2>4
<1>15. QED
  BY <1>1, <1>2, <1>3, <1>4, <1>5, <1>6, <1>7, <1>8, <1>9, <1>10, <1>11, <1>12, <1>13, <1>14 DEF DispatchStep, Worked

-----------------------------------------------------------------------------
(* A process that leaves, or goes on with an integration, disturbs no      *)
(* dispatch.                                                               *)
Elsewhere(p) ==
    /\ UNCHANGED <<runVars, launched>>
    /\ \A q \in Procs \ {p} : pc'[q] = pc[q] /\ job'[q] = job[q] /\ note'[q] = note[q]
    /\ pc'[p] \notin DispatchSteps
    /\ ProcTypeOK'

LEMMA ElsewhereInv ==
  ASSUME DInv, NEW p \in Procs, Elsewhere(p), StoreTypeOK',
         \A d \in Dispatches : attempts'[d] = attempts[d] /\ results'[d] = results[d]
  PROVE  DInv'
<1> USE DEF DInv, Elsewhere
<1>1. TypeOK'
  BY DEF TypeOK, DispatchTypeOK, runVars
<1>2. \A x \in Dispatches : DispatchInv(x)'
  BY DEF DispatchInv, runVars
<1>3. \A q \in Procs : ProcInv(q)'
  BY DEF ProcInv, runVars, Owned, TypeOK, ProcTypeOK, DispatchSteps
<1>4. OneOwner'
  BY DEF OneOwner, Owned, DispatchSteps
<1>5. QED
  BY <1>1, <1>2, <1>3, <1>4

(* The effects of integrations are not those of dispatches.                *)
LEMMA OtherEffects ==
  ASSUME DInv, NEW p \in Procs, IntegrationStep(p)
  PROVE  StoreTypeOK' /\ \A d \in Dispatches : attempts'[d] = attempts[d] /\ results'[d] = results[d]
<1>1. CASE AdmitIntegration(p)
  BY <1>1 DEF AdmitIntegration, Admit, At, DInv, TypeOK, StoreTypeOK, ProcTypeOK, IntegrationSteps
<1>2. CASE CommitIntegration(p)
  BY <1>2 DEF CommitIntegration, Commit, At, DInv, TypeOK, StoreTypeOK, ProcTypeOK, IntegrationSteps
<1>3. CASE ~AdmitIntegration(p) /\ ~CommitIntegration(p)
  <2>1. UNCHANGED <<attempts, results>>
    BY <1>3 DEF IntegrationStep, EnterIntegration, Lock, Mark, Skip, Stage, Compare, Rename,
       Verify, AnswerIntegration, RefuseIntegration
  <2>2. QED
    BY <2>1 DEF DInv, TypeOK, StoreTypeOK
<1>4. QED
  BY <1>1, <1>2, <1>3

LEMMA OtherEffectsTorn ==
  ASSUME DInv, NEW p \in Procs, TearIntegration(p)
  PROVE  StoreTypeOK' /\ \A d \in Dispatches : attempts'[d] = attempts[d] /\ results'[d] = results[d]
BY DEF TearIntegration, TearAttempt, TearResult, At, DInv, TypeOK, StoreTypeOK, ProcTypeOK, IntegrationSteps

LEMMA IntegrationStepDInv ==
  ASSUME DInv, NEW p \in Procs, IntegrationStep(p)
  PROVE  DInv'
<1> USE DEF dispatchRest, runVars, historyVars
<1>1. StoreTypeOK' /\ \A d \in Dispatches : attempts'[d] = attempts[d] /\ results'[d] = results[d]
  BY OtherEffects
<1>2. Elsewhere(p)
  <2> USE DEF DInv, TypeOK, ProcTypeOK, DispatchSteps, IntegrationSteps, Owned, At, Go, Stop, Leave, Elsewhere
  <2>1. ASSUME NEW i \in Integrations, EnterIntegration(p, i) PROVE Elsewhere(p)
    BY <2>1 DEF EnterIntegration
  <2>2. CASE Lock(p)
    BY <2>2 DEF Lock
  <2>3. CASE AdmitIntegration(p) \/ Mark(p)
    BY <2>3 DEF AdmitIntegration, Mark
  <2>4. ASSUME NEW f \in Files, Skip(p, f) \/ Stage(p, f) PROVE Elsewhere(p)
    BY <2>4 DEF Skip, Stage
  <2>5. CASE Compare(p) \/ Rename(p) \/ Verify(p)
    BY <2>5 DEF Compare, Rename, Verify
  <2>6. CASE CommitIntegration(p) \/ AnswerIntegration(p) \/ RefuseIntegration(p)
    BY <2>6 DEF CommitIntegration, AnswerIntegration, RefuseIntegration
  <2>7. QED
    BY <2>1, <2>2, <2>3, <2>4, <2>5, <2>6 DEF IntegrationStep
<1>3. QED
  BY <1>1, <1>2, ElsewhereInv

-----------------------------------------------------------------------------
(* Deaths.                                                                 *)
LEMMA CrashElsewhere ==
  ASSUME DInv, NEW p \in Procs, Leave(p), UNCHANGED <<runVars, launched>>
  PROVE  Elsewhere(p)
BY DEF Elsewhere, Leave, Stop, DInv, TypeOK, ProcTypeOK, DispatchSteps, IntegrationSteps, Owned

(* Inside the creation of a file of a dispatch.                            *)
LEMMA TearDispatchDInv ==
  ASSUME DInv, NEW p \in Procs, TearDispatch(p), Leave(p), UNCHANGED launched
  PROVE  DInv'
<1> USE DEF DInv
<1> DEFINE d == job[p]
<1>0. /\ \A q \in Procs : q # p => pc'[q] = pc[q] /\ job'[q] = job[q] /\ note'[q] = note[q]
      /\ pc'[p] = "idle" /\ ProcTypeOK' /\ OneOwner'
  BY DEF Leave, Stop, TypeOK, ProcTypeOK, DispatchSteps, IntegrationSteps, Owned, OneOwner
<1>1. CASE /\ At(p, "admit") /\ runs[d] = Absent /\ TearAttempt(d) /\ UNCHANGED runVars
  <2>1. TypeOK'
    BY <1>0, <1>1 DEF TearAttempt, CanAdmit, At, runVars, TypeOK, StoreTypeOK, ProcTypeOK, DispatchTypeOK, DispatchSteps, Owned
  <2>2. \A x \in Dispatches : DispatchInv(x)'
    BY <1>1 DEF TearAttempt, CanAdmit, At, runVars, Worked, TypeOK, StoreTypeOK, ProcTypeOK, DispatchTypeOK, DispatchSteps,
       Owned, ProcInv, DispatchInv
  <2>3. \A q \in Procs : ProcInv(q)'
    BY <1>0, <1>1 DEF TearAttempt, CanAdmit, At, runVars, Worked, TypeOK, StoreTypeOK, ProcTypeOK, DispatchTypeOK, DispatchSteps,
       Owned, ProcInv, DispatchInv, OneOwner
  <2>4. QED
    BY <1>0, <2>1, <2>2, <2>3
<1>2. CASE /\ At(p, "retain") /\ runs[d] = Absent /\ runs' = [runs EXCEPT ![d] = Torn]
             /\ UNCHANGED <<attempts, results, terminals, completions>>
  <2>1. TypeOK'
    BY <1>0, <1>2 DEF At, runVars, TypeOK, StoreTypeOK, ProcTypeOK, DispatchTypeOK, DispatchSteps, Owned
  <2>2. \A x \in Dispatches : DispatchInv(x)'
    BY <1>2 DEF At, runVars, Worked, TypeOK, StoreTypeOK, ProcTypeOK, DispatchTypeOK, DispatchSteps,
       Owned, ProcInv, DispatchInv
  <2>3. \A q \in Procs : ProcInv(q)'
    BY <1>0, <1>2 DEF At, runVars, Worked, TypeOK, StoreTypeOK, ProcTypeOK, DispatchTypeOK, DispatchSteps,
       Owned, ProcInv, DispatchInv, OneOwner
  <2>4. QED
    BY <1>0, <2>1, <2>2, <2>3
<1>3. CASE /\ At(p, "terminal") /\ terminals[d] = Absent /\ terminals' = [terminals EXCEPT ![d] = Torn]
             /\ UNCHANGED <<attempts, results, runs, completions>>
  <2>1. TypeOK'
    BY <1>0, <1>3 DEF At, runVars, TypeOK, StoreTypeOK, ProcTypeOK, DispatchTypeOK, DispatchSteps, Owned
  <2>2. \A x \in Dispatches : DispatchInv(x)'
    BY <1>3 DEF At, runVars, Worked, TypeOK, StoreTypeOK, ProcTypeOK, DispatchTypeOK, DispatchSteps,
       Owned, ProcInv, DispatchInv
  <2>3. \A q \in Procs : ProcInv(q)'
    BY <1>0, <1>3 DEF At, runVars, Worked, TypeOK, StoreTypeOK, ProcTypeOK, DispatchTypeOK, DispatchSteps,
       Owned, ProcInv, DispatchInv, OneOwner
  <2>4. QED
    BY <1>0, <2>1, <2>2, <2>3
<1>4. CASE /\ pc[p] \in {"commit", "recommit"} /\ TearResult(d) /\ UNCHANGED runVars
  <2>1. TypeOK'
    BY <1>0, <1>4 DEF TearResult, CanCommit, At, runVars, TypeOK, StoreTypeOK, ProcTypeOK, DispatchTypeOK, DispatchSteps, Owned
  <2>2. \A x \in Dispatches : DispatchInv(x)'
    BY <1>4 DEF TearResult, CanCommit, At, runVars, Worked, TypeOK, StoreTypeOK, ProcTypeOK, DispatchTypeOK, DispatchSteps,
       Owned, ProcInv, DispatchInv
  <2>3. \A q \in Procs : ProcInv(q)'
    BY <1>0, <1>4 DEF TearResult, CanCommit, At, runVars, Worked, TypeOK, StoreTypeOK, ProcTypeOK, DispatchTypeOK, DispatchSteps,
       Owned, ProcInv, DispatchInv, OneOwner
  <2>4. QED
    BY <1>0, <2>1, <2>2, <2>3
<1>5. CASE /\ At(p, "complete") /\ Committed(d) /\ completions[d] = Absent
             /\ completions' = [completions EXCEPT ![d] = Torn]
             /\ UNCHANGED <<attempts, results, runs, terminals>>
  <2>1. TypeOK'
    BY <1>0, <1>5 DEF Committed, At, runVars, TypeOK, StoreTypeOK, ProcTypeOK, DispatchTypeOK, DispatchSteps, Owned
  <2>2. \A x \in Dispatches : DispatchInv(x)'
    BY <1>5 DEF Committed, At, runVars, Worked, TypeOK, StoreTypeOK, ProcTypeOK, DispatchTypeOK, DispatchSteps,
       Owned, ProcInv, DispatchInv
  <2>3. \A q \in Procs : ProcInv(q)'
    BY <1>0, <1>5 DEF Committed, At, runVars, Worked, TypeOK, StoreTypeOK, ProcTypeOK, DispatchTypeOK, DispatchSteps,
       Owned, ProcInv, DispatchInv, OneOwner
  <2>4. QED
    BY <1>0, <2>1, <2>2, <2>3
<1>6. QED
  BY <1>1, <1>2, <1>3, <1>4, <1>5 DEF TearDispatch

LEMMA CrashDInv ==
  ASSUME DInv, NEW p \in Procs, Crash(p)
  PROVE  DInv'
<1>1. Leave(p) /\ UNCHANGED launched
  BY DEF Crash, historyVars
<1>2. CASE UNCHANGED <<attempts, results, runVars>>
  BY <1>1, <1>2, CrashElsewhere, ElsewhereInv DEF DInv, TypeOK, StoreTypeOK
<1>3. CASE TearDispatch(p)
  BY <1>1, <1>3, TearDispatchDInv
<1>4. CASE TearIntegration(p) /\ UNCHANGED runVars
  <2>1. StoreTypeOK' /\ \A d \in Dispatches : attempts'[d] = attempts[d] /\ results'[d] = results[d]
    BY <1>4, OtherEffectsTorn
  <2>2. QED
    BY <1>1, <1>4, <2>1, CrashElsewhere, ElsewhereInv
<1>5. QED
  BY <1>2, <1>3, <1>4 DEF Crash

LEMMA DInvStep == DInv /\ [Next]_vars => DInv'
<1> SUFFICES ASSUME DInv, [Next]_vars PROVE DInv'
  OBVIOUS
<1>1. ASSUME NEW p \in Procs, Proceed(p) PROVE DInv'
  BY <1>1, DispatchStepInv, IntegrationStepDInv DEF Proceed
<1>2. ASSUME NEW p \in Procs, Crash(p) PROVE DInv'
  BY <1>2, CrashDInv
<1>3. CASE UNCHANGED <<attempts, results, runVars, pc, job, note, launched>>
  BY <1>3 DEF DInv, TypeOK, StoreTypeOK, ProcTypeOK, DispatchTypeOK, DispatchInv, ProcInv, OneOwner, runVars
<1>4. QED
  BY <1>1, <1>2, <1>3 DEF Next, Edit, Reassign, vars, dispatchVars, historyVars

THEOREM DispatchInvariant == Spec => []DInv
BY InitDInv, DInvStep, PTL DEF Spec

(* A worker that has finished is never lost: whatever died after its       *)
(* terminal and whoever else recovers it, the next invocation recovers or  *)
(* replays it (native_delegation.rs, execute).                             *)
THEOREM WorkerIsRecoverable == Spec => []FinishedWorkerRecoverable
<1>1. DInv => FinishedWorkerRecoverable
  BY DEF DInv, TypeOK, StoreTypeOK, DispatchTypeOK, DispatchInv, FinishedWorkerRecoverable,
         Untorn, RunLegible, Found, CanPrepare
<1>2. QED
  BY <1>1, DispatchInvariant, PTL

-----------------------------------------------------------------------------
(* Workers are started in Launch, answers given in Replay, and the store   *)
(* of the dispatches is changed in five steps and two deaths.              *)
LEMMA OnlyLaunchStarts ==
  ASSUME [Next]_vars, launched' # launched
  PROVE  \E p \in Procs : Launch(p)
<1> USE DEF runVars, historyVars, dispatchRest
<1>1. ASSUME NEW p \in Procs, DispatchStep(p) PROVE Launch(p)
  BY <1>1 DEF DispatchStep, EnterDispatch, Examine, Recover, Recommit, AdmitNew, Retain,
     Revalidate, Return, WriteTerminal, CommitReturn, Complete, Replay, RefuseDispatch
<1>2. ASSUME NEW p \in Procs, IntegrationStep(p) PROVE FALSE
  BY <1>2 DEF IntegrationStep, EnterIntegration, Lock, AdmitIntegration, Mark, Skip, Stage,
     Compare, Rename, Verify, CommitIntegration, AnswerIntegration, RefuseIntegration
<1>3. QED
  BY <1>1, <1>2 DEF Next, Proceed, Crash, Edit, Reassign, vars, dispatchVars

(* "Missing or in-flight custody cannot authorise replacement": whoever    *)
(* interferes between the check and the start, a replacing worker is       *)
(* started only when the original's outcome is committed.                  *)
THEOREM ReplacementWaits == Spec => ReplacedAfterOutcome
<1>1. ASSUME DInv, [Next]_vars, NEW d \in Dispatches, launched'[d] # launched[d], Prior[d] # None
      PROVE  results[Prior[d]] \in Outcomes
  <2>1. PICK p \in Procs : Launch(p)
    BY <1>1, OnlyLaunchStarts
  <2>2. pc[p] = "launch" /\ ProcInv(p) /\ job[p] \in Dispatches
    BY <1>1, <2>1 DEF Launch, At, DInv, TypeOK, ProcTypeOK, DispatchSteps, Owned
  <2>3. d = job[p]
    BY <1>1, <2>1, <2>2 DEF Launch, DInv, TypeOK, DispatchTypeOK
  <2>4. QED
    BY <1>1, <2>2, <2>3 DEF ProcInv
<1>2. DInv /\ [Next]_vars =>
        [\A d \in Dispatches :
            launched'[d] # launched[d] /\ Prior[d] # None => results[Prior[d]] \in Outcomes]_dispatchVars
  BY <1>1
<1>3. QED
  BY <1>2, DispatchInvariant, PTL DEF Spec, ReplacedAfterOutcome

-----------------------------------------------------------------------------
(* What the abstract attempt store sees of the dispatches.                 *)
Begun == {d \in Dispatches : attempts[d] # Absent}
Performed == {d \in Dispatches : launched[d] = 1}
Settled == {<<d, results[d]>> : d \in {x \in Dispatches : results[x] \in Outcomes}}

(* Nothing of it has changed.                                              *)
LEMMA Stutter ==
  ASSUME \A d \in Dispatches : (attempts'[d] = Absent) <=> (attempts[d] = Absent),
         \A d \in Dispatches : results'[d] = results[d] \/ {results[d], results'[d]} \cap Outcomes = {},
         UNCHANGED <<launched, answered>>
  PROVE  [Dispatched!OnceNext]_Dispatched!onceVars
<1>1. UNCHANGED Begun /\ UNCHANGED Performed
  BY DEF Begun, Performed
<1>2. \A d \in Dispatches : results[d] \in Outcomes \/ results'[d] \in Outcomes => results'[d] = results[d]
  OBVIOUS
<1>3. ASSUME NEW y PROVE y \in Settled' <=> y \in Settled
  BY <1>2 DEF Settled
<1>4. UNCHANGED Settled
  BY <1>3 DEF Settled
<1>5. QED
  BY <1>1, <1>4 DEF Dispatched!onceVars, Begun, Performed, Settled

(* The first file of an effect begins it, whole or torn.                   *)
LEMMA BeginStep ==
  ASSUME TypeOK, NEW d \in Dispatches, CanAdmit(d), NEW v \in {Torn, Admitted},
         attempts' = [attempts EXCEPT ![d] = v],
         UNCHANGED <<results, launched, answered>>
  PROVE  [Dispatched!OnceNext]_Dispatched!onceVars
<1>1. Begun' = Begun \cup {d} /\ d \notin Begun
  BY DEF Begun, TypeOK, StoreTypeOK, CanAdmit
<1>2. UNCHANGED Performed /\ UNCHANGED Settled
  BY DEF Performed, Settled
<1>3. Dispatched!Begin(d)
  BY <1>1, <1>2 DEF Dispatched!Begin, Begun, Performed, Settled
<1>4. QED
  BY <1>3 DEF Dispatched!OnceNext

(* The start of a worker performs a dispatch that is begun and has neither *)
(* been performed nor settled.                                             *)
LEMMA PerformStep ==
  ASSUME DInv, NEW p \in Procs, Launch(p)
  PROVE  [Dispatched!OnceNext]_Dispatched!onceVars
<1>0. PICK d \in Dispatches : d = job[p]
  BY DEF Launch, At, DInv, TypeOK, ProcTypeOK, DispatchSteps, Owned
<1>1. /\ attempts[d] = Admitted /\ launched[d] = 0
      /\ terminals[d] = Absent /\ results[d] = Absent
  BY <1>0 DEF Launch, At, DInv, TypeOK, ProcTypeOK, DispatchSteps, Owned, ProcInv, DispatchInv
<1>2. Performed' = Performed \cup {d} /\ d \in Begun \ Performed
  BY <1>0, <1>1 DEF Launch, Begun, Performed, DInv, TypeOK, DispatchTypeOK
<1>3. UNCHANGED Begun /\ UNCHANGED Settled /\ \A o \in Outcomes : <<d, o>> \notin Settled
  BY <1>1 DEF Launch, Begun, Settled
<1>4. Dispatched!Perform(d)
  BY <1>2, <1>3 DEF Dispatched!Perform, Begun, Performed, Settled, Launch
<1>5. QED
  BY <1>4 DEF Dispatched!OnceNext

(* A commit settles a dispatch whose worker was started.                   *)
LEMMA SettleStep ==
  ASSUME DInv, NEW d \in Dispatches, NEW o \in Worked, o = terminals[d], Commit(d, o),
         UNCHANGED <<launched, answered>>
  PROVE  [Dispatched!OnceNext]_Dispatched!onceVars
<1>1. o \in Outcomes /\ results[d] = Absent /\ launched[d] = 1 /\ attempts[d] = Admitted
  BY DEF Worked, Commit, CanCommit, DInv, TypeOK, DispatchTypeOK, DispatchInv
<1>2. results'[d] = o /\ \A x \in Dispatches \ {d} : results'[x] = results[x]
  BY DEF Commit, DInv, TypeOK, StoreTypeOK
<1>3. Settled' = Settled \cup {<<d, o>>}
  <2>1. ASSUME NEW y PROVE y \in Settled' <=> y \in Settled \/ y = <<d, o>>
    BY <1>1, <1>2 DEF Settled
  <2>2. QED
    BY <2>1
<1>4. UNCHANGED Begun /\ UNCHANGED Performed /\ d \in Begun /\ d \in Performed
  BY <1>1 DEF Begun, Performed, Commit
<1>5. \A x \in Outcomes : <<d, x>> \notin Settled
  BY <1>1 DEF Settled
<1>6. Dispatched!Settle(d, o)
  BY <1>3, <1>4, <1>5 DEF Dispatched!Settle, Begun, Performed, Settled
<1>7. QED
  BY <1>1, <1>6 DEF Dispatched!OnceNext

(* A replay answers with the committed result.                             *)
LEMMA AnswerStep ==
  ASSUME DInv, NEW p \in Procs, Replay(p)
  PROVE  [Dispatched!OnceNext]_Dispatched!onceVars
<1> DEFINE d == job[p]
<1>1. d \in Dispatches /\ results[d] \in Outcomes
  BY DEF Replay, Committed, At, DInv, TypeOK, ProcTypeOK, DispatchSteps
<1>2. <<d, results[d]>> \in Settled
  BY <1>1 DEF Settled
<1>3. UNCHANGED Begun /\ UNCHANGED Performed /\ UNCHANGED Settled
  BY DEF Begun, Performed, Settled, Replay
<1>4. Dispatched!Answer(d, results[d])
  BY <1>2, <1>3 DEF Dispatched!Answer, Begun, Performed, Settled, Replay, Answer
<1>5. QED
  BY <1>1, <1>4 DEF Dispatched!OnceNext

(* Every step is a step of the abstract store or none of its business.     *)
LEMMA StepImplements == DInv /\ [Next]_vars => [Dispatched!OnceNext]_Dispatched!onceVars
<1> SUFFICES ASSUME DInv, [Next]_vars PROVE [Dispatched!OnceNext]_Dispatched!onceVars
  OBVIOUS
<1> USE DEF runVars, historyVars, dispatchRest
<1>t. TypeOK
  BY DEF DInv
<1>s. CASE UNCHANGED <<attempts, results, launched, answered>>
  BY <1>s, <1>t, Stutter DEF TypeOK, StoreTypeOK
<1>1. ASSUME NEW p \in Procs, DispatchStep(p) PROVE [Dispatched!OnceNext]_Dispatched!onceVars
  <2>1. CASE AdmitNew(p)
    BY <1>t, <2>1, BeginStep DEF AdmitNew, Admit, At, TypeOK, ProcTypeOK, DispatchSteps
  <2>2. CASE Launch(p)
    BY <2>2, PerformStep
  <2>3. CASE Recommit(p) \/ CommitReturn(p)
    <3>1. \E d \in Dispatches : \E o \in Worked : o = terminals[d] /\ Commit(d, o)
      BY <2>3 DEF Recommit, CommitReturn, At, DInv, TypeOK, ProcTypeOK, DispatchSteps, Owned, ProcInv
    <3>2. UNCHANGED <<launched, answered>>
      BY <2>3 DEF Recommit, CommitReturn
    <3>3. QED
      BY <3>1, <3>2, SettleStep
  <2>4. CASE Replay(p)
    BY <2>4, AnswerStep
  <2>5. QED
    BY <1>1, <1>s, <2>1, <2>2, <2>3, <2>4 DEF DispatchStep, EnterDispatch, Examine, Recover, Retain,
       Revalidate, Return, WriteTerminal, Complete, RefuseDispatch
<1>2. ASSUME NEW p \in Procs, IntegrationStep(p) PROVE [Dispatched!OnceNext]_Dispatched!onceVars
  <2>1. UNCHANGED <<launched, answered>>
    BY <1>2 DEF IntegrationStep, EnterIntegration, Lock, AdmitIntegration, Mark, Skip, Stage,
       Compare, Rename, Verify, CommitIntegration, AnswerIntegration, RefuseIntegration
  <2>2. \A d \in Dispatches : attempts'[d] = attempts[d] /\ results'[d] = results[d]
    BY <1>2, OtherEffects
  <2>3. QED
    BY <2>1, <2>2, Stutter
<1>3. ASSUME NEW p \in Procs, Crash(p) PROVE [Dispatched!OnceNext]_Dispatched!onceVars
  <2>1. UNCHANGED <<launched, answered>>
    BY <1>3 DEF Crash
  <2>2. CASE TearDispatch(p)
    <3>1. CASE At(p, "admit") /\ TearAttempt(job[p])
      BY <1>t, <2>1, <3>1, BeginStep DEF TearAttempt, At, TypeOK, ProcTypeOK, DispatchSteps
    <3>2. CASE pc[p] \in {"commit", "recommit"} /\ TearResult(job[p])
      BY <1>t, <2>1, <3>2, Stutter DEF TearResult, CanCommit, TypeOK, StoreTypeOK
    <3>3. QED
      BY <1>s, <2>1, <2>2, <3>1, <3>2 DEF TearDispatch
  <2>3. CASE TearIntegration(p)
    <3>1. \A d \in Dispatches : attempts'[d] = attempts[d] /\ results'[d] = results[d]
      BY <2>3, OtherEffectsTorn
    <3>2. QED
      BY <2>1, <3>1, Stutter
  <2>4. QED
    BY <1>3, <1>s, <2>1, <2>2, <2>3 DEF Crash
<1>4. QED
  BY <1>s, <1>1, <1>2, <1>3 DEF Next, Proceed, Edit, Reassign, vars, dispatchVars

(* A dispatch is one logical effect: begun once, its worker started once   *)
(* at most and never after its outcome, settled once, and every caller,    *)
(* of the execution or of a replay, is told that outcome.                  *)
THEOREM DispatchImplements == Spec => ImplementsDispatchOnce
<1>1. Init => Dispatched!OnceInit
  BY DEF Init, DelegationInit, StoreInit, Dispatched!OnceInit
<1>2. QED
  BY <1>1, StepImplements, DispatchInvariant, PTL DEF Spec, ImplementsDispatchOnce, Dispatched!OnceSpec

-----------------------------------------------------------------------------
(* Integrations.  Whoever is between admission and answer holds the lock;  *)
(* what it found of the files just before a rename or a commit still holds *)
(* unless somebody edited them since.                                      *)
Publishing == {"p-admit", "p-mark", "p-next", "p-compare", "p-rename", "p-commit", "p-answer"}

Marked == {"p-next", "p-compare", "p-rename", "p-commit"}

PatchTypeOK ==
    /\ marker \in [Integrations -> {Absent, Torn, Admitted}]
    /\ temps \subseteq Integrations \X Files
    /\ files \in [Files -> Contents]
    /\ merged \in [Procs -> SUBSET Files]
    /\ edits \in Nat
    /\ target \in [Procs -> Files \cup {None}]
    /\ lock \in Procs \cup {None}

(* The files of an integration come in order: attempt, marker, temporaries,*)
(* result.                                                                 *)
PatchInv(i) ==
    /\ marker[i] = Admitted => attempts[i] = Admitted
    /\ attempts[i] # Admitted => results[i] = Absent
    /\ results[i] \in {Absent, Torn, Done}
    /\ \A f \in Files : <<i, f>> \in temps => marker[i] = Admitted

HolderInv(p) ==
    LET i == job[p] IN
    /\ pc[p] \in IntegrationSteps => results[i.of] = "returned"
    /\ pc[p] \in Publishing => lock = p
    /\ pc[p] \in Marked \cup {"p-mark"} => attempts[i] = Admitted
    /\ pc[p] \in Marked => marker[i] = Admitted
    /\ pc[p] \in {"p-compare", "p-rename"} => target[p] \in Files
    /\ pc[p] = "p-rename" /\ p \notin window => files[target[p]] = i.before[target[p]]
    /\ pc[p] = "p-commit" /\ p \notin window => \A f \in Files : files[f] = After(i, f)

IInv ==
    /\ DInv
    /\ PatchTypeOK
    /\ \A i \in Integrations : PatchInv(i)
    /\ \A p \in Procs : HolderInv(p)

(* What a proposal is made of, and what its postimages are.                *)
LEMMA IntegrationFacts ==
  ASSUME NEW i \in Integrations, NEW f \in Files
  PROVE  /\ i.of \in Dispatches
         /\ i.before[f] \in Contents
         /\ Mergeable(i.of, i.before[f])
         /\ After(i, f) \in Contents
         /\ After(i, f).own = i.of
         /\ After(i, f).rest = i.before[f].rest
<1>1. PICK d \in Dispatches :
         \E b \in [Files -> {c \in Contents : Mergeable(d, c)}] : i = Integration(d, b)
  BY DEF Integrations
<1>2. PICK b \in [Files -> {c \in Contents : Mergeable(d, c)}] : i.of = d /\ i.before = b
  BY <1>1 DEF Integration
<1>3. i.before[f] \in Contents /\ Mergeable(i.of, i.before[f])
  BY <1>2
<1>4. QED
  BY <1>2, <1>3 DEF After, Merged, Contents, Regions

LEMMA OfDispatch == ASSUME NEW i \in Integrations PROVE i.of \in Dispatches
<1>1. PICK d \in Dispatches :
         \E b \in [Files -> {c \in Contents : Mergeable(d, c)}] : i = Integration(d, b)
  BY DEF Integrations
<1>2. QED
  BY <1>1 DEF Integration

(* A proposal for the files as they are is one of them.                    *)
LEMMA Proposal ==
  ASSUME PatchTypeOK, NEW d \in Dispatches, \A f \in Files : Mergeable(d, files[f])
  PROVE  /\ Integration(d, files) \in Integrations
         /\ Integration(d, files).of = d
         /\ Integration(d, files).before = files
<1>1. files \in [Files -> {c \in Contents : Mergeable(d, c)}]
  BY DEF PatchTypeOK
<1>2. QED
  BY <1>1 DEF Integrations, Integration

LEMMA InitIInv == Init => IInv
<1> SUFFICES ASSUME Init PROVE IInv
  OBVIOUS
<1>1. Captured \in Contents /\ Captured.own = "before"
  BY DEF Captured, Contents, Regions
<1>2. PatchTypeOK
  BY <1>1 DEF Init, DelegationInit, StoreInit, PatchTypeOK
<1>3. \A i \in Integrations : PatchInv(i)
  BY DEF Init, DelegationInit, StoreInit, PatchInv
<1>4. \A p \in Procs : HolderInv(p)
  BY DEF Init, DelegationInit, HolderInv, IntegrationSteps, Publishing, Marked
<1>5. QED
  BY <1>2, <1>3, <1>4, InitDInv DEF IInv

-----------------------------------------------------------------------------
(* An outcome that is committed stays, and so do the files of dispatches   *)
(* and integrations for whoever does not write them.                       *)
LEMMA DispatchStepIInv ==
  ASSUME IInv, NEW p \in Procs, DispatchStep(p),
         UNCHANGED <<patchFiles, lock, target, merged, window, edits>>
  PROVE  IInv'
<1> USE DEF runVars, historyVars, patchFiles
<1>0. DInv' /\ DInv
  BY DispatchStepInv DEF IInv
<1>1. UNCHANGED files
  BY DEF DispatchStep, EnterDispatch, Examine, Recover, Recommit, AdmitNew, Retain, Revalidate,
     Launch, Return, WriteTerminal, CommitReturn, Complete, Replay, RefuseDispatch
<1>2. /\ \A q \in Procs \ {p} : pc'[q] = pc[q] /\ job'[q] = job[q]
      /\ pc'[p] \in DispatchSteps \cup {"idle"}
  BY <1>0 DEF DispatchStep, EnterDispatch, Examine, Recover, Recommit, AdmitNew, Retain, Revalidate,
     Launch, Return, WriteTerminal, CommitReturn, Complete, Replay, RefuseDispatch, Found, Go, Stop,
     DInv, TypeOK, ProcTypeOK, DispatchSteps, Owned
<1>3. \A i \in Integrations : attempts'[i] = attempts[i] /\ results'[i] = results[i]
  <2>1. CASE AdmitNew(p) \/ Recommit(p) \/ CommitReturn(p)
    BY <1>0, <2>1 DEF AdmitNew, Recommit, CommitReturn, Admit, Commit, At, DInv, TypeOK, StoreTypeOK,
       ProcTypeOK, DispatchSteps, Owned
  <2>2. CASE ~(AdmitNew(p) \/ Recommit(p) \/ CommitReturn(p))
    BY <2>2 DEF DispatchStep, EnterDispatch, Examine, Recover, Retain, Revalidate,
       Launch, Return, WriteTerminal, Complete, Replay, RefuseDispatch
  <2>3. QED
    BY <2>1, <2>2
<1>4. \A d \in Dispatches : results[d] \in Outcomes => results'[d] = results[d]
  <2>1. CASE Recommit(p) \/ CommitReturn(p)
    BY <1>0, <2>1 DEF Recommit, CommitReturn, Commit, CanCommit, At, DInv, TypeOK, StoreTypeOK,
       ProcTypeOK, DispatchSteps, Owned
  <2>2. CASE ~(Recommit(p) \/ CommitReturn(p))
    BY <2>2 DEF DispatchStep, EnterDispatch, Examine, Recover, AdmitNew, Admit, Retain, Revalidate,
       Launch, Return, WriteTerminal, Complete, Replay, RefuseDispatch
  <2>3. QED
    BY <2>1, <2>2
<1>5. PatchTypeOK' /\ \A i \in Integrations : PatchInv(i)'
  BY <1>1, <1>3 DEF IInv, PatchTypeOK, PatchInv
<1>6. ASSUME NEW q \in Procs PROVE HolderInv(q)'
  <2>1. CASE q = p
    BY <1>2, <2>1 DEF HolderInv, DispatchSteps, Owned, IntegrationSteps, Publishing, Marked
  <2>2. CASE q # p /\ pc[q] \in IntegrationSteps
    <3>1. job[q] \in Integrations /\ job[q].of \in Dispatches
      BY <1>0, <2>2, OfDispatch DEF DInv, TypeOK, ProcTypeOK
    <3>2. HolderInv(q)
      BY DEF IInv
    <3>3. QED
      BY <1>1, <1>2, <1>3, <1>4, <2>2, <3>1, <3>2 DEF HolderInv, After
  <2>3. CASE q # p /\ pc[q] \notin IntegrationSteps
    BY <1>2, <2>3 DEF HolderInv, IntegrationSteps, Publishing, Marked
  <2>4. QED
    BY <2>1, <2>2, <2>3
<1>7. QED
  BY <1>0, <1>5, <1>6 DEF IInv

-----------------------------------------------------------------------------
LEMMA IntegrationStepIInv ==
  ASSUME IInv, NEW p \in Procs, IntegrationStep(p), UNCHANGED edits
  PROVE  IInv'
<1> USE DEF dispatchRest, patchFiles, runVars, historyVars
<1>0. DInv' /\ DInv
  BY IntegrationStepDInv DEF IInv
<1>t. /\ pc \in [Procs -> {"idle"} \cup DispatchSteps \cup IntegrationSteps]
      /\ job \in [Procs -> Dispatches \cup Integrations \cup {None}]
      /\ \A q \in Procs : pc[q] \in IntegrationSteps => job[q] \in Integrations /\ job[q].of \in Dispatches
      /\ StoreTypeOK
  BY <1>0, OfDispatch DEF DInv, TypeOK, ProcTypeOK
<1>f. PatchTypeOK /\ (\A i \in Integrations : PatchInv(i)) /\ (\A q \in Procs : HolderInv(q))
  BY DEF IInv
<1> USE DEF At, Keep, Go
<1>1. ASSUME NEW e \in Integrations, EnterIntegration(p, e) PROVE IInv'
  <2>1. PatchTypeOK'
    BY <1>t, <1>f, <1>1 DEF EnterIntegration, Proposed, Usable, PatchTypeOK, HolderInv, IntegrationSteps, Publishing, Marked
  <2>2. \A i \in Integrations : PatchInv(i)'
    BY <1>t, <1>f, <1>1 DEF EnterIntegration, Proposed, Usable, PatchTypeOK, PatchInv, HolderInv, IntegrationSteps, Publishing, Marked, StoreTypeOK
  <2>3. \A q \in Procs : HolderInv(q)'
    BY <1>t, <1>f, <1>1 DEF EnterIntegration, Proposed, Usable, PatchTypeOK, HolderInv, DispatchSteps, Owned, IntegrationSteps, Publishing, Marked, After, StoreTypeOK
  <2>4. QED
    BY <1>0, <2>1, <2>2, <2>3 DEF IInv
<1>2. CASE Lock(p)
  <2>1. PatchTypeOK'
    BY <1>t, <1>f, <1>2 DEF Lock, Proposed, Usable, PatchTypeOK, HolderInv, IntegrationSteps, Publishing, Marked
  <2>2. \A i \in Integrations : PatchInv(i)'
    BY <1>t, <1>f, <1>2 DEF Lock, Proposed, Usable, PatchTypeOK, PatchInv, HolderInv, IntegrationSteps, Publishing, Marked, StoreTypeOK
  <2>3. \A q \in Procs : HolderInv(q)'
    BY <1>t, <1>f, <1>2 DEF Lock, Proposed, Usable, PatchTypeOK, PatchInv, Held, HolderInv, DispatchSteps, Owned, IntegrationSteps, Publishing, Marked, After, StoreTypeOK
  <2>4. QED
    BY <1>0, <2>1, <2>2, <2>3 DEF IInv
<1>3. CASE AdmitIntegration(p)
  <2>1. PatchTypeOK'
    BY <1>t, <1>f, <1>3 DEF AdmitIntegration, Admit, CanAdmit, PatchTypeOK, HolderInv, IntegrationSteps, Publishing, Marked
  <2>2. \A i \in Integrations : PatchInv(i)'
    BY <1>t, <1>f, <1>3 DEF AdmitIntegration, Admit, CanAdmit, PatchTypeOK, PatchInv, HolderInv, IntegrationSteps, Publishing, Marked, StoreTypeOK
  <2>3. \A q \in Procs : HolderInv(q)'
    BY <1>t, <1>f, <1>3 DEF AdmitIntegration, Admit, CanAdmit, PatchTypeOK, HolderInv, DispatchSteps, Owned, IntegrationSteps, Publishing, Marked, After, StoreTypeOK
  <2>4. QED
    BY <1>0, <2>1, <2>2, <2>3 DEF IInv
<1>4. CASE Mark(p)
  <2>1. PatchTypeOK'
    BY <1>t, <1>f, <1>4 DEF Mark, PatchTypeOK, HolderInv, IntegrationSteps, Publishing, Marked
  <2>2. \A i \in Integrations : PatchInv(i)'
    BY <1>t, <1>f, <1>4 DEF Mark, PatchTypeOK, PatchInv, HolderInv, IntegrationSteps, Publishing, Marked, StoreTypeOK
  <2>3. \A q \in Procs : HolderInv(q)'
    BY <1>t, <1>f, <1>4 DEF Mark, PatchTypeOK, HolderInv, DispatchSteps, Owned, IntegrationSteps, Publishing, Marked, After, StoreTypeOK
  <2>4. QED
    BY <1>0, <2>1, <2>2, <2>3 DEF IInv
<1>5. ASSUME NEW g \in Files, Skip(p, g) PROVE IInv'
  <2>1. PatchTypeOK'
    BY <1>t, <1>f, <1>5 DEF Skip, PatchTypeOK, HolderInv, IntegrationSteps, Publishing, Marked
  <2>2. \A i \in Integrations : PatchInv(i)'
    BY <1>t, <1>f, <1>5 DEF Skip, PatchTypeOK, PatchInv, HolderInv, IntegrationSteps, Publishing, Marked, StoreTypeOK
  <2>3. \A q \in Procs : HolderInv(q)'
    BY <1>t, <1>f, <1>5 DEF Skip, PatchTypeOK, HolderInv, DispatchSteps, Owned, IntegrationSteps, Publishing, Marked, After, StoreTypeOK
  <2>4. QED
    BY <1>0, <2>1, <2>2, <2>3 DEF IInv
<1>6. ASSUME NEW g \in Files, Stage(p, g) PROVE IInv'
  <2>1. PatchTypeOK'
    BY <1>t, <1>f, <1>6 DEF Stage, CanStage, PatchTypeOK, HolderInv, IntegrationSteps, Publishing, Marked
  <2>2. \A i \in Integrations : PatchInv(i)'
    BY <1>t, <1>f, <1>6 DEF Stage, CanStage, PatchTypeOK, PatchInv, HolderInv, IntegrationSteps, Publishing, Marked, StoreTypeOK
  <2>3. \A q \in Procs : HolderInv(q)'
    BY <1>t, <1>f, <1>6 DEF Stage, CanStage, PatchTypeOK, HolderInv, DispatchSteps, Owned, IntegrationSteps, Publishing, Marked, After, StoreTypeOK
  <2>4. QED
    BY <1>0, <2>1, <2>2, <2>3 DEF IInv
<1>7. CASE Compare(p)
  <2>1. PatchTypeOK'
    BY <1>t, <1>f, <1>7 DEF Compare, PatchTypeOK, HolderInv, IntegrationSteps, Publishing, Marked
  <2>2. \A i \in Integrations : PatchInv(i)'
    BY <1>t, <1>f, <1>7 DEF Compare, PatchTypeOK, PatchInv, HolderInv, IntegrationSteps, Publishing, Marked, StoreTypeOK
  <2>3. \A q \in Procs : HolderInv(q)'
    BY <1>t, <1>f, <1>7 DEF Compare, PatchTypeOK, HolderInv, DispatchSteps, Owned, IntegrationSteps, Publishing, Marked, After, StoreTypeOK
  <2>4. QED
    BY <1>0, <2>1, <2>2, <2>3 DEF IInv
<1>8. CASE Rename(p)
  <2>1. PatchTypeOK'
    BY <1>t, <1>f, <1>8, IntegrationFacts DEF Rename, PatchTypeOK, HolderInv, IntegrationSteps, Publishing, Marked
  <2>2. \A i \in Integrations : PatchInv(i)'
    BY <1>t, <1>f, <1>8 DEF Rename, PatchTypeOK, PatchInv, HolderInv, IntegrationSteps, Publishing, Marked, StoreTypeOK
  <2>3. \A q \in Procs : HolderInv(q)'
    BY <1>t, <1>f, <1>8, IntegrationFacts DEF Rename, PatchTypeOK, HolderInv, DispatchSteps, Owned, IntegrationSteps, Publishing, Marked, After, StoreTypeOK
  <2>4. QED
    BY <1>0, <2>1, <2>2, <2>3 DEF IInv
<1>9. CASE Verify(p)
  <2>1. PatchTypeOK'
    BY <1>t, <1>f, <1>9 DEF Verify, FinalCheck, PatchTypeOK, HolderInv, IntegrationSteps, Publishing, Marked
  <2>2. \A i \in Integrations : PatchInv(i)'
    BY <1>t, <1>f, <1>9 DEF Verify, FinalCheck, PatchTypeOK, PatchInv, HolderInv, IntegrationSteps, Publishing, Marked, StoreTypeOK
  <2>3. \A q \in Procs : HolderInv(q)'
    BY <1>t, <1>f, <1>9 DEF Verify, FinalCheck, PatchTypeOK, HolderInv, DispatchSteps, Owned, IntegrationSteps, Publishing, Marked, After, StoreTypeOK
  <2>4. QED
    BY <1>0, <2>1, <2>2, <2>3 DEF IInv
<1>10. CASE CommitIntegration(p)
  <2>1. PatchTypeOK'
    BY <1>t, <1>f, <1>10 DEF CommitIntegration, Commit, CanCommit, Leave, Stop, PatchTypeOK, HolderInv, IntegrationSteps, Publishing, Marked
  <2>2. \A i \in Integrations : PatchInv(i)'
    BY <1>t, <1>f, <1>10 DEF CommitIntegration, Commit, CanCommit, Leave, Stop, PatchTypeOK, PatchInv, HolderInv, IntegrationSteps, Publishing, Marked, StoreTypeOK
  <2>3. \A q \in Procs : HolderInv(q)'
    BY <1>t, <1>f, <1>10 DEF CommitIntegration, Commit, CanCommit, Leave, Stop, PatchTypeOK, HolderInv, DispatchSteps, Owned, IntegrationSteps, Publishing, Marked, After, StoreTypeOK
  <2>4. QED
    BY <1>0, <2>1, <2>2, <2>3 DEF IInv
<1>11. CASE AnswerIntegration(p)
  <2>1. PatchTypeOK'
    BY <1>t, <1>f, <1>11 DEF AnswerIntegration, Leave, Stop, PatchTypeOK, HolderInv, IntegrationSteps, Publishing, Marked
  <2>2. \A i \in Integrations : PatchInv(i)'
    BY <1>t, <1>f, <1>11 DEF AnswerIntegration, Leave, Stop, PatchTypeOK, PatchInv, HolderInv, IntegrationSteps, Publishing, Marked, StoreTypeOK
  <2>3. \A q \in Procs : HolderInv(q)'
    BY <1>t, <1>f, <1>11 DEF AnswerIntegration, Leave, Stop, PatchTypeOK, HolderInv, DispatchSteps, Owned, IntegrationSteps, Publishing, Marked, After, StoreTypeOK
  <2>4. QED
    BY <1>0, <2>1, <2>2, <2>3 DEF IInv
<1>12. CASE RefuseIntegration(p)
  <2>1. PatchTypeOK'
    BY <1>t, <1>f, <1>12 DEF RefuseIntegration, Leave, Stop, PatchTypeOK, HolderInv, IntegrationSteps, Publishing, Marked
  <2>2. \A i \in Integrations : PatchInv(i)'
    BY <1>t, <1>f, <1>12 DEF RefuseIntegration, Leave, Stop, PatchTypeOK, PatchInv, HolderInv, IntegrationSteps, Publishing, Marked, StoreTypeOK
  <2>3. \A q \in Procs : HolderInv(q)'
    BY <1>t, <1>f, <1>12 DEF RefuseIntegration, Leave, Stop, PatchTypeOK, HolderInv, DispatchSteps, Owned, IntegrationSteps, Publishing, Marked, After, StoreTypeOK
  <2>4. QED
    BY <1>0, <2>1, <2>2, <2>3 DEF IInv
<1>13. QED
  BY <1>1, <1>2, <1>3, <1>4, <1>5, <1>6, <1>7, <1>8, <1>9, <1>10, <1>11, <1>12 DEF IntegrationStep

-----------------------------------------------------------------------------
(* Deaths, and everybody else.                                             *)
LEMMA CrashIInv ==
  ASSUME IInv, NEW p \in Procs, Crash(p)
  PROVE  IInv'
<1> USE DEF patchFiles, runVars, historyVars
<1>0. DInv' /\ DInv
  BY CrashDInv DEF IInv
<1>t. /\ pc \in [Procs -> {"idle"} \cup DispatchSteps \cup IntegrationSteps]
      /\ job \in [Procs -> Dispatches \cup Integrations \cup {None}]
      /\ \A q \in Procs :
            /\ pc[q] \in IntegrationSteps => job[q] \in Integrations /\ job[q].of \in Dispatches
            /\ pc[q] \in DispatchSteps => job[q] \in Dispatches
      /\ StoreTypeOK
  BY <1>0, OfDispatch DEF DInv, TypeOK, ProcTypeOK
<1>f. PatchTypeOK /\ (\A i \in Integrations : PatchInv(i)) /\ (\A q \in Procs : HolderInv(q))
  BY DEF IInv
<1>1. Leave(p) /\ UNCHANGED <<files, edits>> /\ temps' = temps
  BY DEF Crash, TearIntegration
(* What a death can still create was not there before.                     *)
<1>2. /\ \A e \in Effects : attempts'[e] = attempts[e] \/ attempts[e] = Absent
      /\ \A e \in Effects : results'[e] = results[e] \/ (attempts[e] = Admitted /\ results[e] = Absent /\ results'[e] = Torn)
  <2>1. CASE UNCHANGED <<attempts, results>>
    BY <2>1
  <2>2. CASE TearDispatch(p)
    BY <1>t, <2>2 DEF TearDispatch, TearAttempt, TearResult, CanAdmit, CanCommit, At, StoreTypeOK,
       DispatchSteps, Owned
  <2>3. CASE TearIntegration(p)
    BY <1>t, <2>3 DEF TearIntegration, TearAttempt, TearResult, CanAdmit, CanCommit, At, StoreTypeOK,
       IntegrationSteps
  <2>4. QED
    BY <2>1, <2>2, <2>3 DEF Crash
<1>3. \A i \in Integrations : marker'[i] = marker[i] \/ (marker[i] = Absent /\ marker'[i] = Torn)
  BY <1>t, <1>f DEF Crash, TearIntegration, PatchTypeOK, At, IntegrationSteps
<1>4. PatchTypeOK'
  BY <1>t, <1>f, <1>1 DEF PatchTypeOK, Leave, Crash, TearIntegration, At, IntegrationSteps
<1>5. \A i \in Integrations : PatchInv(i)'
  BY <1>f, <1>1, <1>2, <1>3 DEF PatchInv
<1>6. ASSUME NEW q \in Procs PROVE HolderInv(q)'
  <2>1. CASE q = p
    BY <1>t, <1>1, <2>1 DEF Leave, Stop, HolderInv, IntegrationSteps, Publishing, Marked
  <2>2. CASE q # p /\ pc[q] \in IntegrationSteps
    BY <1>t, <1>f, <1>1, <1>2, <1>3, <2>2 DEF Leave, Stop, PatchTypeOK, HolderInv, IntegrationSteps,
       Publishing, Marked, After
  <2>3. CASE q # p /\ pc[q] \notin IntegrationSteps
    BY <1>t, <1>1, <2>3 DEF Leave, Stop, HolderInv, IntegrationSteps, Publishing, Marked
  <2>4. QED
    BY <2>1, <2>2, <2>3
<1>7. QED
  BY <1>0, <1>4, <1>5, <1>6 DEF IInv

(* An edit exposes whoever is about to rename or to commit.                *)
LEMMA EditIInv ==
  ASSUME IInv, NEW f \in Files, NEW c \in Contents, Edit(f, c)
  PROVE  IInv'
<1> USE DEF patchFiles, runVars, historyVars
<1>1. DInv'
  BY DInvStep DEF Edit, IInv, DInv, TypeOK, StoreTypeOK, ProcTypeOK, DispatchTypeOK, DispatchInv, ProcInv, OneOwner
<1>2. PatchTypeOK' /\ \A i \in Integrations : PatchInv(i)'
  BY DEF Edit, IInv, PatchTypeOK, PatchInv
<1>3. \A q \in Procs : HolderInv(q)'
  BY DEF Edit, Exposed, IInv, HolderInv, PatchTypeOK, After
<1>4. QED
  BY <1>1, <1>2, <1>3 DEF IInv

LEMMA IInvStep == IInv /\ [Next]_vars => IInv'
<1> SUFFICES ASSUME IInv, [Next]_vars PROVE IInv'
  OBVIOUS
<1>1. ASSUME NEW p \in Procs, Proceed(p) PROVE IInv'
  BY <1>1, DispatchStepIInv, IntegrationStepIInv DEF Proceed, boundVars
<1>2. ASSUME NEW p \in Procs, Crash(p) PROVE IInv'
  BY <1>2, CrashIInv
<1>3. ASSUME NEW f \in Files, Edit(f, Captured) PROVE IInv'
  BY <1>3, EditIInv DEF Captured, Contents, Regions
<1>4. ASSUME NEW f \in Files,
             \E r \in {files[f].own, "before", "other"} :
                edits < MaxEdits /\ Edit(f, [own |-> r, rest |-> edits + 1])
      PROVE  IInv'
  <2>0. PICK r \in {files[f].own, "before", "other"} :
           edits < MaxEdits /\ Edit(f, [own |-> r, rest |-> edits + 1])
    BY <1>4
  <2>1. r \in Regions /\ edits + 1 \in 0 .. MaxEdits
    BY <2>0 DEF IInv, PatchTypeOK, Contents, Regions
  <2>2. [own |-> r, rest |-> edits + 1] \in Contents
    BY <2>1 DEF Contents
  <2>3. QED
    BY <2>0, <2>2, EditIInv
<1>5. CASE UNCHANGED <<attempts, results, runVars, files, pc, job, note, launched, patchFiles, lock,
                       target, merged, window, edits>>
  <2>1. DInv'
    BY <1>5 DEF IInv, DInv, TypeOK, StoreTypeOK, ProcTypeOK, DispatchTypeOK, DispatchInv, ProcInv, OneOwner, runVars
  <2>2. QED
    BY <1>5, <2>1 DEF IInv, PatchTypeOK, PatchInv, HolderInv, patchFiles, After
<1>6. QED
  BY <1>1, <1>2, <1>3, <1>4, <1>5 DEF Next, Reassign, vars, dispatchVars, historyVars, boundVars

THEOREM IntegrationInvariant == Spec => []IInv
BY InitIInv, IInvStep, PTL DEF Spec

-----------------------------------------------------------------------------
(* Which step a change of a file or of a result is.                        *)
LEMMA OnlyRenames ==
  ASSUME IInv, [Next]_vars, NEW p \in Procs, pc[p] = "p-rename", pc'[p] = "p-next"
  PROVE  Rename(p)
<1>t. pc \in [Procs -> {"idle"} \cup DispatchSteps \cup IntegrationSteps]
  BY DEF IInv, DInv, TypeOK, ProcTypeOK
<1>1. ASSUME NEW q \in Procs, DispatchStep(q) PROVE FALSE
  BY <1>t, <1>1 DEF DispatchStep, EnterDispatch, Examine, Recover, Recommit, AdmitNew, Retain, Revalidate,
     Launch, Return, WriteTerminal, CommitReturn, Complete, Replay, RefuseDispatch, Dispatching,
     Found, At, Go, Stop
<1>2. ASSUME NEW q \in Procs, IntegrationStep(q) PROVE Rename(p)
  BY <1>t, <1>2 DEF IntegrationStep, EnterIntegration, Lock, AdmitIntegration, Mark, Skip, Stage,
     Compare, Rename, Verify, CommitIntegration, AnswerIntegration, RefuseIntegration, At, Go, Leave, Stop
<1>3. ASSUME NEW q \in Procs, Crash(q) PROVE FALSE
  BY <1>t, <1>3 DEF Crash, Leave, Stop
<1>4. QED
  BY <1>1, <1>2, <1>3 DEF Next, Proceed, Edit, Reassign, vars, dispatchVars

LEMMA OnlyCommits ==
  ASSUME IInv, [Next]_vars, NEW i \in Integrations, results[i] # Done, results'[i] = Done
  PROVE  \E p \in Procs : CommitIntegration(p) /\ job[p] = i
<1>t. StoreTypeOK /\ ProcTypeOK
  BY DEF IInv, DInv, TypeOK
<1>1. ASSUME NEW p \in Procs, DispatchStep(p) PROVE FALSE
  BY <1>t, <1>1 DEF DispatchStep, EnterDispatch, Examine, Recover, Recommit, AdmitNew, Admit, Retain,
     Revalidate, Launch, Return, WriteTerminal, CommitReturn, Commit, Complete, Replay, RefuseDispatch,
     At, StoreTypeOK, ProcTypeOK, DispatchSteps, Owned
<1>2. ASSUME NEW p \in Procs, IntegrationStep(p) PROVE CommitIntegration(p) /\ job[p] = i
  BY <1>t, <1>2 DEF IntegrationStep, EnterIntegration, Lock, AdmitIntegration, Admit, Mark, Skip, Stage,
     Compare, Rename, Verify, CommitIntegration, Commit, AnswerIntegration, RefuseIntegration,
     At, dispatchRest, StoreTypeOK, ProcTypeOK, IntegrationSteps
<1>3. ASSUME NEW p \in Procs, Crash(p) PROVE FALSE
  BY <1>t, <1>3 DEF Crash, TearDispatch, TearIntegration, TearAttempt, TearResult, At, StoreTypeOK,
     ProcTypeOK, DispatchSteps, IntegrationSteps, Owned
<1>4. QED
  BY <1>1, <1>2, <1>3 DEF Next, Proceed, Edit, Reassign, vars, dispatchVars

(* What has been interrupted or refused is never in the way of the         *)
(* proposal for the files as they are (native_patch.rs, retained), but for *)
(* a torn file, a death before the marker, and an integration that was     *)
(* committed and then undone by an edit.                                   *)
THEOREM NothingInTheWay == Spec => []NothingElseInTheWay
<1>1. ASSUME IInv, NEW d \in Dispatches, Usable(d), \A f \in Files : Mergeable(d, files[f]),
             NEW i, i = Integration(d, files), ~Blocked(i)
      PROVE  CanPerform(i)
  <2>1. i \in Integrations /\ i.of = d /\ i.before = files
    BY <1>1, Proposal DEF IInv
  <2>2. PatchInv(i) /\ results[i] \in {Absent, Torn, Done} /\ marker[i] \in {Absent, Torn, Admitted}
        /\ attempts[i] \in {Absent, Torn, Admitted}
    BY <1>1, <2>1 DEF IInv, PatchInv, PatchTypeOK, DInv, TypeOK, StoreTypeOK
  <2>3. MarkerLegible(i) /\ (~Held(i) => CanAdmit(i))
    BY <1>1, <2>2 DEF Blocked, MarkerLegible, Held, CanPrepare, CanAdmit, PatchInv
  <2>4. Proposed(i)
    BY <1>1, <2>1, <2>3 DEF Proposed, PreimageCurrent, Blocked
  <2>5. \A f \in Files : TemporaryAccepted(i, f, Held(i))
    BY <1>1, <2>2 DEF Blocked, TemporaryAccepted, PatchInv, Held
  <2>6. QED
    BY <2>3, <2>4, <2>5 DEF CanPerform
<1>2. IInv => NothingElseInTheWay
  BY <1>1 DEF NothingElseInTheWay
<1>3. QED
  BY <1>2, IntegrationInvariant, PTL

-----------------------------------------------------------------------------
(* A rename replaces the region of the worker in the file it compared and  *)
(* nothing else, unless the file was edited in between.                    *)
LEMMA RenamesKeepEdits ==
  ASSUME IInv, [Next]_vars, NEW p \in Procs, NEW f \in Files,
         pc[p] = "p-rename", pc'[p] = "p-next", target[p] = f, p \notin window
  PROVE  files'[f].rest = files[f].rest /\ files[f].own \in {"before", job[p].of}
<1>1. job[p] \in Integrations /\ files[f] = job[p].before[f] /\ f \in Files
  BY DEF IInv, DInv, TypeOK, ProcTypeOK, IntegrationSteps, HolderInv
<1>2. files[f].own \in {"before", job[p].of} /\ After(job[p], f).rest = files[f].rest
  BY <1>1, IntegrationFacts DEF Mergeable
<1>3. files'[f] = After(job[p], f)
  <2>1. Rename(p)
    BY OnlyRenames
  <2>2. QED
    BY <2>1 DEF Rename, IInv, PatchTypeOK
<1>4. QED
  BY <1>2, <1>3

(* The result of an integration appears when all files hold the postimages.*)
LEMMA ResultsAreWhole ==
  ASSUME IInv, [Next]_vars, NEW i \in Integrations, results[i] # Done, results'[i] = Done
  PROVE  \/ \A f \in Files : files[f] = After(i, f)
         \/ \E p \in window : job[p] = i
<1>1. PICK p \in Procs : CommitIntegration(p) /\ job[p] = i
  BY OnlyCommits
<1>2. pc[p] = "p-commit" /\ HolderInv(p)
  BY <1>1 DEF CommitIntegration, At, IInv
<1>3. QED
  BY <1>1, <1>2 DEF HolderInv

(* Edits of others survive an integration, and what it reports is there.   *)
THEOREM IntegrationWhole == Spec => IntegratesWhole
<1>1. IInv /\ [Next]_vars =>
        [\A p \in Procs, f \in Files :
            pc[p] = "p-rename" /\ pc'[p] = "p-next" /\ target[p] = f /\ p \notin window =>
               /\ files'[f].rest = files[f].rest
               /\ files[f].own \in {"before", job[p].of}]_vars
  BY RenamesKeepEdits
<1>2. IInv /\ [Next]_vars =>
        [\A i \in Integrations :
            results[i] # Done /\ results'[i] = Done =>
               \/ \A f \in Files : files[f] = After(i, f)
               \/ \E p \in window : job[p] = i]_vars
  BY ResultsAreWhole
<1>3. QED
  BY <1>1, <1>2, IntegrationInvariant, PTL DEF Spec, IntegratesWhole, EditsKept, CommitsWhole
-----------------------------------------------------------------------------
(* Who relies on an assignment has found it current, unless it was changed *)
(* since; a worker that is recorded as censored relies on nothing.         *)
Looked ==
    \A d \in Dispatches : \A p \in Relying(d) \ overtaken :
        d \in assigned \/ (pc[p] \in {"terminal", "commit"} /\ note[p] # "returned")

(* A step of one process that leaves the assignment alone can disturb that *)
(* only for itself.                                                        *)
LEMMA OwnLook ==
  ASSUME Looked, NEW p \in Procs, UNCHANGED assigned,
         \A q \in Procs \ {p} : /\ pc'[q] = pc[q] /\ job'[q] = job[q] /\ note'[q] = note[q]
                                /\ (q \in overtaken') <=> (q \in overtaken),
         \A d \in Dispatches : p \in Relying(d)' \ overtaken' =>
            d \in assigned \/ (pc'[p] \in {"terminal", "commit"} /\ note'[p] # "returned")
  PROVE  Looked'
BY DEF Looked, Relying

LEMMA DispatchLook ==
  ASSUME IInv, Looked, NEW p \in Procs, DispatchStep(p),
         overtaken' = IF pc'[p] = "commit" THEN overtaken ELSE overtaken \ {p}
  PROVE  Looked'
<1>t. ProcTypeOK
  BY DEF IInv, DInv, TypeOK
<1> USE DEF runVars, historyVars
<1>1. /\ UNCHANGED assigned
      /\ \A q \in Procs \ {p} : pc'[q] = pc[q] /\ job'[q] = job[q] /\ note'[q] = note[q]
  BY <1>t DEF DispatchStep, EnterDispatch, Examine, Recover, Recommit, AdmitNew, Retain, Revalidate,
     Launch, Return, WriteTerminal, CommitReturn, Complete, Replay, RefuseDispatch, Go, Stop, ProcTypeOK
<1>2. ASSUME NEW d \in Dispatches, p \in Relying(d)' \ overtaken'
      PROVE  d \in assigned \/ (pc'[p] \in {"terminal", "commit"} /\ note'[p] # "returned")
  <2>1. ASSUME NEW o \in Worked, Return(p, o) PROVE d \in assigned \/ (pc'[p] = "terminal" /\ note'[p] # "returned")
    BY <1>t, <1>2, <2>1 DEF Return, Accepted, StillAssigned, Go, Relying, ProcTypeOK
  <2>2. CASE WriteTerminal(p)
    BY <1>t, <1>2, <2>2 DEF WriteTerminal, At, Go, Looked, Relying, ProcTypeOK
  <2>3. CASE Recover(p)
    BY <1>t, <1>2, <2>3 DEF Recover, Dispatchable, Go, Relying, ProcTypeOK
  <2>4. CASE (\E e \in Dispatches : EnterDispatch(p, e)) \/ Examine(p) \/ Recommit(p) \/ AdmitNew(p)
               \/ Retain(p) \/ Revalidate(p) \/ Launch(p) \/ CommitReturn(p) \/ Complete(p)
               \/ Replay(p) \/ RefuseDispatch(p)
    BY <1>t, <1>2, <2>4 DEF EnterDispatch, Examine, Found, Recommit, AdmitNew, Retain, Revalidate, Launch,
       CommitReturn, Complete, Replay, RefuseDispatch, Go, Stop, Relying, ProcTypeOK
  <2>5. QED
    BY <2>1, <2>2, <2>3, <2>4 DEF DispatchStep, Worked
<1>3. QED
  BY <1>1, <1>2, OwnLook

LEMMA IntegrationLook ==
  ASSUME IInv, Looked, NEW p \in Procs, IntegrationStep(p)
  PROVE  Looked'
<1>t. ProcTypeOK
  BY DEF IInv, DInv, TypeOK
<1> USE DEF dispatchRest, Keep
<1>1. /\ UNCHANGED assigned
      /\ \A q \in Procs \ {p} : /\ pc'[q] = pc[q] /\ job'[q] = job[q] /\ note'[q] = note[q]
                                /\ (q \in overtaken') <=> (q \in overtaken)
  BY <1>t DEF IntegrationStep, EnterIntegration, Lock, AdmitIntegration, Mark, Skip, Stage, Compare, Rename,
     Verify, CommitIntegration, AnswerIntegration, RefuseIntegration, Go, Leave, Stop, ProcTypeOK
<1>2. ASSUME NEW d \in Dispatches, p \in Relying(d)' \ overtaken' PROVE d \in assigned
  <2>1. CASE Compare(p) \/ Verify(p)
    BY <1>t, <1>2, <2>1 DEF Compare, Verify, FinalCheck, Proposed, Usable, Go, Relying, ProcTypeOK
  <2>2. CASE ~(Compare(p) \/ Verify(p))
    BY <1>t, <1>2, <2>2 DEF IntegrationStep, EnterIntegration, Lock, AdmitIntegration, Mark, Skip, Stage,
       Rename, CommitIntegration, AnswerIntegration, RefuseIntegration, At, Go, Leave, Stop, Relying, ProcTypeOK
  <2>3. QED
    BY <2>1, <2>2
<1>3. QED
  BY <1>1, <1>2, OwnLook

LEMMA LookedStep == IInv /\ Looked /\ [Next]_vars => Looked'
<1> SUFFICES ASSUME IInv, Looked, [Next]_vars PROVE Looked'
  OBVIOUS
<1>t. ProcTypeOK
  BY DEF IInv, DInv, TypeOK
<1>1. ASSUME NEW p \in Procs, Proceed(p) PROVE Looked'
  BY <1>1, DispatchLook, IntegrationLook DEF Proceed
<1>2. ASSUME NEW p \in Procs, Crash(p) PROVE Looked'
  <2>1. \A d \in Dispatches : p \notin Relying(d)'
    BY <1>t, <1>2 DEF Crash, Leave, Stop, Relying, ProcTypeOK
  <2>2. /\ UNCHANGED assigned
        /\ \A q \in Procs \ {p} : /\ pc'[q] = pc[q] /\ job'[q] = job[q] /\ note'[q] = note[q]
                                  /\ (q \in overtaken') <=> (q \in overtaken)
    BY <1>t, <1>2 DEF Crash, Leave, Stop, ProcTypeOK
  <2>3. QED
    BY <2>1, <2>2, OwnLook
<1>3. CASE UNCHANGED <<pc, job, note, assigned, overtaken>>
  BY <1>3 DEF Looked, Relying
<1>4. ASSUME NEW d \in Dispatches, Reassign(d) PROVE Looked'
  BY <1>4 DEF Reassign, Looked, Relying
<1>5. QED
  BY <1>1, <1>2, <1>3, <1>4 DEF Next, Edit, vars, dispatchVars

THEOREM LookedInvariant == Spec => []Looked
<1>1. Init => Looked
  BY DEF Init, DelegationInit, Looked, Relying
<1>2. QED
  BY <1>1, LookedStep, IntegrationInvariant, PTL DEF Spec

(* Who makes a return the outcome of a dispatch, and who puts one in a     *)
(* file.                                                                   *)
LEMMA OnlyCommitsReturn ==
  ASSUME IInv, [Next]_vars, NEW d \in Dispatches, results[d] # "returned", results'[d] = "returned"
  PROVE  \E p \in Procs : job[p] = d /\ (Recommit(p) \/ CommitReturn(p))
<1>t. StoreTypeOK /\ ProcTypeOK
  BY DEF IInv, DInv, TypeOK
<1>1. ASSUME NEW p \in Procs, DispatchStep(p) PROVE job[p] = d /\ (Recommit(p) \/ CommitReturn(p))
  BY <1>t, <1>1 DEF DispatchStep, EnterDispatch, Examine, Recover, Recommit, AdmitNew, Admit, Retain,
     Revalidate, Launch, Return, WriteTerminal, CommitReturn, Commit, Complete, Replay, RefuseDispatch,
     At, StoreTypeOK, ProcTypeOK, DispatchSteps, Owned
<1>2. ASSUME NEW p \in Procs, IntegrationStep(p) PROVE FALSE
  BY <1>2, OtherEffects DEF IInv
<1>3. ASSUME NEW p \in Procs, Crash(p) PROVE FALSE
  <2>1. CASE UNCHANGED results
    BY <2>1
  <2>2. CASE TearDispatch(p)
    BY <1>t, <2>2 DEF TearDispatch, TearAttempt, TearResult, At, StoreTypeOK, ProcTypeOK, DispatchSteps, Owned
  <2>3. CASE TearIntegration(p)
    BY <2>3, OtherEffectsTorn DEF IInv
  <2>4. QED
    BY <1>3, <2>1, <2>2, <2>3 DEF Crash
<1>4. QED
  BY <1>1, <1>2, <1>3 DEF Next, Proceed, Edit, Reassign, vars, dispatchVars

LEMMA OnlyRenamesIntegrate ==
  ASSUME IInv, [Next]_vars, NEW d \in Dispatches, NEW f \in Files,
         files[f].own # d, files'[f].own = d
  PROVE  \E p \in Procs : Rename(p) /\ job[p].of = d
<1>t. ProcTypeOK /\ files \in [Files -> Contents]
  BY DEF IInv, DInv, TypeOK, PatchTypeOK
<1> USE DEF dispatchRest
<1>1. ASSUME NEW p \in Procs, DispatchStep(p) PROVE FALSE
  BY <1>1 DEF DispatchStep, EnterDispatch, Examine, Recover, Recommit, AdmitNew, Retain,
     Revalidate, Launch, Return, WriteTerminal, CommitReturn, Complete, Replay, RefuseDispatch
<1>2. ASSUME NEW p \in Procs, IntegrationStep(p) PROVE Rename(p) /\ job[p].of = d
  <2>1. Rename(p)
    BY <1>2 DEF IntegrationStep, EnterIntegration, Lock, AdmitIntegration, Mark, Skip, Stage,
       Compare, Verify, CommitIntegration, AnswerIntegration, RefuseIntegration
  <2>2. job[p] \in Integrations
    BY <1>t, <2>1 DEF Rename, At, ProcTypeOK, IntegrationSteps
  <2>3. QED
    BY <1>t, <2>1, <2>2, IntegrationFacts DEF Rename
<1>3. ASSUME NEW g \in Files, NEW c, Edit(g, c), c.own \in {"before", "other", files[g].own} PROVE FALSE
  BY <1>t, <1>3 DEF Edit
<1>4. QED
  BY <1>1, <1>2, <1>3 DEF Next, Proceed, Crash, Edit, Captured, Reassign, vars, dispatchVars

(* What a worker returned takes effect only while its assignment is the    *)
(* current one, whatever was reassigned while it ran, before it was        *)
(* integrated or across a death (native_delegation.rs, revalidate after    *)
(* the run; native_patch.rs, use-result).                                  *)
THEOREM ReturnsOfTheAssigned == Spec => UsedWhileAssigned
<1>1. ASSUME IInv, Looked, [Next]_vars, NEW d \in Dispatches, UsesReturn(d)
      PROVE  /\ results'[d] = "returned"
             /\ \/ d \in assigned
                \/ \E p \in overtaken \cap Relying(d) : pc'[p] # pc[p]
  <2>t. ProcTypeOK /\ StoreTypeOK
    BY <1>1 DEF IInv, DInv, TypeOK
  <2>1. CASE results[d] # "returned" /\ results'[d] = "returned"
    <3>1. PICK p \in Procs : job[p] = d /\ (Recommit(p) \/ CommitReturn(p))
      BY <1>1, <2>1, OnlyCommitsReturn
    <3>2. p \in Relying(d) /\ pc[p] \in {"commit", "recommit"} /\ pc'[p] = "complete"
      BY <2>t, <3>1 DEF Recommit, CommitReturn, At, Go, Relying, ProcTypeOK
    <3>3. pc[p] = "commit" => note[p] = "returned"
      BY <2>t, <2>1, <3>1 DEF Recommit, CommitReturn, Commit, At, StoreTypeOK
    <3>4. QED
      BY <1>1, <2>1, <3>2, <3>3 DEF Looked
  <2>2. ASSUME NEW f \in Files, files[f].own # d, files'[f].own = d
        PROVE  /\ results'[d] = "returned"
               /\ \/ d \in assigned
                  \/ \E p \in overtaken \cap Relying(d) : pc'[p] # pc[p]
    <3>1. PICK p \in Procs : Rename(p) /\ job[p].of = d
      BY <1>1, <2>2, OnlyRenamesIntegrate
    <3>2. p \in Relying(d) /\ pc[p] = "p-rename" /\ pc'[p] = "p-next"
      BY <2>t, <3>1 DEF Rename, At, Go, Relying, ProcTypeOK
    <3>3. results'[d] = "returned"
      BY <1>1, <3>1, <3>2 DEF Rename, IInv, HolderInv, IntegrationSteps
    <3>4. QED
      BY <1>1, <3>2, <3>3 DEF Looked
  <2>3. ASSUME NEW i \in Integrations, i.of = d, results[i] # Done, results'[i] = Done
        PROVE  /\ results'[d] = "returned"
               /\ \/ d \in assigned
                  \/ \E p \in overtaken \cap Relying(d) : pc'[p] # pc[p]
    <3>1. PICK p \in Procs : CommitIntegration(p) /\ job[p] = i
      BY <1>1, <2>3, OnlyCommits
    <3>2. p \in Relying(d) /\ pc[p] = "p-commit" /\ pc'[p] = "idle"
      BY <2>t, <2>3, <3>1 DEF CommitIntegration, At, Leave, Stop, Relying, ProcTypeOK
    <3>3. results'[d] = "returned"
      BY <1>1, <2>t, <2>3, <3>1, <3>2 DEF CommitIntegration, Commit, IInv, HolderInv, IntegrationSteps, StoreTypeOK
    <3>4. QED
      BY <1>1, <3>2, <3>3 DEF Looked
  <2>4. QED
    BY <1>1, <2>1, <2>2, <2>3 DEF UsesReturn
<1>2. IInv /\ Looked /\ [Next]_vars =>
        [\A d \in Dispatches : UsesReturn(d) =>
            /\ results'[d] = "returned"
            /\ \/ d \in assigned
               \/ \E p \in overtaken \cap Relying(d) : pc'[p] # pc[p]]_vars
  BY <1>1
<1>3. QED
  BY <1>2, IntegrationInvariant, LookedInvariant, PTL DEF Spec, UsedWhileAssigned
=============================================================================
