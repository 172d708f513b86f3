--------------------------- MODULE ProofExecution ---------------------------
(***************************************************************************)
(* proof.report (native_proof.rs): one invocation runs one proof command   *)
(* for one logical effect and keeps what it saw in files beside run.json.  *)
(* Any number of agent-workspace processes run the same invocation at the  *)
(* same time, the checkout changes under them, and any of them may die at  *)
(* any instruction, inside the creation of a file included.  No lock is    *)
(* taken: the create_new of the attempt store is the only arbiter.         *)
(***************************************************************************)
EXTENDS AttemptStore, Naturals

CONSTANTS
    Procs,      \* running instances of the program
    Subjects,   \* states of the source a proof is about
    Statuses,   \* what a command's process reports
    SubjectOf,  \* the subject each effect's invocation is bound to
    RepeatOf,   \* the effect an effect repeats, or None
    Reported,   \* effects that record a caller's report and launch nothing
    None        \* no effect

ASSUME ProofAssumption ==
    /\ Statuses # {}
    /\ Outcomes = [process : Statuses, current : BOOLEAN, admitted : BOOLEAN]
    /\ SubjectOf \in [Effects -> Subjects]
    /\ RepeatOf \in [Effects -> Effects \cup {None}]
    /\ Reported \subseteq Effects
    /\ \A e \in Reported : RepeatOf[e] = None
    /\ None \notin Effects

(* The files of a run directory that this owner creates, in their order.   *)
Carriers == {"run", "command", "assessment", "completed"}

VARIABLES
    carrier,     \* carrier[e][f]: "absent", "torn" or "whole"
    subject,     \* the present state of the source
    allowed,     \* whether the current decision admits proof work at all
    ownership,   \* publication index: "clear", "unowned" or "pending"
    pc, work, old, note,  \* each process: next step, effect, what it found,
                          \* and what it has observed of the command so far
    launches,    \* history: how often each effect's command was started
    replies      \* history: <<effect, outcome>> pairs callers were given

files == <<attempts, results, carrier>>
world == <<subject, allowed, ownership>>
procs == <<pc, work, old, note>>
vars == <<files, world, procs, launches, replies>>

PCs == {"idle", "examine", "admit", "retain", "revalidate", "recheck",
        "launch", "finish", "assess", "compare", "commit", "complete"}

Blank == CHOOSE o \in Outcomes : TRUE

FilesTypeOK ==
    /\ StoreTypeOK
    /\ carrier \in [Effects -> [Carriers -> {"absent", "torn", "whole"}]]

WorldTypeOK ==
    /\ subject \in Subjects
    /\ allowed \in BOOLEAN
    /\ ownership \in {"clear", "unowned", "pending"}

ProcsTypeOK ==
    /\ pc \in [Procs -> PCs]
    /\ work \in [Procs -> Effects \cup {None}]
    /\ \A p \in Procs : pc[p] = "idle" <=> work[p] = None
    /\ old \in [Procs -> {"none", "run", "completed"}]
    /\ note \in [Procs -> Outcomes]

(* The types of the variables.                                             *)
TypeOK ==
    /\ FilesTypeOK
    /\ WorldTypeOK
    /\ ProcsTypeOK
    /\ launches \in [Effects -> Nat]
    /\ replies \subseteq Effects \X Outcomes

Init ==
    /\ StoreInit
    /\ carrier = [e \in Effects |-> [f \in Carriers |-> "absent"]]
    /\ subject \in Subjects
    /\ allowed = TRUE
    /\ ownership = "clear"
    /\ pc = [p \in Procs |-> "idle"]
    /\ work = [p \in Procs |-> None]
    /\ old = [p \in Procs |-> "none"]
    /\ note = [p \in Procs |-> Blank]
    /\ launches = [e \in Effects |-> 0]
    /\ replies = {}

-----------------------------------------------------------------------------
(* What the files and the world offer.                                     *)

Retained(e) == carrier[e]["run"] = "whole" /\ carrier[e]["completed"] # "torn"

Completed(e) == carrier[e]["run"] = "whole" /\ carrier[e]["completed"] = "whole"

(* The exact committed custody a repeat has to name.                       *)
Terminal(e) == Completed(e) /\ Committed(e)

(* An unowned publication index withholds proof.report from everybody but  *)
(* an invocation that already has its run; a pending disposition withholds *)
(* it from that one too.                                                   *)
OwnershipOpen(e) ==
    \/ ownership = "clear"
    \/ ownership = "unowned" /\ Retained(e)

(* Mutant: a repeat is offered on a committed result, finished or not.     *)
OfferedOnResult(e) ==
    /\ allowed
    /\ subject = SubjectOf[e]
    /\ OwnershipOpen(e)
    /\ RepeatOf[e] # None => Committed(RepeatOf[e])

(* resolve followed by admit_invocation_value: the current decision still  *)
(* contains this exact action.                                             *)
Offered(e) ==
    /\ allowed
    /\ subject = SubjectOf[e]
    /\ OwnershipOpen(e)
    /\ RepeatOf[e] # None => Terminal(RepeatOf[e])

PreparationReady == ownership = "clear"

-----------------------------------------------------------------------------
(* The steps of one process.                                               *)

At(p, label) == pc[p] = label
Goto(p, label) == pc' = [pc EXCEPT ![p] = label]

(* Mutant: a process that returns does not forget its effect.              *)
LeaveHolding(p) ==
    /\ Goto(p, "idle")
    /\ old' = [old EXCEPT ![p] = "none"]
    /\ note' = [note EXCEPT ![p] = Blank]
    /\ UNCHANGED work

Leave(p) ==
    /\ Goto(p, "idle")
    /\ work' = [work EXCEPT ![p] = None]
    /\ old' = [old EXCEPT ![p] = "none"]
    /\ note' = [note EXCEPT ![p] = Blank]

(* Every early return with an error; what was written stays.               *)
Fail(p) == Leave(p) /\ UNCHANGED <<files, launches, replies>>

Enter(p, e) ==
    /\ At(p, "idle")
    /\ Offered(e)
    /\ Goto(p, "examine")
    /\ work' = [work EXCEPT ![p] = e]
    /\ UNCHANGED <<files, world, old, note, launches, replies>>

Found(e) ==
    CASE carrier[e]["run"] = "absent" -> "none"
      [] Completed(e) -> "completed"
      [] OTHER -> "run"

(* A torn carrier is preserved and refused; without a run, publication     *)
(* must be ready and no completion may be there.                           *)
CanExamine(e) ==
    IF carrier[e]["run"] = "absent"
    THEN PreparationReady /\ carrier[e]["completed"] = "absent"
    ELSE Retained(e)

Examine(p) ==
    /\ At(p, "examine")
    /\ UNCHANGED world
    /\ \/ /\ CanExamine(work[p])
          /\ Goto(p, "admit")
          /\ old' = [old EXCEPT ![p] = Found(work[p])]
          /\ UNCHANGED <<files, work, note, launches, replies>>
       \/ ~CanExamine(work[p]) /\ Fail(p)

(* Mutant: the run is not retained before the command.                     *)
AdmitAndRevalidate(p) ==
    /\ At(p, "admit") /\ old[p] = "none"
    /\ UNCHANGED world
    /\ \/ /\ Admit(work[p])
          /\ Goto(p, "revalidate")
          /\ UNCHANGED <<carrier, work, old, note, launches, replies>>
       \/ ~CanAdmit(work[p]) /\ Fail(p)

AdmitNew(p) ==
    /\ At(p, "admit") /\ old[p] = "none"
    /\ UNCHANGED world
    /\ \/ /\ Admit(work[p])
          /\ Goto(p, "retain")
          /\ UNCHANGED <<carrier, work, old, note, launches, replies>>
       \/ ~CanAdmit(work[p]) /\ Fail(p)

(* Mutant: a replay judges the subject afresh.                             *)
ReplayReassessed(p) ==
    /\ At(p, "admit") /\ old[p] = "completed"
    /\ UNCHANGED world
    /\ \/ /\ Committed(work[p])
          /\ Leave(p)
          /\ replies' = replies \cup
                {<<work[p], [results[work[p]] EXCEPT !.current = subject = SubjectOf[work[p]]]>>}
          /\ UNCHANGED <<files, launches>>
       \/ ~Committed(work[p]) /\ Fail(p)

(* A completed run replays the committed outcome and does nothing else.    *)
Replay(p) ==
    /\ At(p, "admit") /\ old[p] = "completed"
    /\ UNCHANGED world
    /\ \/ /\ Committed(work[p])
          /\ Leave(p)
          /\ replies' = replies \cup {<<work[p], results[work[p]]>>}
          /\ UNCHANGED <<files, launches>>
       \/ ~Committed(work[p]) /\ Fail(p)

(* Mutant: an execution without a completion is run again.                 *)
RunAgain(p) ==
    /\ At(p, "admit") /\ old[p] = "run"
    /\ Goto(p, "revalidate")
    /\ UNCHANGED <<files, world, work, old, note, launches, replies>>

(* An admission without a completion: proof-execution-uncertain.           *)
Uncertain(p) ==
    /\ At(p, "admit") /\ old[p] = "run"
    /\ Fail(p)
    /\ UNCHANGED world

(* create_new of one carrier.                                              *)
Create(e, f) ==
    /\ carrier[e][f] = "absent"
    /\ carrier' = [carrier EXCEPT ![e][f] = "whole"]

Retain(p) ==
    /\ At(p, "retain")
    /\ UNCHANGED world
    /\ \/ /\ Create(work[p], "run")
          /\ Goto(p, "revalidate")
          /\ UNCHANGED <<storeVars, work, old, note, launches, replies>>
       \/ carrier[work[p]]["run"] # "absent" /\ Fail(p)

Revalidate(p) ==
    /\ At(p, "revalidate")
    /\ UNCHANGED world
    /\ \/ /\ Offered(work[p])
          /\ Goto(p, "recheck")
          /\ UNCHANGED <<files, work, old, note, launches, replies>>
       \/ ~Offered(work[p]) /\ Fail(p)

(* Mutant: the owner waits until publication is ready.                     *)
RecheckWaiting(p) ==
    /\ At(p, "recheck")
    /\ PreparationReady
    /\ Goto(p, "launch")
    /\ UNCHANGED <<files, world, work, old, note, launches, replies>>

(* The admission just written exempted the invocation from the ownership   *)
(* rule, so readiness is asked again before anything runs.                 *)
Recheck(p) ==
    /\ At(p, "recheck")
    /\ UNCHANGED world
    /\ \/ /\ PreparationReady
          /\ Goto(p, "launch")
          /\ UNCHANGED <<files, work, old, note, launches, replies>>
       \/ ~PreparationReady /\ Fail(p)

Started(e) == IF e \in Reported THEN 0 ELSE 1

Launch(p) ==
    /\ At(p, "launch")
    /\ Goto(p, "finish")
    /\ launches' = [launches EXCEPT ![work[p]] = @ + Started(work[p])]
    /\ UNCHANGED <<files, world, work, old, note, replies>>

(* The command returns a status, or could not be run or awaited.           *)
Finish(p) ==
    /\ At(p, "finish")
    /\ UNCHANGED world
    /\ \/ /\ Create(work[p], "command")
          /\ \E s \in Statuses : note' = [note EXCEPT ![p].process = s]
          /\ Goto(p, "assess")
          /\ UNCHANGED <<storeVars, work, old, launches, replies>>
       \/ Fail(p)

(* After the command nothing is fatal: a lost admission and a changed      *)
(* subject are recorded in the assessment.                                 *)
Assess(p) ==
    /\ At(p, "assess")
    /\ Goto(p, "compare")
    /\ note' = [note EXCEPT ![p].admitted = Offered(work[p])]
    /\ UNCHANGED <<files, world, work, old, launches, replies>>

Reusable(e) == e \notin Reported /\ subject = SubjectOf[e]

Compare(p) ==
    /\ At(p, "compare")
    /\ UNCHANGED world
    /\ \/ /\ Create(work[p], "assessment")
          /\ Goto(p, "commit")
          /\ note' = [note EXCEPT ![p].current = Reusable(work[p])]
          /\ UNCHANGED <<storeVars, work, old, launches, replies>>
       \/ carrier[work[p]]["assessment"] # "absent" /\ Fail(p)

CommitOutcome(p) ==
    /\ At(p, "commit")
    /\ UNCHANGED world
    /\ \/ /\ Commit(work[p], note[p])
          /\ Goto(p, "complete")
          /\ UNCHANGED <<carrier, work, old, note, launches, replies>>
       \/ ~CanCommit(work[p]) /\ Fail(p)

(* The answer is the record the commit returned, which holds the note.     *)
Complete(p) ==
    /\ At(p, "complete")
    /\ UNCHANGED world
    /\ \/ /\ Create(work[p], "completed")
          /\ Leave(p)
          /\ replies' = replies \cup {<<work[p], note[p]>>}
          /\ UNCHANGED <<storeVars, launches>>
       \/ carrier[work[p]]["completed"] # "absent" /\ Fail(p)

-----------------------------------------------------------------------------
(* A process may die anywhere, and inside a creation it leaves a torn file. *)

Writing(p) ==
    CASE pc[p] = "retain" -> "run"
      [] pc[p] = "finish" -> "command"
      [] pc[p] = "compare" -> "assessment"
      [] pc[p] = "complete" -> "completed"
      [] OTHER -> "nothing"

Crash(p) == ~At(p, "idle") /\ Fail(p) /\ UNCHANGED world

CrashCreating(p) ==
    /\ Writing(p) \in Carriers
    /\ carrier[work[p]][Writing(p)] = "absent"
    /\ carrier' = [carrier EXCEPT ![work[p]][Writing(p)] = "torn"]
    /\ Leave(p)
    /\ UNCHANGED <<storeVars, world, launches, replies>>

CrashInStore(p) ==
    /\ \/ At(p, "admit") /\ old[p] = "none" /\ TearAttempt(work[p])
       \/ At(p, "commit") /\ TearResult(work[p])
    /\ Leave(p)
    /\ UNCHANGED <<carrier, world, launches, replies>>

(* The checkout, its configuration and the publication index belong to     *)
(* others: agents edit sources, decisions change, retirements come and go. *)
World ==
    /\ \/ subject' \in Subjects \ {subject} /\ UNCHANGED <<allowed, ownership>>
       \/ allowed' = ~allowed /\ UNCHANGED <<subject, ownership>>
       \/ /\ ownership' \in {"clear", "unowned", "pending"} \ {ownership}
          /\ UNCHANGED <<subject, allowed>>
    /\ UNCHANGED <<files, procs, launches, replies>>

(* One step of an invocation under way.                                    *)
Proceed(p) ==
    \/ Examine(p)
    \/ AdmitNew(p)
    \/ Replay(p)
    \/ Uncertain(p)
    \/ Retain(p)
    \/ Revalidate(p)
    \/ Recheck(p)
    \/ Launch(p)
    \/ Finish(p)
    \/ Assess(p)
    \/ Compare(p)
    \/ CommitOutcome(p)
    \/ Complete(p)

Die(p) == Crash(p) \/ CrashCreating(p) \/ CrashInStore(p)

Next ==
    \/ World
    \/ \E p \in Procs : Proceed(p) \/ Die(p) \/ \E e \in Effects : Enter(p, e)

Spec == Init /\ [][Next]_vars

(* A process that was started goes on: every command has a time limit of   *)
(* at most 1200 s, and no step waits for another process.                  *)
FairSpec == Spec /\ \A p \in Procs : WF_vars(Proceed(p))

-----------------------------------------------------------------------------
(* However many processes run the invocation, whatever they find of each   *)
(* other's files and wherever they die, the command of a logical effect is *)
(* started at most once: "do not replay the possibly non-idempotent        *)
(* command" (execute, native_proof.rs).                                    *)
AtMostOneLaunch == \A e \in Effects : launches[e] <= 1

(* A committed outcome always has the files it cites, a completion always  *)
(* names a committed outcome, and a command never runs without a retained  *)
(* run that tells the next process about it.                               *)
EvidenceComplete ==
    \A e \in Effects :
        /\ results[e] # Absent =>
              \A f \in {"run", "command", "assessment"} : carrier[e][f] = "whole"
        /\ carrier[e]["completed"] # "absent" => Committed(e)
        /\ launches[e] > 0 => carrier[e]["run"] = "whole"

(* A repeat names one finished execution: it is never admitted while the   *)
(* execution it repeats is running, abandoned or uncommitted, so a chain   *)
(* of repeats never has two commands under way (select, native_proof.rs).  *)
RepeatAfterTerminal ==
    \A e \in Effects :
        attempts[e] # Absent /\ RepeatOf[e] # None => Terminal(RepeatOf[e])

(* Nobody works on e any more and it was not settled.                      *)
Abandoned(e) ==
    /\ attempts[e] # Absent
    /\ ~Terminal(e)
    /\ \A p \in Procs : work[p] # e \/ pc[p] \in {"examine", "admit"}

(* An execution nobody finished is never taken up again: no later process  *)
(* starts its command, commits an outcome for it or answers from it.       *)
AbandonedStaysAbandoned ==
    [][\A e \in Effects : Abandoned(e) =>
          /\ Abandoned(e)'
          /\ launches'[e] = launches[e]
          /\ results'[e] = results[e]
          /\ \A o \in Outcomes : <<e, o>> \in replies' => <<e, o>> \in replies]_vars

(* Every admission is decided: it ends with a committed and completed      *)
(* outcome or is left for good, whatever the world does meanwhile; no step *)
(* waits for a condition that others control.                              *)
EveryAdmissionDecided ==
    \A e \in Effects : attempts[e] = Admitted ~> Terminal(e) \/ Abandoned(e)

-----------------------------------------------------------------------------
(* The execution as the abstract store sees it.                            *)
Once == INSTANCE EffectOnce WITH
    begun <- {e \in Effects : attempts[e] # Absent},
    performed <- {e \in Effects : launches[e] > 0},
    settled <- {<<e, results[e]>> : e \in {x \in Effects : results[x] \in Outcomes}},
    answered <- replies

(* The owner implements the store's promise: one launch, before the one    *)
(* outcome, and every reply, replays included, is that outcome.            *)
ImplementsEffectOnce == Once!OnceSpec
=============================================================================
