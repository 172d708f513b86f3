----------------------------- MODULE Delegation -----------------------------
(***************************************************************************)
(* Dispatch of a sealed assignment to a worker process                     *)
(* (native_delegation.rs).  A dispatch is one logical effect: the attempt  *)
(* is admitted, the run retained, the worker launched, and what it         *)
(* returned is written down with the exact result to come before that      *)
(* result is committed.  The worker itself is outside; no lock is taken.   *)
(***************************************************************************)
EXTENDS AttemptStore

CONSTANTS
    Procs,          \* processes of the native core
    Dispatches,     \* sealed assignments that can be dispatched
    Prior,          \* Prior[d]: the dispatch whose result d replaces, or None
    Files,          \* the concrete mutation paths
    None            \* nobody, nothing

ASSUME DelegationAssumption ==
    /\ Dispatches \subseteq Effects
    /\ {"returned", "censored"} \subseteq Outcomes
    /\ None \notin Dispatches \cup Procs
    /\ Prior \in [Dispatches -> Dispatches \cup {None}]

VARIABLES
    runs,           \* runs[d]: Absent, Torn or Admitted (invocation and custody)
    terminals,      \* terminals[d]: Absent, Torn or the outcome about to be committed
    completions,    \* completions[d]: Absent, Torn or Admitted (committed custody)
    files,          \* files[f]: what the checkout holds
    assigned,       \* dispatches whose assignment is the current one
    pc,             \* where each process is
    job,            \* its effect
    note,           \* what it has observed and still uses
    launched,       \* history: launched[d]: how often its worker was started (up to 2)
    answered        \* history: <<dispatch, outcome>> given to callers

runVars == <<runs, terminals, completions>>
historyVars == <<launched, answered>>
dispatchVars == <<attempts, results, runVars, files, assigned, pc, job, note, historyVars>>

(* What matters of a file: the region a worker changes, and the rest.      *)
Captured == [own |-> "before", rest |-> 0]

DelegationInit ==
    /\ StoreInit
    /\ runs = [d \in Dispatches |-> Absent]
    /\ terminals = [d \in Dispatches |-> Absent]
    /\ completions = [d \in Dispatches |-> Absent]
    /\ files = [f \in Files |-> Captured]
    /\ assigned = Dispatches
    /\ pc = [p \in Procs |-> "idle"]
    /\ job = [p \in Procs |-> None]
    /\ note = [p \in Procs |-> None]
    /\ launched = [d \in Dispatches |-> 0] /\ answered = {}

-----------------------------------------------------------------------------
(* Mutant: a replacement does not ask what became of the original.         *)
OriginalAssumed(d) == TRUE

(* A replacement request holds the committed custody of the original: one  *)
(* that is missing, in flight or unreadable authorises nothing.            *)
OriginalSettled(d) == Prior[d] # None => Committed(Prior[d])

(* The packet is made again from the checkout: the assignment is current   *)
(* and the captured inputs are what they were.                             *)
Dispatchable(d) ==
    /\ d \in assigned
    /\ OriginalSettled(d)
    /\ \A f \in Files : files[f] = Captured

(* After the worker the captured baseline of the packet stands in for the  *)
(* files it may change.                                                    *)
StillAssigned(d) == d \in assigned /\ OriginalSettled(d)

-----------------------------------------------------------------------------
At(p, step) == pc[p] = step

Go(p, step) ==
    /\ pc' = [pc EXCEPT ![p] = step]
    /\ UNCHANGED job

Stop(p) ==
    /\ pc' = [pc EXCEPT ![p] = "idle"]
    /\ job' = [job EXCEPT ![p] = None]
    /\ note' = [note EXCEPT ![p] = None]

Answer(p, o) == answered' = answered \cup {<<job[p], o>>}

EnterDispatch(p, d) ==
    /\ At(p, "idle")
    /\ Dispatchable(d)
    /\ pc' = [pc EXCEPT ![p] = "examine"]
    /\ job' = [job EXCEPT ![p] = d]
    /\ UNCHANGED <<attempts, results, runVars, files, assigned, note, historyVars>>

(* Mutant: a terminal is legible only while its result is not there.       *)
RunLegibleUncommitted(d) ==
    /\ runs[d] # Torn /\ completions[d] # Torn
    /\ runs[d] = Absent => completions[d] = Absent /\ terminals[d] = Absent
    /\ completions[d] = Absent /\ terminals[d] # Absent =>
          terminals[d] # Torn /\ CanPrepare(d, terminals[d]) /\ results[d] = Absent

(* A completion or a terminal without its run is nobody's; a terminal must *)
(* bind the result that is there, if one is.                               *)
RunLegible(d) ==
    /\ runs[d] # Torn /\ completions[d] # Torn
    /\ runs[d] = Absent => completions[d] = Absent /\ terminals[d] = Absent
    /\ runs[d] = Admitted /\ completions[d] = Absent /\ terminals[d] # Absent =>
          terminals[d] # Torn /\ CanPrepare(d, terminals[d])

(* Mutant: a run without a terminal is launched again.                     *)
FoundRelaunching(d) ==
    CASE completions[d] = Admitted -> "replay"
      [] completions[d] # Admitted /\ terminals[d] # Absent -> "recover"
      [] OTHER -> IF attempts[d] = Admitted THEN "revalidate" ELSE "admit"

(* Where an invocation that finds these files goes on.                     *)
Found(d) ==
    CASE completions[d] = Admitted -> "replay"
      [] completions[d] # Admitted /\ terminals[d] # Absent -> "recover"
      [] OTHER -> "admit"

Examine(p) ==
    /\ At(p, "examine") /\ RunLegible(job[p])
    /\ Go(p, Found(job[p]))
    /\ UNCHANGED <<attempts, results, runVars, files, assigned, note, historyVars>>

(* Recovery of a finished worker: admitted again, then the result that the *)
(* terminal binds is committed if it is not there.                         *)
Recover(p) ==
    /\ At(p, "recover") /\ Dispatchable(job[p])
    /\ Go(p, IF results[job[p]] = Absent THEN "recommit" ELSE "complete")
    /\ UNCHANGED <<attempts, results, runVars, files, assigned, note, historyVars>>

Recommit(p) ==
    /\ At(p, "recommit")
    /\ Commit(job[p], terminals[job[p]])
    /\ Go(p, "complete")
    /\ UNCHANGED <<runVars, files, assigned, note, historyVars>>

(* Admission without custody; with the custody of a run that has no result *)
(* it is uncertain and nothing starts.                                     *)
AdmitNew(p) ==
    /\ At(p, "admit") /\ runs[job[p]] = Absent
    /\ Admit(job[p])
    /\ Go(p, "retain")
    /\ UNCHANGED <<runVars, files, assigned, note, historyVars>>

Retain(p) ==
    /\ At(p, "retain") /\ runs[job[p]] = Absent
    /\ runs' = [runs EXCEPT ![job[p]] = Admitted]
    /\ Go(p, "revalidate")
    /\ UNCHANGED <<attempts, results, terminals, completions, files, assigned, note, historyVars>>

Revalidate(p) ==
    /\ At(p, "revalidate") /\ Dispatchable(job[p])
    /\ Go(p, "launch")
    /\ UNCHANGED <<attempts, results, runVars, files, assigned, note, historyVars>>

Launch(p) ==
    /\ At(p, "launch")
    /\ launched' = [launched EXCEPT ![job[p]] = IF @ = 0 THEN 1 ELSE 2]
    /\ Go(p, "working")
    /\ UNCHANGED <<attempts, results, runVars, files, assigned, note, answered>>

(* A return is accepted when the process passed, the material is valid and *)
(* the assignment is still current; everything else is censored.           *)
Accepted(p, o) == o = "returned" => StillAssigned(job[p])

(* The worker ends, or is ended by its deadline.                           *)
Return(p, o) ==
    /\ At(p, "working") /\ Accepted(p, o)
    /\ CanPrepare(job[p], o)
    /\ note' = [note EXCEPT ![p] = o]
    /\ Go(p, "terminal")
    /\ UNCHANGED <<attempts, results, runVars, files, assigned, historyVars>>

WriteTerminal(p) ==
    /\ At(p, "terminal") /\ terminals[job[p]] = Absent
    /\ terminals' = [terminals EXCEPT ![job[p]] = note[p]]
    /\ Go(p, "commit")
    /\ UNCHANGED <<attempts, results, runs, completions, files, assigned, note, historyVars>>

CommitReturn(p) ==
    /\ At(p, "commit")
    /\ Commit(job[p], note[p])
    /\ Go(p, "complete")
    /\ UNCHANGED <<runVars, files, assigned, note, historyVars>>

(* Whoever committed, or found the result committed, writes the completion.*)
Complete(p) ==
    /\ At(p, "complete") /\ Committed(job[p]) /\ completions[job[p]] = Absent
    /\ completions' = [completions EXCEPT ![job[p]] = Admitted]
    /\ Go(p, "replay")
    /\ UNCHANGED <<attempts, results, runs, terminals, files, assigned, note, historyVars>>

(* Admission with committed custody answers with the result.               *)
Replay(p) ==
    /\ At(p, "replay") /\ Committed(job[p])
    /\ Answer(p, results[job[p]])
    /\ Stop(p)
    /\ UNCHANGED <<attempts, results, runVars, files, assigned, launched>>

(* Every check that fails is an error return.  A process that cannot be    *)
(* spawned or read is one too.                                             *)
MayDispatch(p) ==
    LET d == job[p] IN
    CASE At(p, "examine") -> RunLegible(d)
      [] At(p, "recover") -> Dispatchable(d) /\ results[d] # Torn
      [] At(p, "recommit") -> CanCommit(d)
      [] At(p, "admit") -> runs[d] = Absent /\ CanAdmit(d)
      [] At(p, "retain") -> runs[d] = Absent
      [] At(p, "revalidate") -> Dispatchable(d)
      [] At(p, "terminal") -> terminals[d] = Absent
      [] At(p, "commit") -> CanCommit(d)
      [] At(p, "complete") -> Committed(d) /\ completions[d] = Absent
      [] At(p, "replay") -> Committed(d)
      [] OTHER -> FALSE

Dispatching(p) ==
    pc[p] \in {"examine", "recover", "recommit", "admit", "retain", "revalidate",
               "launch", "working", "terminal", "commit", "complete", "replay"}

RefuseDispatch(p) ==
    /\ Dispatching(p)
    /\ At(p, "launch") \/ At(p, "working") \/ ~MayDispatch(p)
    /\ Stop(p)
    /\ UNCHANGED <<attempts, results, runVars, files, assigned, historyVars>>

-----------------------------------------------------------------------------
(* A process dies, possibly inside the file it is creating.  Its worker is *)
(* of no further interest: nobody reads what it writes.                    *)
TearDispatch(p) ==
    LET d == job[p] IN
    \/ /\ At(p, "admit") /\ runs[d] = Absent /\ TearAttempt(d)
       /\ UNCHANGED runVars
    \/ /\ At(p, "retain") /\ runs[d] = Absent
       /\ runs' = [runs EXCEPT ![d] = Torn]
       /\ UNCHANGED <<attempts, results, terminals, completions>>
    \/ /\ At(p, "terminal") /\ terminals[d] = Absent
       /\ terminals' = [terminals EXCEPT ![d] = Torn]
       /\ UNCHANGED <<attempts, results, runs, completions>>
    \/ /\ pc[p] \in {"commit", "recommit"} /\ TearResult(d)
       /\ UNCHANGED runVars
    \/ /\ At(p, "complete") /\ Committed(d) /\ completions[d] = Absent
       /\ completions' = [completions EXCEPT ![d] = Torn]
       /\ UNCHANGED <<attempts, results, runs, terminals>>

DispatchStep(p) ==
    \/ \E d \in Dispatches : EnterDispatch(p, d)
    \/ Examine(p) \/ Recover(p) \/ Recommit(p)
    \/ AdmitNew(p) \/ Retain(p) \/ Revalidate(p) \/ Launch(p)
    \/ \E o \in {"returned", "censored"} : Return(p, o)
    \/ WriteTerminal(p) \/ CommitReturn(p) \/ Complete(p) \/ Replay(p)
    \/ RefuseDispatch(p)

-----------------------------------------------------------------------------
(* A dispatch is begun once, its worker started at most once, its outcome  *)
(* committed once, and every caller is told that outcome: execute, its     *)
(* terminal recovery and its replays implement the abstract attempt store. *)
Dispatched == INSTANCE EffectOnce WITH
    Effects <- Dispatches, Reported <- {},
    begun <- {d \in Dispatches : attempts[d] # Absent},
    performed <- {d \in Dispatches : launched[d] = 1},  \* a second start is no step of it
    settled <- {<<d, results[d]>> : d \in {x \in Dispatches : results[x] \in Outcomes}},
    answered <- answered

ImplementsDispatchOnce == Dispatched!OnceSpec

(* "Missing or in-flight custody cannot authorise replacement": a worker   *)
(* that replaces another is started only when the original's outcome is    *)
(* committed.                                                              *)
ReplacedAfterOutcome ==
    [][\A d \in Dispatches :
          launched'[d] # launched[d] /\ Prior[d] # None => results[Prior[d]] \in Outcomes]_dispatchVars

(* A finished worker is not lost: as long as its terminal and its run can  *)
(* be read, the next invocation that is admitted is not refused on what it *)
(* finds, whatever died after the terminal and whoever else is recovering. *)
Untorn(d) == Torn \notin {runs[d], terminals[d], completions[d], results[d]}

FinishedWorkerRecoverable ==
    \A d \in Dispatches :
        Untorn(d) /\ terminals[d] # Absent =>
            /\ RunLegible(d)
            /\ Found(d) \in {"recover", "replay"}
            /\ results[d] \in {Absent, terminals[d]}
=============================================================================
