-------------------------- MODULE PatchIntegration --------------------------
(***************************************************************************)
(* Integration of the patch a dispatched worker returned (native_patch.rs):*)
(* a proposal computed from the sealed baseline and the files as they are  *)
(* is published file by file under the checkout-wide lock, and resumed     *)
(* from its marker.  Editors take no lock; the last comparison of a file   *)
(* and the rename that replaces it are two calls.                          *)
(***************************************************************************)
EXTENDS Delegation, Naturals, FiniteSets

CONSTANTS
    Done,           \* the outcome of an integration, determined by its proposal
    MaxEdits,       \* bound: edits by others
    MaxChanges,     \* bound: changes of the assignment
    MaxCrashes,     \* bound: deaths
    Tearing         \* may a process die inside the creation of a file?

ASSUME PatchAssumption ==
    /\ Done \in Outcomes \ {"returned", "censored"}
    /\ MaxEdits \in Nat /\ MaxChanges \in Nat /\ MaxCrashes \in Nat
    /\ Tearing \in BOOLEAN

VARIABLES
    marker,     \* marker[i]: Absent, Torn or Admitted (proposal, custody, outcome)
    temps,      \* <<i, f>>: whole temporaries of proposal i beside file f
    torn,       \* <<i, f>>: temporaries that are not whole
    lock,       \* holder of patch-integration.lock, or None
    target,     \* the file a process is publishing
    merged,     \* files a process has found or made to be the postimage
    window,     \* processes whose files moved after their last comparison
    overtaken,  \* processes whose assignment changed after they last looked at it
    edits, changes, crashes

patchFiles == <<marker, temps, torn>>
boundVars == <<edits, changes, crashes>>
vars == <<dispatchVars, patchFiles, lock, target, merged, window, overtaken, boundVars>>

(* A worker's region holds the captured text, the text of one worker, or   *)
(* something else.                                                         *)
Regions == {"before", "other"} \cup Dispatches
Contents == [own : Regions, rest : 0 .. MaxEdits]

(* merge: the worker's region is replaced, everything else kept; a region  *)
(* that neither is the captured one nor already the worker's conflicts.    *)
Mergeable(d, c) == c.own \in {"before", d}
Merged(d, c) == [c EXCEPT !.own = d]

(* An integration: the delta of a committed dispatch on given preimages.   *)
Integration(d, before) == [of |-> d, before |-> before]
Integrations ==
    UNION {{Integration(d, b) : b \in [Files -> {c \in Contents : Mergeable(d, c)}]}
           : d \in Dispatches}

(* The logical effect of an integration is another operation's, and a      *)
(* dispatch is named by a digest.                                          *)
ASSUME IntegrationAssumption ==
    /\ Integrations \subseteq Effects \ Dispatches
    /\ {"before", "other"} \cap Dispatches = {}

Init ==
    /\ DelegationInit
    /\ marker = [i \in Integrations |-> Absent]
    /\ temps = {} /\ torn = {}
    /\ lock = None
    /\ target = [p \in Procs |-> None]
    /\ merged = [p \in Procs |-> {}]
    /\ window = {} /\ overtaken = {}
    /\ edits = 0 /\ changes = 0 /\ crashes = 0

-----------------------------------------------------------------------------
After(i, f) == Merged(i.of, i.before[f])

(* Mutant: a committed return is used whatever is assigned by now.         *)
UsableUnassigned(d) == Committed(d) /\ results[d] = "returned"

(* Read-result and use-result: only the committed return of the current    *)
(* assignment may be used.                                                 *)
Usable(d) == d \in assigned /\ Committed(d) /\ results[d] = "returned"

(* retained: the marker must be readable and its result, if there, its own.*)
Held(i) == marker[i] = Admitted
MarkerLegible(i) == marker[i] # Torn /\ (Held(i) => CanPrepare(i, Done))

(* The preimage of a proposal is the file as it is; while it is retained   *)
(* the file may also be its postimage, and must be once it is committed.   *)
PreimageCurrent(i, f) ==
    IF Held(i)
    THEN /\ files[f] \in {i.before[f], After(i, f)}
         /\ results[i] = Done => files[f] = After(i, f)
    ELSE files[f] = i.before[f]

(* What view offers for exactly this proposal.                             *)
Proposed(i) ==
    /\ Usable(i.of)
    /\ MarkerLegible(i)
    /\ \A f \in Files : Mergeable(i.of, files[f]) /\ PreimageCurrent(i, f)

-----------------------------------------------------------------------------
Keep(p) == UNCHANGED <<lock, target, merged, window, overtaken>>

Leave(p) ==
    /\ Stop(p)
    /\ lock' = IF lock = p THEN None ELSE lock
    /\ target' = [target EXCEPT ![p] = None]
    /\ merged' = [merged EXCEPT ![p] = {}]
    /\ window' = window \ {p} /\ overtaken' = overtaken \ {p}

dispatchRest == <<runVars, files, assigned, note, historyVars>>

(* A resumption names the proposal it found in the marker, any other the   *)
(* one that was made for the files as they are.                            *)
EnterIntegration(p, i) ==
    /\ At(p, "idle")
    /\ Proposed(i)
    /\ pc' = [pc EXCEPT ![p] = "p-lock"]
    /\ job' = [job EXCEPT ![p] = i]
    /\ Keep(p)
    /\ UNCHANGED <<attempts, results, dispatchRest, patchFiles>>

(* The lock does not wait; the proposal is made again under it.            *)
Lock(p) ==
    /\ At(p, "p-lock") /\ lock = None /\ Proposed(job[p])
    /\ lock' = p
    /\ Go(p, IF Held(job[p]) /\ Committed(job[p]) THEN "p-answer"
             ELSE IF Held(job[p]) THEN "p-next" ELSE "p-admit")
    /\ note' = [note EXCEPT ![p] = IF Held(job[p]) THEN "resumed" ELSE "new"]
    /\ UNCHANGED <<attempts, results, runVars, files, assigned, historyVars,
                   patchFiles, target, merged, window, overtaken>>

AdmitIntegration(p) ==
    /\ At(p, "p-admit")
    /\ Admit(job[p])
    /\ Go(p, "p-mark")
    /\ Keep(p)
    /\ UNCHANGED <<dispatchRest, patchFiles>>

Mark(p) ==
    /\ At(p, "p-mark") /\ marker[job[p]] = Absent
    /\ marker' = [marker EXCEPT ![job[p]] = Admitted]
    /\ Go(p, "p-next")
    /\ Keep(p)
    /\ UNCHANGED <<attempts, results, dispatchRest, temps, torn>>

(* The next file: already the postimage, or still the exact preimage, with *)
(* a temporary that is created, or found whole by a resumption.            *)
Skip(p, f) ==
    /\ At(p, "p-next") /\ f \notin merged[p] /\ files[f] = After(job[p], f)
    /\ merged' = [merged EXCEPT ![p] = @ \cup {f}]
    /\ UNCHANGED <<attempts, results, dispatchRest, pc, job, patchFiles, lock, target, window, overtaken>>

(* Mutant: a temporary that is there is never taken over.                  *)
TemporaryRefused(i, f, resumed) == <<i, f>> \notin torn \cup temps

TemporaryAccepted(i, f, resumed) ==
    /\ <<i, f>> \notin torn
    /\ <<i, f>> \in temps => resumed

CanStage(p, f) ==
    /\ files[f] = job[p].before[f]
    /\ TemporaryAccepted(job[p], f, note[p] = "resumed")

Stage(p, f) ==
    /\ At(p, "p-next") /\ f \notin merged[p]
    /\ files[f] # After(job[p], f) /\ CanStage(p, f)
    /\ temps' = temps \cup {<<job[p], f>>}
    /\ target' = [target EXCEPT ![p] = f]
    /\ Go(p, "p-compare")
    /\ UNCHANGED <<attempts, results, dispatchRest, marker, torn, lock, merged, window, overtaken>>

(* The proposal is made again and the file compared, before it is replaced.*)
Compare(p) ==
    /\ At(p, "p-compare") /\ Proposed(job[p])
    /\ files[target[p]] = job[p].before[target[p]]
    /\ Go(p, "p-rename")
    /\ Keep(p)
    /\ UNCHANGED <<attempts, results, dispatchRest, patchFiles>>

Rename(p) ==
    /\ At(p, "p-rename")
    /\ files' = [files EXCEPT ![target[p]] = After(job[p], target[p])]
    /\ temps' = temps \ {<<job[p], target[p]>>}
    /\ merged' = [merged EXCEPT ![p] = @ \cup {target[p]}]
    /\ target' = [target EXCEPT ![p] = None]
    /\ window' = window \ {p} /\ overtaken' = overtaken \ {p}
    /\ Go(p, "p-next")
    /\ UNCHANGED <<attempts, results, runVars, assigned, note, historyVars, marker, torn, lock>>

(* Mutant: the files are not read back before the result is committed.     *)
FinalCheckSkipped(p) == TRUE

(* All of them at once, after the last rename.                             *)
FinalCheck(p) ==
    Proposed(job[p]) /\ \A f \in Files : files[f] = After(job[p], f)

Verify(p) ==
    /\ At(p, "p-next") /\ merged[p] = Files /\ FinalCheck(p)
    /\ Go(p, "p-commit")
    /\ Keep(p)
    /\ UNCHANGED <<attempts, results, dispatchRest, patchFiles>>

CommitIntegration(p) ==
    /\ At(p, "p-commit")
    /\ Commit(job[p], Done)
    /\ Leave(p)
    /\ UNCHANGED <<runVars, files, assigned, historyVars, patchFiles>>

AnswerIntegration(p) ==
    /\ At(p, "p-answer")
    /\ Leave(p)
    /\ UNCHANGED <<attempts, results, runVars, files, assigned, historyVars, patchFiles>>

MayIntegrate(p) ==
    LET i == job[p] IN
    CASE At(p, "p-lock") -> lock = None /\ Proposed(i)
      [] At(p, "p-admit") -> CanAdmit(i)
      [] At(p, "p-mark") -> marker[i] = Absent
      [] At(p, "p-next") ->
            IF merged[p] = Files THEN FinalCheck(p)
            ELSE \E f \in Files \ merged[p] : files[f] = After(i, f) \/ CanStage(p, f)
      [] At(p, "p-compare") -> Proposed(i) /\ files[target[p]] = i.before[target[p]]
      [] At(p, "p-commit") -> CanCommit(i)
      [] OTHER -> TRUE

Integrating(p) ==
    pc[p] \in {"p-lock", "p-admit", "p-mark", "p-next", "p-compare", "p-rename", "p-commit",
               "p-answer"}

RefuseIntegration(p) ==
    /\ Integrating(p) /\ ~MayIntegrate(p)
    /\ Leave(p)
    /\ UNCHANGED <<attempts, results, runVars, files, assigned, historyVars, patchFiles>>

TearIntegration(p) ==
    LET i == job[p] IN
    \/ /\ At(p, "p-admit") /\ TearAttempt(i)
       /\ UNCHANGED patchFiles
    \/ /\ At(p, "p-mark") /\ marker[i] = Absent
       /\ marker' = [marker EXCEPT ![i] = Torn]
       /\ UNCHANGED <<attempts, results, temps, torn>>
    \/ /\ At(p, "p-next")
       /\ \E f \in Files \ merged[p] :
             /\ files[f] # After(i, f) /\ CanStage(p, f) /\ <<i, f>> \notin temps
             /\ torn' = torn \cup {<<i, f>>}
       /\ UNCHANGED <<attempts, results, marker, temps>>
    \/ /\ At(p, "p-commit") /\ TearResult(i)
       /\ UNCHANGED patchFiles

IntegrationStep(p) ==
    \/ \E i \in Integrations : EnterIntegration(p, i)
    \/ Lock(p) \/ AdmitIntegration(p) \/ Mark(p)
    \/ \E f \in Files : Skip(p, f) \/ Stage(p, f)
    \/ Compare(p) \/ Rename(p) \/ Verify(p) \/ CommitIntegration(p) \/ AnswerIntegration(p)
    \/ RefuseIntegration(p)

-----------------------------------------------------------------------------
(* Everybody else: editors change a region or the rest of a file or bring  *)
(* back the captured one, and the assignment is replaced or chosen again.  *)
Exposed == {p \in Procs : pc[p] \in {"p-rename", "p-commit"}}

Edit(f, c) ==
    /\ edits < MaxEdits /\ files[f] # c
    /\ files' = [files EXCEPT ![f] = c]
    /\ edits' = edits + 1
    /\ window' = window \cup Exposed
    /\ UNCHANGED <<attempts, results, runVars, assigned, pc, job, note, historyVars,
                   patchFiles, lock, target, merged, overtaken, changes, crashes>>

(* Who works on this assignment and will not look at it again before what  *)
(* it writes next.                                                         *)
Relying(d) ==
    {p \in Procs : \/ pc[p] \in {"terminal", "commit", "recommit"} /\ job[p] = d
                   \/ pc[p] \in {"p-rename", "p-commit"} /\ job[p].of = d}

Reassign(d) ==
    /\ changes < MaxChanges
    /\ assigned' = IF d \in assigned THEN assigned \ {d} ELSE assigned \cup {d}
    /\ changes' = changes + 1
    /\ overtaken' = overtaken \cup Relying(d)
    /\ UNCHANGED <<attempts, results, runVars, files, pc, job, note, historyVars,
                   patchFiles, lock, target, merged, window, edits, crashes>>

Crash(p) ==
    /\ ~At(p, "idle")
    /\ crashes < MaxCrashes
    /\ crashes' = crashes + 1
    /\ Leave(p)
    /\ \/ UNCHANGED <<attempts, results, runVars, patchFiles>>
       \/ Tearing /\ TearDispatch(p) /\ UNCHANGED patchFiles
       \/ Tearing /\ TearIntegration(p) /\ UNCHANGED runVars
    /\ UNCHANGED <<files, assigned, historyVars, edits, changes>>

Proceed(p) ==
    /\ \/ /\ DispatchStep(p)
          /\ overtaken' = IF pc'[p] = "commit" THEN overtaken ELSE overtaken \ {p}
          /\ UNCHANGED <<patchFiles, lock, target, merged, window>>
       \/ IntegrationStep(p)
    /\ UNCHANGED boundVars

Next ==
    \/ \E p \in Procs : Proceed(p) \/ Crash(p)
    \/ \E f \in Files :
          \/ Edit(f, Captured)
          \/ \E r \in {files[f].own, "before", "other"} :
                edits < MaxEdits /\ Edit(f, [own |-> r, rest |-> edits + 1])
    \/ \E d \in Dispatches : Reassign(d)

Spec == Init /\ [][Next]_vars

-----------------------------------------------------------------------------
(* An integration keeps what others wrote in the file: its rename changes  *)
(* the region of the worker and nothing else, unless the edit came between *)
(* the last comparison and the rename.                                     *)
EditsKept ==
    [][\A p \in Procs, f \in Files :
          pc[p] = "p-rename" /\ pc'[p] = "p-next" /\ target[p] = f /\ p \notin window =>
             /\ files'[f].rest = files[f].rest
             /\ files[f].own \in {"before", job[p].of}]_vars

(* What an integration reports is there: when its result appears all files *)
(* hold the postimages, whatever was interrupted and resumed before.       *)
CommitsWhole ==
    [][\A i \in Integrations :
          results[i] # Done /\ results'[i] = Done =>
             \/ \A f \in Files : files[f] = After(i, f)
             \/ \E p \in window : job[p] = i]_vars

IntegratesWhole == EditsKept /\ CommitsWhole

(* What a worker returned has an effect (as the outcome of its dispatch, in*)
(* a file, or in the result of an integration) only as a return that was   *)
(* committed as one, and while its assignment is the current one, unless   *)
(* that was changed after the acting process last looked at it: whatever   *)
(* changed while the worker ran, between return and integration, or across *)
(* a death.                                                                *)
UsesReturn(d) ==
    \/ results[d] # "returned" /\ results'[d] = "returned"
    \/ \E f \in Files : files[f].own # d /\ files'[f].own = d
    \/ \E i \in Integrations : i.of = d /\ results[i] # Done /\ results'[i] = Done

UsedWhileAssigned ==
    [][\A d \in Dispatches : UsesReturn(d) =>
          /\ results'[d] = "returned"
          /\ \/ d \in assigned
             \/ \E p \in overtaken \cap Relying(d) : pc'[p] # pc[p]]_vars

(* Whatever was interrupted or refused, the proposal for the files as they *)
(* are can be performed, unless a file of it was torn, a death came between*)
(* its admission and its marker, or it was committed and undone since.     *)
CanPerform(i) ==
    /\ Proposed(i)
    /\ ~Held(i) => CanAdmit(i)
    /\ \A f \in Files : files[f] # After(i, f) => TemporaryAccepted(i, f, Held(i))

Blocked(i) ==
    \/ Torn \in {attempts[i], results[i], marker[i]}
    \/ \E f \in Files : <<i, f>> \in torn
    \/ attempts[i] = Admitted /\ marker[i] = Absent
    \/ results[i] = Done

NothingElseInTheWay ==
    lock = None =>
        \A d \in Dispatches :
            Usable(d) /\ (\A f \in Files : Mergeable(d, files[f])) =>
                LET i == Integration(d, files) IN CanPerform(i) \/ Blocked(i)
=============================================================================
