---------------------------- MODULE SourceOwners ----------------------------
(***************************************************************************)
(* The owners that publish one exact source each, under a lock of their    *)
(* own: configuration (config.toml), scoped instructions (one Markdown     *)
(* file) and system intent (its retained interpretation).  A write names   *)
(* the bytes it replaces and the policy it was authorised under; its       *)
(* marker, named by source and postimage, is what recovery finds.  The     *)
(* configuration that one owner publishes is the policy the others bind.   *)
(* Editors take no lock, and the last check of the source and the rename   *)
(* that replaces it are two calls.                                         *)
(***************************************************************************)
EXTENDS AttemptStore, Naturals, FiniteSets

CONSTANTS
    Procs,          \* processes of the native core
    Kinds,          \* which of the three owners are there
    Contents,       \* what a source can hold
    Tasks,          \* the work a request is made for
    Done,           \* the outcome of an effect, determined by its invocation
    None,           \* nobody, nothing
    MaxCalls,       \* bound: requests that write or put off
    MaxEdits,       \* bound: edits by others
    MaxReturns,     \* bound: publications of one content that intent supersedes
    MaxCrashes,     \* bound: deaths
    Tearing         \* may a process die inside the creation of a file?

ASSUME SourceAssumption ==
    /\ Kinds \subseteq {"configuration", "instructions", "system-intent"}
    /\ Absent \notin Contents /\ None \notin Contents \cup Procs /\ None # Absent
    /\ Done \in Outcomes
    /\ MaxCalls \in Nat /\ MaxEdits \in Nat /\ MaxReturns \in Nat /\ MaxCrashes \in Nat
    /\ Tearing \in BOOLEAN

VARIABLES
    source,     \* source[k]: Absent or the content of the source of k
    marker,     \* marker[k][c]: the write prepared for c, Absent or Torn
    current,    \* the content the instruction projection names, or None
    deferral,   \* the configuration choice that was put off, or None
    temps,      \* writes whose temporary lies beside the source
    torn,       \* writes whose temporary is not whole
    lock,       \* lock[k]: holder of the lock of k, or None
    pc,         \* where each process is
    job,        \* its effect
    window,     \* processes whose source or policy moved after their last look
    calls,
    edits,
    crashes

vars == <<attempts, results, source, marker, current, deferral, temps, torn,
          lock, pc, job, window, calls, edits, crashes>>
diskVars == <<attempts, results, source, marker, current, deferral, temps, torn>>

Marked == {Absent, Torn}

(* An invocation: the request and binding it is the digest of.  Recovery   *)
(* of a configuration names the record, the others only the postimage.     *)
Write(k, before, post, policy, t, n) ==
    [op |-> "write", kind |-> k, before |-> before, post |-> post,
     policy |-> policy, task |-> t, returns |-> n]
Deferral(w) == [w EXCEPT !.op = "defer"]
Recovery(w, t) ==
    [w EXCEPT !.op = "recover", !.task = t, !.returns = 0,
              !.before = IF w.kind = "configuration" THEN w.before ELSE w.post]

(* Everything a view of the owners can ask for: a write names the bytes it *)
(* replaces and the policy it read; an instruction may be published as it  *)
(* stands, and only intent returns to a content.                           *)
Policies(k) ==
    IF k # "configuration" /\ "configuration" \in Kinds THEN Contents \cup {Absent} ELSE {None}

Written ==
    {w \in [op : {"write"}, kind : Kinds, before : Contents \cup {Absent}, post : Contents,
            policy : Contents \cup {Absent, None}, task : Tasks, returns : 0 .. MaxReturns] :
        /\ w.policy \in Policies(w.kind)
        /\ w.kind # "instructions" => w.before # w.post
        /\ w.kind # "system-intent" => w.returns = 0}

Deferred == {Deferral(w) : w \in {x \in Written : x.kind = "configuration"}}

Recovered == {Recovery(w, t) : w \in Written, t \in Tasks}

ASSUME EffectsAssumption ==
    /\ Effects = Written \cup Deferred \cup Recovered
    /\ {None, Absent, Torn} \cap Effects = {}

Init ==
    /\ StoreInit
    /\ source \in [Kinds -> Contents \cup {Absent}]
    /\ marker = [k \in Kinds |-> [c \in Contents |-> Absent]]
    /\ current = None /\ deferral = None
    /\ temps = {} /\ torn = {}
    /\ lock = [k \in Kinds |-> None]
    /\ pc = [p \in Procs |-> "idle"]
    /\ job = [p \in Procs |-> None]
    /\ window = {}
    /\ calls = 0 /\ edits = 0 /\ crashes = 0

-----------------------------------------------------------------------------
(* What a view makes of the files.                                         *)
Policy(k) ==
    IF k # "configuration" /\ "configuration" \in Kinds
    THEN source["configuration"] ELSE None

Held(k, c) == marker[k][c] \notin Marked /\ attempts[marker[k][c]] = Admitted

Readable(k, c) == marker[k][c] # Absent => Held(k, c)

(* held and prepare_commit: a result that is there must be the planned one.*)
Consumed(k, c) == Held(k, c) /\ Committed(marker[k][c])

(* Intent returns to a content it published before as a new proposal that  *)
(* names the earlier publication.                                          *)
Returns(k, c) ==
    IF k # "system-intent" \/ ~Held(k, c) THEN 0
    ELSE LET w == marker[k][c] IN IF Committed(w) THEN w.returns + 1 ELSE w.returns

(* What every view of the owner reads: the record of the content that is   *)
(* in the source, and the choice that was put off.                         *)
Legible(k) ==
    /\ source[k] # Absent =>
          Readable(k, source[k]) /\ (Held(k, source[k]) => CanPrepare(marker[k][source[k]], Done))
    /\ k = "configuration" /\ deferral # None => CanPrepare(deferral, Done)

ConfigurationOffered(w) == w.before # w.post

(* An instruction that was written by hand may be published as it stands.  *)
InstructionOffered(w) == ~(w.before = w.post /\ Consumed("instructions", w.post))

IntentOffered(w) ==
    /\ w.before # w.post
    /\ Readable("system-intent", w.post)
    /\ w.returns = Returns("system-intent", w.post)

(* An edit request with an authorising answer: it names the source and the *)
(* policy as they are.                                                     *)
WriteOffered(w) ==
    LET k == w.kind IN
    /\ Legible(k)
    /\ w.before = source[k]
    /\ w.policy = Policy(k)
    /\ k = "configuration" => ConfigurationOffered(w)
    /\ k = "instructions" => InstructionOffered(w)
    /\ k = "system-intent" => IntentOffered(w)

(* The request of a recovery is accepted on the exact postimage, under the *)
(* policy of the write (configuration is its own policy).                  *)
RecoveryAccepted(r) ==
    LET k == r.kind IN
    /\ Legible(k)
    /\ source[k] = r.post
    /\ Held(k, r.post)
    /\ LET w == marker[k][r.post]
       IN r = Recovery(w, r.task) /\ w.policy = Policy(k)

(* Recoveries are listed while the publication has no result.              *)
RecoveryOffered(r) == RecoveryAccepted(r) /\ results[marker[r.kind][r.post]] = Absent

Revalidated(e) ==
    CASE e.op = "write" -> WriteOffered(e)
      [] e.op = "defer" -> WriteOffered([e EXCEPT !.op = "write"])
      [] e.op = "recover" -> RecoveryAccepted(e)

(* What a view offers for content c of source k and work t.                *)
Requests(k, c, t) ==
    LET w == Write(k, source[k], c, Policy(k), t, Returns(k, c))
        writes == IF k = "configuration" THEN {w, Deferral(w)} ELSE {w}
        recoveries == IF Held(k, c) THEN {Recovery(marker[k][c], t)} ELSE {}
    IN {e \in writes : e.returns <= MaxReturns /\ Revalidated(e)}
         \cup {r \in recoveries : RecoveryOffered(r)}

-----------------------------------------------------------------------------
At(p, step) == pc[p] = step
Effect(p) == job[p]
Kind(p) == job[p].kind
Post(p) == job[p].post

Continue(p, step) ==
    /\ pc' = [pc EXCEPT ![p] = step]
    /\ UNCHANGED <<job, lock, window>>

(* The call returns or its process dies; the lock goes with its handle.    *)
Leave(p) ==
    /\ pc' = [pc EXCEPT ![p] = "idle"]
    /\ job' = [job EXCEPT ![p] = None]
    /\ window' = window \ {p}
    /\ lock' = [k \in Kinds |-> IF lock[k] = p THEN None ELSE lock[k]]

(* Who relies on its last look at source k, or at the policy, when it      *)
(* moves: a write between its barrier and its rename or between its rename *)
(* and its result, a recovery between its check and the result it writes.  *)
Exposed(k) ==
    {q \in Procs : /\ pc[q] \in {"project", "install", "unlink", "commit", "r-original"}
                   /\ k \in {job[q].kind, "configuration"}}

-----------------------------------------------------------------------------
(* The check the code makes at each step; where it fails the call returns  *)
(* an error and changes nothing more.                                      *)

(* The publication this call resumes, when the marker is already its own.  *)
Resumed(e) == marker[e.kind][e.post] = e

(* Mutant: every owner publishes a content again.                          *)
SupersedingAny(e) == Consumed(e.kind, e.post)

Superseding(e) == e.kind = "system-intent" /\ Consumed(e.kind, e.post)

(* Under the lock: the marker is readable, the publication not consumed    *)
(* (or superseded on its exact record), no other attempt holds the marker, *)
(* and no unowned temporary lies there.                                    *)
CanPrepareWrite(e) ==
    /\ Revalidated(e)
    /\ Readable(e.kind, e.post)
    /\ Held(e.kind, e.post) => CanPrepare(marker[e.kind][e.post], Done)
    /\ Consumed(e.kind, e.post) => Superseding(e)
    /\ Held(e.kind, e.post) /\ ~Superseding(e) => Resumed(e)
    /\ e \in temps \cup torn => Resumed(e)

CanDefer(e) == Revalidated(e) /\ (deferral # None => CanPrepare(deferral, Done))

May(p) ==
    LET e == Effect(p) IN
    CASE At(p, "lock") ->
            /\ lock[e.kind] = None
            /\ e.op = "defer" => CanDefer(e)
            /\ e.op = "recover" => RecoveryAccepted(e)
            /\ e.op = "write" => CanPrepareWrite(e)
      [] At(p, "admit") -> \/ e.op = "write" /\ Resumed(e) /\ attempts[e] = Admitted
                           \/ e.op = "defer" /\ deferral = e /\ CanPrepare(e, Done)
                           \/ CanAdmit(e)
      [] At(p, "mark") -> marker[e.kind][e.post] = Absent \/ Superseding(e)
      [] At(p, "stage") -> e \notin torn
      [] At(p, "barrier") -> Revalidated(e) /\ source[e.kind] = e.before
      [] At(p, "project") -> TRUE
      [] At(p, "install") -> e.before = Absent => source[e.kind] = Absent
      [] At(p, "unlink") -> e.kind = "configuration" /\ deferral # None => CanPrepare(deferral, Done)
      [] At(p, "commit") -> CanCommit(e)
      [] At(p, "d-barrier") -> CanDefer(e)
      [] At(p, "d-commit") -> CanCommit(e)
      [] At(p, "r-verify") -> RecoveryAccepted(e)
      [] At(p, "r-original") -> CanCommit(marker[e.kind][e.post])
      [] OTHER -> FALSE

Refuse(p) ==
    /\ ~At(p, "idle")
    /\ ~May(p)
    /\ Leave(p)
    /\ UNCHANGED diskVars

-----------------------------------------------------------------------------
Begin(p, e) ==
    /\ At(p, "idle")
    /\ e.op # "recover" => calls < MaxCalls
    /\ calls' = IF e.op = "recover" THEN calls ELSE calls + 1
    /\ pc' = [pc EXCEPT ![p] = "lock"]
    /\ job' = [job EXCEPT ![p] = e]
    /\ UNCHANGED <<diskVars, lock, window, edits, crashes>>

(* The lock does not wait: a busy owner is an error.  The view is made     *)
(* again under it; an edit in between is one before the lock.              *)
Lock(p) ==
    /\ At(p, "lock") /\ May(p)
    /\ lock' = [lock EXCEPT ![Kind(p)] = p]
    /\ pc' = [pc EXCEPT ![p] = "admit"]
    /\ UNCHANGED <<diskVars, job, window>>

AfterAdmission(e) ==
    CASE e.op = "write" -> IF Resumed(e) THEN "stage" ELSE "mark"
      [] e.op = "defer" -> IF deferral = e THEN "d-commit" ELSE "d-barrier"
      [] e.op = "recover" -> "r-verify"

(* attempt_store::admit, with custody when the marker is this call's own.  *)
Admission(p) ==
    /\ At(p, "admit") /\ May(p)
    /\ LET e == Effect(p)
       IN /\ IF CanAdmit(e) THEN Admit(e) ELSE UNCHANGED <<attempts, results>>
          /\ Continue(p, AfterAdmission(e))
    /\ UNCHANGED <<source, marker, current, deferral, temps, torn>>

(* The marker is created, or renamed over the one it supersedes.           *)
Mark(p) ==
    /\ At(p, "mark") /\ May(p)
    /\ marker' = [marker EXCEPT ![Kind(p)][Post(p)] = Effect(p)]
    /\ Continue(p, "stage")
    /\ UNCHANGED <<attempts, results, source, current, deferral, temps, torn>>

Stage(p) ==
    /\ At(p, "stage") /\ May(p)
    /\ temps' = temps \cup {Effect(p)}
    /\ Continue(p, "barrier")
    /\ UNCHANGED <<attempts, results, source, marker, current, deferral, torn>>

(* Mutant: the source is not compared again after the temporary is whole.  *)
BarrierTrusting(p) ==
    /\ At(p, "barrier")
    /\ Continue(p, IF Kind(p) = "instructions" THEN "project" ELSE "install")
    /\ UNCHANGED diskVars

(* The last look at the source and the policy before they are relied on.   *)
Barrier(p) ==
    /\ At(p, "barrier") /\ May(p)
    /\ Continue(p, IF Kind(p) = "instructions" THEN "project" ELSE "install")
    /\ UNCHANGED diskVars

(* publish_current: the projection names the postimage before the source   *)
(* holds it.                                                               *)
Project(p) ==
    /\ At(p, "project")
    /\ current' = Post(p)
    /\ Continue(p, "install")
    /\ UNCHANGED <<attempts, results, source, marker, deferral, temps, torn>>

(* A source that was absent is linked, which fails where another file      *)
(* appeared; one that was there is renamed over.  A configuration write    *)
(* then removes the deferred choice it settles.                            *)
Install(p) ==
    /\ At(p, "install") /\ May(p)
    /\ LET e == Effect(p)
       IN /\ source' = [source EXCEPT ![e.kind] = e.post]
          /\ temps' = IF e.before = Absent THEN temps ELSE temps \ {e}
          /\ pc' = [pc EXCEPT ![p] = IF e.before = Absent \/ e.kind = "configuration"
                                     THEN "unlink" ELSE "commit"]
          /\ window' = (window \cup Exposed(e.kind)) \ {p}
    /\ UNCHANGED <<attempts, results, marker, current, deferral, torn, job, lock>>

Unlink(p) ==
    /\ At(p, "unlink") /\ May(p)
    /\ temps' = temps \ {Effect(p)}
    /\ deferral' = IF Kind(p) = "configuration" THEN None ELSE deferral
    /\ Continue(p, "commit")
    /\ UNCHANGED <<attempts, results, source, marker, current, torn>>

CommitWrite(p) ==
    /\ At(p, "commit") /\ May(p)
    /\ Commit(Effect(p), Done)
    /\ Leave(p)
    /\ UNCHANGED <<source, marker, current, deferral, temps, torn>>

-----------------------------------------------------------------------------
(* configuration.defer-choice: a record that replaces the former one.      *)
InstallDeferral(p) ==
    /\ At(p, "d-barrier") /\ May(p)
    /\ deferral' = Effect(p)
    /\ Continue(p, "d-commit")
    /\ UNCHANGED <<attempts, results, source, marker, current, temps, torn>>

CommitDeferral(p) ==
    /\ At(p, "d-commit") /\ May(p)
    /\ Commit(Effect(p), Done)
    /\ Leave(p)
    /\ UNCHANGED <<source, marker, current, deferral, temps, torn>>

-----------------------------------------------------------------------------
(* Recovery: an effect of its own, which looks at the source once more,    *)
(* commits the original outcome, then its own; it writes no material.      *)
(* Mutant: the source is not compared again after the admission.           *)
VerifyNothing(p) ==
    /\ At(p, "r-verify")
    /\ Continue(p, "r-original")
    /\ UNCHANGED diskVars

VerifyRecovery(p) ==
    /\ At(p, "r-verify") /\ May(p)
    /\ current' = IF Kind(p) = "instructions" THEN Post(p) ELSE current
    /\ Continue(p, "r-original")
    /\ UNCHANGED <<attempts, results, source, marker, deferral, temps, torn>>

CommitOriginal(p) ==
    /\ At(p, "r-original") /\ May(p)
    /\ Commit(marker[Kind(p)][Post(p)], Done)
    /\ Continue(p, "commit")
    /\ UNCHANGED <<source, marker, current, deferral, temps, torn>>

-----------------------------------------------------------------------------
(* Deaths: between any two steps, or inside the creation of a file.        *)
Tear(p) ==
    LET e == Effect(p) IN
    \/ /\ At(p, "admit") /\ May(p) /\ TearAttempt(e)
       /\ UNCHANGED <<marker, torn>>
    \/ /\ At(p, "mark") /\ marker[e.kind][e.post] = Absent
       /\ marker' = [marker EXCEPT ![e.kind][e.post] = Torn]
       /\ UNCHANGED <<attempts, results, torn>>
    \/ /\ At(p, "stage") /\ May(p) /\ e \notin temps
       /\ torn' = torn \cup {e}
       /\ UNCHANGED <<attempts, results, marker>>
    \/ /\ pc[p] \in {"commit", "d-commit"} /\ TearResult(e)
       /\ UNCHANGED <<marker, torn>>
    \/ /\ At(p, "r-original") /\ TearResult(marker[e.kind][e.post])
       /\ UNCHANGED <<marker, torn>>

Death(p) ==
    /\ crashes < MaxCrashes
    /\ ~At(p, "idle")
    /\ crashes' = crashes + 1
    /\ \/ UNCHANGED <<attempts, results, marker, torn>>
       \/ Tearing /\ Tear(p)
    /\ Leave(p)
    /\ UNCHANGED <<source, current, deferral, temps, calls, edits>>

(* An editor, a merge or a checkout.                                       *)
Edit(k, c) ==
    /\ edits < MaxEdits
    /\ c # source[k]
    /\ edits' = edits + 1
    /\ source' = [source EXCEPT ![k] = c]
    /\ window' = window \cup Exposed(k)
    /\ UNCHANGED <<attempts, results, marker, current, deferral, temps, torn,
                   lock, pc, job, calls, crashes>>

Publish(p) ==
    \/ Admission(p)
    \/ Mark(p)
    \/ Stage(p)
    \/ Barrier(p)
    \/ Project(p)
    \/ Install(p)
    \/ Unlink(p)
    \/ CommitWrite(p)

Proceed(p) ==
    /\ \/ Lock(p)
       \/ Publish(p)
       \/ InstallDeferral(p)
       \/ CommitDeferral(p)
       \/ VerifyRecovery(p)
       \/ CommitOriginal(p)
       \/ Refuse(p)
    /\ UNCHANGED <<calls, edits, crashes>>

Next ==
    \/ \E k \in Kinds, c \in Contents \cup {Absent} : Edit(k, c)
    \/ \E p \in Procs, k \in Kinds, c \in Contents, t \in Tasks :
          \E e \in Requests(k, c, t) : Begin(p, e)
    \/ \E p \in Procs : Proceed(p) \/ Death(p)

Spec == Init /\ [][Next]_vars

-----------------------------------------------------------------------------
Steps == {"idle", "lock", "admit", "mark", "stage", "barrier", "project",
          "install", "unlink", "commit", "d-barrier", "d-commit", "r-verify", "r-original"}

Writes == {e \in Effects : e.op = "write"}
Recoveries == {e \in Effects : e.op = "recover"}

(* The types of the state, and the lock of an owner is held exactly by the *)
(* process that is past acquiring it.                                      *)
TypeOK ==
    /\ StoreTypeOK
    /\ source \in [Kinds -> Contents \cup {Absent}]
    /\ \A k \in Kinds, c \in Contents : marker[k][c] \notin Marked =>
          marker[k][c] \in Effects /\ marker[k][c].op = "write"
    /\ current \in Contents \cup {None}
    /\ deferral = None \/ deferral \in Effects
    /\ \A e \in temps \cup torn : e \in Effects /\ e.op = "write"
    /\ pc \in [Procs -> Steps]
    /\ \A p \in Procs : (job[p] # None => job[p] \in Effects) /\ (At(p, "idle") <=> job[p] = None)
    /\ \A k \in Kinds : lock[k] \in Procs \cup {None}
    /\ \A k \in Kinds, p \in Procs :
          lock[k] = p <=> pc[p] \notin {"idle", "lock"} /\ job[p].kind = k
    /\ window \subseteq Procs
    /\ calls \in 0 .. MaxCalls /\ edits \in 0 .. MaxEdits /\ crashes \in 0 .. MaxCrashes

(* A write lands on the bytes it named and under the policy it was         *)
(* authorised by, unless they moved after its last look; and a file that   *)
(* was to be created is never written over, not even then (the hard link). *)
LandsOnPreimage ==
    [][\A p \in Procs :
          At(p, "install") /\ pc'[p] \in {"unlink", "commit"} =>
            LET e == job[p]
            IN /\ e.before = Absent => source[e.kind] = Absent
               /\ p \notin window => source[e.kind] = e.before /\ e.policy = Policy(e.kind)]_vars

(* Whoever is between the marker and the result of a write owns the marker *)
(* of its postimage; a marker that is whole names an attempt that is, and  *)
(* so does the one the instruction projection leads to.  Otherwise a death *)
(* would leave a source, or a projection, that no recovery finds.          *)
PublicationTraceable ==
    /\ \A p \in Procs :
          pc[p] \in {"stage", "barrier", "project", "install", "unlink", "commit"}
            /\ job[p].op = "write" => Resumed(job[p])
    /\ \A k \in Kinds, c \in Contents :
          marker[k][c] \notin Marked => attempts[marker[k][c]] = Admitted
    /\ current # None => Held("instructions", current)

(* A content of a configuration or an instruction is published by one      *)
(* invocation for ever; intent publishes it again only as the next return. *)
PublishedOnce ==
    \A v, w \in {x \in Writes : Committed(x)} :
        v.kind = w.kind /\ v.post = w.post /\ v.returns = w.returns => v = w

(* The result of a write is committed, by the write or by a recovery, only *)
(* while the source holds its postimage, unless that moved after the last  *)
(* look of the one who commits it.                                         *)
ResultsTrue ==
    [][\A w \in Writes :
          Committed(w)' /\ ~Committed(w) =>
            \/ source[w.kind] = w.post
            \/ \E p \in window : job[p] # None /\ job[p].kind = w.kind]_vars

(* A recovery answers only for a write whose own result it, or somebody    *)
(* before it, committed.                                                   *)
RecoveryAnswersForOriginal ==
    \A r \in Recoveries :
        Committed(r) =>
          \E w \in Writes : /\ Committed(w)
                            /\ w.kind = r.kind /\ w.post = r.post /\ w.policy = r.policy

(* What holds of the sources between any two steps: types and locks, a way *)
(* back to everything that is under way, contents published once, and      *)
(* recoveries that answer for a result that is there.                      *)
SourcesConsistent ==
    TypeOK /\ PublicationTraceable /\ PublishedOnce /\ RecoveryAnswersForOriginal
=============================================================================
