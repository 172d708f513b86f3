-------------------------- MODULE ProofPublication --------------------------
(***************************************************************************)
(* Promotion of one local execution to repository proof: the proof.report  *)
(* path of native_proof.rs::execute that calls proof_publication::publish, *)
(* and proof_publication::recover, which a later invocation of the same    *)
(* effect reaches when it finds a run without a completion.                *)
(***************************************************************************)
EXTENDS ProofStore

(* The proof.report action is current: an admitted consumer references the *)
(* receipt and no retirement is pending.                                   *)
Admissible(r) == r \in refs /\ pending = None

(* retention view: new proof is withheld while an index with entries is    *)
(* unowned, and while its disposition cannot be offered because the        *)
(* consumer of its current receipt, or the receipt's text, is lost.        *)
ResolutionRequired == ~Owned(index) /\ Entries # {}
ConsumerLost ==
    /\ ~Owned(index)
    /\ index.current \in Present
    /\ ~(Whole(index.current) /\ index.current \in refs)

Offered(r) == Admissible(r) /\ ~ResolutionRequired /\ ~ConsumerLost

(* check(): publication_ready, owned index, capacity.                      *)
Ready == pending = None /\ Owned(index) /\ Cardinality(Entries) < Capacity

-----------------------------------------------------------------------------
(* automatic_plan: entries the new receipt supersedes, unless a consumer   *)
(* holds them; and the guard every later check must find unchanged.        *)
Replaceable(r) ==
    {o \in Entries : /\ <<r, o>> \in Supersedes
                     /\ Whole(o)
                     /\ CanPrepare(Pub(o), Done)}

(* Mutant: consumers of a superseded receipt are not asked.                *)
EverythingReplaceable(r) == Replaceable(r)

AutomaticPlan(r) == Replaceable(r) \ refs

Guard(r, plan) == [Observation EXCEPT !.present = @ \ (plan \cup {r})]

Publication(r) ==
    LET plan == AutomaticPlan(r)
        old == IF index = None THEN EmptyIndex ELSE index
    IN [before |-> index,
        post |-> [old EXCEPT !.entries = (@ \ plan) \cup {r}, !.current = r],
        plan |-> plan,
        guard |-> Guard(r, plan)]

(* Mutant: a recovery insists on what its predecessor has removed.         *)
AutomaticCheckStrict(r, allowAbsent) ==
    LET plan == receipts[r].plan
    IN plan # {} => plan \subseteq Present /\ Guard(r, plan) = receipts[r].guard

(* automatic_check: an empty plan removes nothing and checks nothing.      *)
AutomaticCheck(r, allowAbsent) ==
    LET plan == receipts[r].plan
    IN plan # {} =>
          /\ allowAbsent \/ plan \subseteq Present
          /\ Guard(r, plan) = receipts[r].guard

-----------------------------------------------------------------------------
Failing(p) == Leave(p) /\ UNCHANGED <<proofVars, localVars>>

(* A new invocation is checked before it is admitted; one with a retained  *)
(* run goes to recovery, ownership resolved or not; one with a completion  *)
(* only replays and changes nothing.                                       *)
EnterPublish(p, r) ==
    /\ r \notin done
    /\ \/ /\ r \notin runs /\ Offered(r) /\ Ready
          /\ Start(p, "pub-admit", [r |-> r, todo |-> {}, fresh |-> TRUE])
       \/ /\ r \in runs /\ Admissible(r)
          /\ Start(p, "rec-lock", [r |-> r, todo |-> {}, fresh |-> FALSE])
    /\ UNCHANGED <<proofVars, localVars>>

PublishAdmit(p) ==
    /\ At(p, "pub-admit")
    /\ \/ /\ Admit(Pub(job[p].r))
          /\ Continue(p, "pub-run")
          /\ UNCHANGED <<proofVars, runs, done, binding>>
       \/ ~CanAdmit(Pub(job[p].r)) /\ Failing(p)

(* run.json is created, then the invocation is revalidated.                *)
PublishRun(p) ==
    /\ At(p, "pub-run")
    /\ runs' = runs \cup {job[p].r}
    /\ IF Admissible(job[p].r) THEN Continue(p, "pub-lock") ELSE Leave(p)
    /\ UNCHANGED <<proofVars, attempts, results, done, binding>>

PublishLock(p) == Lock(p, "pub-lock", "pub-receipt")

(* Everything the publication will do is fixed here and carried by the     *)
(* receipt itself.                                                         *)
CanRetainReceipt(r) ==
    /\ Admissible(r) /\ Ready
    /\ receipts[r] = None
    /\ CanPrepare(Pub(r), Done)

PublishReceipt(p) ==
    LET r == job[p].r
    IN /\ At(p, "pub-receipt")
       /\ \/ /\ CanRetainReceipt(r)
             /\ receipts' = [receipts EXCEPT ![r] = Publication(r)]
             /\ Continue(p, "pub-temp")
             /\ UNCHANGED <<index, carrier, pending, temps, refs, localVars>>
          \/ ~CanRetainReceipt(r) /\ Failing(p)

(* install, first half: the next index is written beside the old one.      *)
WriteTemp(p) ==
    /\ temps' = temps + 1
    /\ Rest(p, "install", receipts[job[p].r].plan)
    /\ UNCHANGED <<receipts, index, carrier, pending, refs, localVars>>

PublishTemp(p) ==
    LET r == job[p].r
        ok == Admissible(r) /\ AutomaticCheck(r, FALSE)
    IN /\ At(p, "pub-temp")
       /\ \/ ok /\ WriteTemp(p)
          \/ ~ok /\ Failing(p)

(* install, second half: a link where there was no index, else a rename;   *)
(* a changed index leaves the temporary where it is.                       *)
Install(p) ==
    LET r == job[p].r
    IN /\ At(p, "install")
       /\ \/ /\ index = receipts[r].before
             /\ index' = receipts[r].post
             /\ temps' = temps - 1
             /\ Continue(p, "remove")
             /\ UNCHANGED <<receipts, carrier, pending, refs, localVars>>
          \/ index # receipts[r].before /\ Failing(p)

(* automatic_remove: one superseded receipt, checked before each.          *)
RemoveOne(p) ==
    /\ At(p, "remove")
    /\ job[p].todo # {}
    /\ \/ /\ AutomaticCheck(job[p].r, TRUE)
          /\ \E o \in job[p].todo :
                /\ receipts' = [receipts EXCEPT ![o] = None]
                /\ Rest(p, "remove", job[p].todo \ {o})
          /\ UNCHANGED <<index, carrier, pending, temps, refs, localVars>>
       \/ ~AutomaticCheck(job[p].r, TRUE) /\ Failing(p)

Removed(p) ==
    /\ At(p, "remove")
    /\ job[p].todo = {}
    /\ Continue(p, "commit")
    /\ UNCHANGED <<proofVars, localVars>>

(* The commit releases the locks on return; a first publication goes on to *)
(* its completed.json, a recovery answers at once.                         *)
CommitPublication(p) ==
    LET e == Pub(job[p].r)
        after == IF job[p].fresh THEN "pub-complete" ELSE "idle"
    IN /\ At(p, "commit")
       /\ \/ /\ Commit(e, Done)
             /\ Goto(p, after)
             /\ job' = IF after = "idle" THEN [job EXCEPT ![p] = None] ELSE job
             /\ lock' = None
             /\ UNCHANGED <<proofVars, runs, done, binding>>
          \/ ~CanCommit(e) /\ Failing(p)   \* already committed, or torn

PublishComplete(p) ==
    /\ At(p, "pub-complete")
    /\ done' = done \cup {job[p].r}
    /\ Leave(p)
    /\ UNCHANGED <<proofVars, attempts, results, runs, binding>>

-----------------------------------------------------------------------------
RecoverLock(p) == Lock(p, "rec-lock", "recover")

(* Without a receipt that names this attempt nothing can be recovered.     *)
Recoverable(r) == Whole(r) /\ Admissible(r) /\ CanPrepare(Pub(r), Done)

CanReinstall(r) ==
    /\ index = receipts[r].before
    /\ Owned(index)
    /\ AutomaticCheck(r, TRUE)

(* Mutant: an index that is in place is taken for the whole publication.   *)
RecoverCommitting(p) ==
    LET r == job[p].r
    IN /\ At(p, "recover")
       /\ \/ /\ Recoverable(r) /\ index = receipts[r].post
             /\ Continue(p, "commit")
             /\ UNCHANGED <<proofVars, localVars>>
          \/ /\ Recoverable(r) /\ index # receipts[r].post
             /\ CanReinstall(r)
             /\ WriteTemp(p)
          \/ /\ Recoverable(r) => (index # receipts[r].post /\ ~CanReinstall(r))
             /\ Failing(p)

Recover(p) ==
    LET r == job[p].r
    IN /\ At(p, "recover")
       /\ \/ /\ Recoverable(r) /\ index = receipts[r].post
             /\ Rest(p, "remove", receipts[r].plan)
             /\ UNCHANGED <<proofVars, localVars>>
          \/ /\ Recoverable(r) /\ index # receipts[r].post
             /\ CanReinstall(r)
             /\ WriteTemp(p)
          \/ /\ Recoverable(r) => (index # receipts[r].post /\ ~CanReinstall(r))
             /\ Failing(p)

Publish(p) ==
    \/ \E r \in Receipts : EnterPublish(p, r)
    \/ PublishAdmit(p)
    \/ PublishRun(p)
    \/ PublishLock(p)
    \/ PublishReceipt(p)
    \/ PublishTemp(p)
    \/ PublishComplete(p)
    \/ RecoverLock(p)
    \/ Recover(p)
    \/ Install(p)
    \/ RemoveOne(p)
    \/ Removed(p)
    \/ CommitPublication(p)
=============================================================================
