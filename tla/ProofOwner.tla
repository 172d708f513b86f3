----------------------------- MODULE ProofOwner -----------------------------
(***************************************************************************)
(* Publications and retirements of repository proof together, with the     *)
(* consumers that come and go, the checkout that replaces the index, and   *)
(* processes that die.                                                     *)
(***************************************************************************)
EXTENDS ProofPublication, ProofRetirement

vars == <<proofVars, localVars, procVars, ghostVars>>

PCs == {"idle", "pub-admit", "pub-run", "pub-lock", 
        "pub-receipt", "pub-temp", "install", "remove", "commit",
        "pub-complete", "rec-lock", "recover", "ret-lock",
        "ret-admit", "ret-record", "ret-index", "ret-verify",
        "ret-remove", "ret-carrier", "ret-own", "ret-clear"}

Retirement == "retirement"

ASSUME ActorAssumption == Retirement \notin Receipts /\ Retirement # None

(* Who a process works for, in the history of undisturbed effects.         *)
Actor(p) ==
    IF job[p] = None THEN None
    ELSE IF "r" \in DOMAIN job[p] THEN job[p].r ELSE Retirement

(* An effect is undisturbed from the step that makes it recoverable until  *)
(* somebody else changes what the owner keeps or its consumers.            *)
Observed(actor) ==
    LET kept == IF proofVars' = proofVars THEN quiet ELSE quiet \cap {actor}
        born == {r \in Receipts : receipts[r] = None /\ receipts'[r] \notin {None, Torn}}
        begun == IF pending = None /\ pending' # None THEN {Retirement} ELSE {}
        over == IF pending' = None THEN {Retirement} ELSE {}
    IN quiet' = (kept \cup born \cup begun) \ over

-----------------------------------------------------------------------------
(* Death of a process, between two steps or inside a file creation.        *)

Die(p) ==
    /\ pc[p] \in DieAt
    /\ Leave(p)
    /\ UNCHANGED <<proofVars, localVars>>

(* The hard link of a first index is made, its temporary still there.      *)
DieLinked(p) ==
    /\ "install" \in DieAt
    /\ At(p, "install")
    /\ index = None /\ receipts[job[p].r].before = None
    /\ index' = receipts[job[p].r].post
    /\ Leave(p)
    /\ UNCHANGED <<receipts, carrier, pending, temps, refs, localVars>>

DieAdmitting(p) ==
    /\ \/ At(p, "pub-admit") /\ TearAttempt(Pub(job[p].r)) /\ UNCHANGED binding
       \/ /\ At(p, "ret-admit")
          /\ StillRetiring(job[p].bound) /\ BoundTo(job[p].bound) = {}
          /\ Len(binding) < MaxRetirements
          /\ TearAttempt(Ret(Len(binding) + 1))
          /\ binding' = Append(binding, job[p].bound)
       \/ /\ At(p, "ret-admit")
          /\ StillRecovering(job[p].bound)
          /\ TearAttempt(Rec(pending.base, pending.tries))
          /\ UNCHANGED binding
    /\ Leave(p)
    /\ UNCHANGED <<proofVars, runs, done>>

DieRetaining(p) ==
    /\ At(p, "pub-receipt")
    /\ CanRetainReceipt(job[p].r)
    /\ receipts' = [receipts EXCEPT ![job[p].r] = Torn]
    /\ Leave(p)
    /\ UNCHANGED <<index, carrier, pending, temps, refs, localVars>>

DieCommitting(p) ==
    /\ \/ At(p, "commit") /\ TearResult(Pub(job[p].r))
       \/ At(p, "ret-remove") /\ job[p].todo = {} /\ TearResult(Ret(job[p].i))
       \/ At(p, "ret-own") /\ TearResult(job[p].own)
    /\ Leave(p)
    /\ UNCHANGED <<proofVars, runs, done, binding>>

(* A file that has been begun for the next step: the temporary of an       *)
(* index, or the attempt of a recovery that is not yet in the record.      *)
HalfMade(p) ==
    \/ At(p, "install")
    \/ At(p, "ret-record") /\ Recovering(p)

Death(p) ==
    /\ crashes < MaxCrashes
    /\ crashes' = crashes + 1
    /\ UNCHANGED changes
    /\ \/ Die(p) /\ smooth' = (smooth /\ ~HalfMade(p))
       \/ DieLinked(p) /\ smooth' = FALSE
       \/ /\ Tearing /\ (DieAdmitting(p) \/ DieRetaining(p) \/ DieCommitting(p))
          /\ smooth' = FALSE

-----------------------------------------------------------------------------
(* Planning adds and drops references without any lock of this owner; a    *)
(* checkout brings an index this checkout did not write.  Writers that     *)
(* change the index while the owner holds its lock are outside the         *)
(* documented boundary.                                                    *)
Reference(r) ==
    /\ refs' = IF r \in refs THEN refs \ {r} ELSE refs \cup {r}
    /\ UNCHANGED <<receipts, index, carrier, pending, temps>>

Checkout ==
    /\ lock = None
    /\ \E entries \in SUBSET {r \in Receipts : Whole(r)} :
         \E current \in entries \cup {None} :
            index' = [entries |-> entries, current |-> current, alien |-> TRUE]
    /\ UNCHANGED <<receipts, carrier, pending, temps, refs>>

World ==
    /\ changes < MaxChanges
    /\ changes' = changes + 1
    /\ Checkout \/ \E r \in Receipts : Reference(r)
    /\ UNCHANGED <<localVars, procVars, crashes, smooth>>
    /\ Observed(None)

Proceed(p) ==
    /\ Publish(p) \/ Retire(p)
    /\ UNCHANGED <<crashes, changes, smooth>>
    /\ Observed(Actor(p))

Init == StoreOwnerInit

Next ==
    \/ World
    \/ \E p \in Procs : Proceed(p) \/ (Death(p) /\ Observed(Actor(p)))

Spec == Init /\ [][Next]_vars

-----------------------------------------------------------------------------
TypeOK ==
    /\ StoreTypeOK
    /\ index = None \/ index \in Indices
    /\ carrier = None \/ carrier \in 1 .. Len(binding)
    /\ pending = None \/ pending \in [base : 1 .. Len(binding), tries : 0 .. MaxTries + 1]
    /\ \A r \in Receipts : Whole(r) =>
          /\ receipts[r].before = None \/ receipts[r].before \in Indices
          /\ receipts[r].post \in Indices /\ receipts[r].plan \subseteq Receipts \ {r}
    /\ temps \in 0 .. MaxCrashes + 1
    /\ refs \subseteq Receipts /\ done \subseteq runs /\ runs \subseteq Receipts
    /\ Len(binding) <= MaxRetirements
    /\ lock \in Procs \cup {None}
    /\ pc \in [Procs -> PCs]
    /\ \A p \in Procs : pc[p] = "idle" <=> job[p] = None

(* A listed receipt is on disk, whoever published, retired, recovered or   *)
(* died in between: a publication lists only what it has written, and      *)
(* nothing is removed before the index that dropped it is in place.        *)
IndexBacked == \A r \in Entries : Whole(r)

(* The process at work under the lock means to drop r from the index.      *)
Dropping(r) ==
    /\ lock # None
    /\ LET p == lock
       IN \/ At(p, "install") /\ r \in receipts[job[p].r].plan
          \/ /\ At(p, "ret-index")
             /\ binding[job[p].i].legacy \/ r \in binding[job[p].i].selected

(* No lost update of the index: an entry goes only by a supersession or a  *)
(* judged retirement of that receipt, never because a writer installs an   *)
(* index it computed from an older one.                                    *)
NoLostEntry ==
    [][Checkout \/ \A r \in Entries \ Entries' : Dropping(r)]_vars

(* What is removed has no consumer, although consumers take no lock and a  *)
(* removal was planned, and may be resumed by another process, long before. *)
RemovedUnreferenced ==
    [][\A r \in Present \ Present' : r \notin refs]_vars

Gone(set) == \A r \in set : receipts[r] = None

(* A result is committed when what it reports is true on disk: the index   *)
(* it hashes is installed and what it superseded or retired is removed.    *)
CommitsWhatLanded ==
    [][/\ \A r \in Receipts :
             Committed(Pub(r))' /\ ~Committed(Pub(r)) =>
                 index = receipts[r].post /\ Gone(receipts[r].plan)
       /\ \A i \in DOMAIN binding :
             Committed(Ret(i))' /\ ~Committed(Ret(i)) =>
                 index = NextIndex(binding[i]) /\ Gone(binding[i].selected)]_vars

(* An index nobody owns has a reason that somebody can act on: it came     *)
(* with a checkout, a retirement is pending, or the publication that       *)
(* installed it has not committed.                                         *)
OwnershipExplained ==
    \/ Owned(index)
    \/ index.alien
    \/ pending # None
    \/ \E r \in Receipts : Whole(r) /\ receipts[r].post = index /\ ~Committed(Pub(r))

(* What holds of the proof store between any two steps: types and the      *)
(* lock, and an index that is backed by receipts and has an owner.         *)
StoreConsistent == TypeOK /\ IndexBacked /\ OwnershipExplained

(* A publication that was interrupted after its receipt was retained, and  *)
(* that nobody interfered with, passes every check of recover.             *)
PublicationRecovers ==
    \A r \in Receipts :
        r \in quiet /\ lock = None /\ ~Committed(Pub(r)) =>
            /\ r \in runs
            /\ Recoverable(r)
            /\ index = receipts[r].post \/ CanReinstall(r)
            /\ AutomaticCheck(r, TRUE)

(* A retirement that was interrupted after its record was retained, and    *)
(* that nobody interfered with, can be recovered by the same task.         *)
RetirementRecovers ==
    Retirement \in quiet /\ lock = None /\ pending.tries <= MaxTries =>
        /\ PendingIntact
        /\ CanAdmit(Rec(pending.base, pending.tries))
        /\ Verified(pending.base, TRUE)

(* With no death but between two files, of however many processes at       *)
(* whatever steps: what was interrupted and left alone can be recovered    *)
(* (proof_publication.rs, recover; native_proof_retention.rs, the recovery *)
(* of a retirement).                                                       *)
SeamsRecover == smooth => PublicationRecovers /\ RetirementRecovers

(* "incomplete producer custody prevent[s] removal"                        *)
(* (docs/maintainer/proof-publication-custody.md): no receipt is removed   *)
(* before the publication that retained it committed.                      *)
IncompleteCustodyKept ==
    [][\A r \in Present \ Present' : Committed(Pub(r))]_vars
=============================================================================
