----------------------------- MODULE ProofStore -----------------------------
(***************************************************************************)
(* What the proof owner keeps in .agentic-workspace/proof for repository   *)
(* proof: receipts, the index that lists them, the custody carrier of the  *)
(* index, and, under local/, the pending record of a retirement.  Two      *)
(* effects write it: publications (proof_publication.rs) and retirements   *)
(* (native_proof_retention.rs).  Both hold publication.lock and then       *)
(* source-reconciliation.lock; whoever takes the second has the first, so  *)
(* the two are one lock here.  The consumers that reference receipts are   *)
(* Planning's and change without it.  The code compares hashes where this  *)
(* module compares the values they are hashes of.                          *)
(***************************************************************************)
EXTENDS AttemptStore, Naturals, FiniteSets

CONSTANTS
    Procs,          \* running instances of the program
    Receipts,       \* receipts that may be promoted, one publication each
    Supersedes,     \* pairs <<new, old>>: same command, scope, route and work
    None,           \* an absent file, a free lock, no current receipt
    Done,           \* the one outcome an effect can commit
    Capacity,       \* entries at which the index takes no publication
    DieAt,          \* the steps before which a process may die
    Tearing,        \* whether a process may die inside a file creation
    MaxCrashes,     \* bound: deaths in one behaviour
    MaxChanges,     \* bound: changes of consumers and checkouts
    MaxRetirements, \* bound: distinct retirements admitted
    MaxTries        \* bound: recoveries recorded for one retirement

(* Effects by what they do; the third field numbers the recoveries.        *)
Pub(r) == <<"publish", r, 0>>
Ret(i) == <<"retire", i, 0>>
Rec(i, n) == <<"recover", i, n>>

ASSUME ProofStoreAssumption ==
    /\ Supersedes \subseteq Receipts \X Receipts
    /\ \A r \in Receipts : <<r, r>> \notin Supersedes
    /\ Tearing \in BOOLEAN
    /\ {Capacity, MaxCrashes, MaxChanges,
        MaxRetirements, MaxTries} \subseteq Nat
    /\ Outcomes = {Done}
    /\ Effects = {Pub(r) : r \in Receipts}
                   \cup {Ret(i) : i \in 1 .. MaxRetirements}
                   \cup {Rec(i, n) : i \in 1 .. MaxRetirements, n \in 0 .. MaxTries}

(* What the files and the processes hold.                                  *)
Indices == [entries : SUBSET Receipts, current : Receipts \cup {None}, alien : BOOLEAN]
Observations == [present : SUBSET Receipts, temps : Nat, refs : SUBSET Receipts]
Publications ==
    [before : Indices \cup {None}, post : Indices, plan : SUBSET Receipts, guard : Observations]
Judgments ==
    [selected : SUBSET Receipts, index : Indices \cup {None}, legacy : BOOLEAN,
     seen : Observations, carrier : Nat \cup {None}]
PendingRecords == [base : Nat, tries : Nat]
PublicationJobs == [r : Receipts, todo : SUBSET Receipts, fresh : BOOLEAN]
JudgmentJobs == [bound : Judgments \cup PendingRecords]
RetirementJobs == [i : Nat, own : Effects, todo : SUBSET Receipts]

(* The marks for nothing and for a torn file are none of these.            *)
ASSUME ProofMarksAssumption ==
    /\ None \notin Receipts /\ None \notin Procs /\ None \notin Nat
    /\ None \notin Indices /\ None \notin PendingRecords
    /\ None \notin Publications /\ Torn \notin Publications
    /\ None \notin PublicationJobs /\ None \notin JudgmentJobs /\ None \notin RetirementJobs

VARIABLES
    receipts,   \* receipts[r]: None, Torn, or the publication it carries
    index,      \* None or [entries, current, alien]
    carrier,    \* None or the retirement whose postimage the index is
    pending,    \* None or [base, tries], the retirement under way
    temps,      \* publication-*.tmp files in the receipt directory
    refs,       \* receipts an admitted Planning owner references
    runs, done, \* publications with a run.json; with a completed.json
    binding,    \* the retirements admitted so far, in order
    lock,       \* the process that holds the owner's locks
    pc, job,    \* each process: next step, and what it works on
    crashes,    \* how often a process died
    changes,    \* how often the world changed
    quiet,      \* history: interrupted effects nobody interfered with
    smooth      \* history: whether every death so far left nothing half made

proofVars == <<receipts, index, carrier, pending, temps, refs>>
localVars == <<attempts, results, runs, done, binding>>
procVars == <<lock, pc, job>>
ghostVars == <<crashes, changes, quiet, smooth>>

EmptyIndex == [entries |-> {}, current |-> None, alien |-> FALSE]
Entries == IF index = None THEN {} ELSE index.entries
Whole(r) == receipts[r] \notin {None, Torn}
Present == {r \in Receipts : receipts[r] # None}

-----------------------------------------------------------------------------
(* observe_sources: everything a removal must find as it was planned; the  *)
(* index and its carrier are compared on their own.                        *)
Observation == [present |-> Present, temps |-> temps, refs |-> refs]

(* The index a retirement leaves: a legacy index loses every entry, another *)
(* only the selected ones; neither names a current publication.            *)
NextIndex(b) ==
    IF b.legacy THEN EmptyIndex
    ELSE IF b.index = None THEN EmptyIndex
    ELSE [b.index EXCEPT !.entries = @ \ b.selected, !.current = None]

(* owned_index: the custody carrier or the current receipt ties the index  *)
(* to a committed effect of this checkout.                                 *)
OwnedByCarrier(x) ==
    /\ carrier # None
    /\ Committed(Ret(carrier))
    /\ NextIndex(binding[carrier]) = x

OwnedByReceipt(x) ==
    /\ x.current \in x.entries
    /\ Whole(x.current)
    /\ Committed(Pub(x.current))
    /\ receipts[x.current].post = x

Owned(x) == x # None => OwnedByCarrier(x) \/ OwnedByReceipt(x)

-----------------------------------------------------------------------------
(* Processes, locks and deaths.                                            *)

At(p, label) == pc[p] = label
Goto(p, label) == pc' = [pc EXCEPT ![p] = label]
Start(p, label, j) ==
    /\ At(p, "idle")
    /\ Goto(p, label)
    /\ job' = [job EXCEPT ![p] = j]
    /\ UNCHANGED lock

(* Returning, failing and dying all close the lock files.                  *)
Leave(p) ==
    /\ Goto(p, "idle")
    /\ job' = [job EXCEPT ![p] = None]
    /\ lock' = IF lock = p THEN None ELSE lock

Continue(p, label) == Goto(p, label) /\ UNCHANGED <<job, lock>>
Rest(p, label, todo) ==
    /\ Goto(p, label)
    /\ job' = [job EXCEPT ![p].todo = todo]
    /\ UNCHANGED lock

(* retention_lock: waits up to two seconds, then fails "owner busy".       *)
Lock(p, from, to) ==
    /\ At(p, from)
    /\ \/ lock = None /\ lock' = p /\ Goto(p, to) /\ UNCHANGED job
       \/ lock # None /\ Leave(p)
    /\ UNCHANGED <<proofVars, localVars>>

StoreOwnerInit ==
    /\ StoreInit
    /\ receipts = [r \in Receipts |-> None]
    /\ index = None /\ carrier = None /\ pending = None
    /\ temps = 0
    /\ refs \in SUBSET Receipts
    /\ runs = {} /\ done = {}
    /\ binding = <<>>
    /\ lock = None
    /\ pc = [p \in Procs |-> "idle"]
    /\ job = [p \in Procs |-> None]
    /\ crashes = 0 /\ changes = 0
    /\ quiet = {} /\ smooth = TRUE
=============================================================================
