--------------------------- MODULE ProofRetirement ---------------------------
(***************************************************************************)
(* verification.retire-receipts and verification.recover-retirement        *)
(* (native_proof_retention.rs): an agent judges offered receipts without   *)
(* continuing value, or an index nobody owns, and the owner drops them     *)
(* from the index, removes the files and records, in the custody carrier,  *)
(* that it wrote the index.  The pending record makes the rest recoverable. *)
(***************************************************************************)
EXTENDS ProofStore, Sequences

(* The attempt names the exact record under recovery.                      *)
Base == Ret(pending.base)

(* retained(): the pending record still agrees with its attempts.          *)
PendingIntact ==
    /\ CanPrepare(Base, Done)
    /\ pending.tries > 0 => CanPrepare(Rec(pending.base, pending.tries - 1), Done)

-----------------------------------------------------------------------------
(* inventory                                                               *)

Transfer == ~Owned(index)

(* The current receipt of an index to transfer must still be admitted by   *)
(* its consumer, or nothing is offered.                                    *)
InventoryReadable ==
    Transfer /\ index.current \in Present =>
        Whole(index.current) /\ index.current \in refs

Legacy == Transfer /\ Entries # {} /\ index.current \notin Present

(* Repository receipts nobody references; LIMIT is above any set here.     *)
OfferedReceipts == {r \in Receipts : Whole(r) /\ r \notin refs}

(* What a retirement is bound to: the judged selection and everything the  *)
(* inventory observed.  Equal bindings are the same logical effect.        *)
Binding(selected) ==
    [selected |-> selected, index |-> index, legacy |-> Legacy,
     seen |-> Observation, carrier |-> carrier]

Selectable(selected) ==
    /\ pending = None
    /\ InventoryReadable
    /\ selected \subseteq OfferedReceipts
    /\ selected # {} \/ Transfer

BoundTo(b) == {i \in DOMAIN binding : binding[i] = b}

-----------------------------------------------------------------------------
(* Mutant: the present index is not compared with the one judged.          *)
VerifiedAnyIndex(i, allowAbsent) ==
    LET b == binding[i]
        gone == IF allowAbsent THEN b.selected ELSE {}
    IN /\ \/ carrier = b.carrier
          \/ allowAbsent /\ pending # None /\ pending.base = i /\ carrier = i
       /\ Present \subseteq b.seen.present
       /\ b.seen.present \ gone \subseteq Present
       /\ temps = b.seen.temps
       /\ refs = b.seen.refs

(* verify: index, carrier, sources and guards are as bound, or, when       *)
(* allowed, as this retirement itself changes them.                        *)
Verified(i, allowAbsent) ==
    LET b == binding[i]
        gone == IF allowAbsent THEN b.selected ELSE {}
        now == Observation
    IN /\ \/ index = b.index
          \/ allowAbsent /\ index = NextIndex(b)
       /\ \/ carrier = b.carrier
          \/ allowAbsent /\ pending # None /\ pending.base = i /\ carrier = i
       /\ now.present \subseteq b.seen.present
       /\ b.seen.present \ gone \subseteq now.present
       /\ now.temps = b.seen.temps
       /\ now.refs = b.seen.refs

Aborting(p) == Leave(p) /\ UNCHANGED <<proofVars, localVars>>

EnterRetire(p) ==
    /\ Len(binding) < MaxRetirements
    /\ \E selected \in SUBSET OfferedReceipts :
          /\ Selectable(selected)
          /\ Start(p, "ret-lock", [bound |-> Binding(selected)])
    /\ UNCHANGED <<proofVars, localVars>>

EnterRecovery(p) ==
    /\ pending # None
    /\ PendingIntact
    /\ pending.tries <= MaxTries
    /\ Start(p, "ret-lock", [bound |-> pending])
    /\ UNCHANGED <<proofVars, localVars>>

RetireLock(p) == Lock(p, "ret-lock", "ret-admit")

(* Under the locks the action must still be the offered one.               *)
StillRetiring(b) ==
    /\ "selected" \in DOMAIN b
    /\ Selectable(b.selected) /\ b = Binding(b.selected)

StillRecovering(b) == "base" \in DOMAIN b /\ pending = b /\ PendingIntact

(* The attempt is created before anything is verified; an attempt that     *)
(* exists, from a run that got no further, is refused.                     *)
AdmitRetirement(p) ==
    LET b == job[p].bound
        i == Len(binding) + 1
    IN /\ At(p, "ret-admit")
       /\ StillRetiring(b) /\ BoundTo(b) = {} /\ i <= MaxRetirements
       /\ Admit(Ret(i))
       /\ binding' = Append(binding, b)
       /\ Goto(p, "ret-record")
       /\ job' = [job EXCEPT ![p] = [i |-> i, own |-> Ret(i), todo |-> b.selected]]
       /\ UNCHANGED <<proofVars, runs, done, lock>>

AdmitRecovery(p) ==
    LET b == job[p].bound
        own == Rec(b.base, b.tries)
    IN /\ At(p, "ret-admit")
       /\ StillRecovering(b)
       /\ Admit(own)
       /\ Goto(p, "ret-record")
       /\ job' = [job EXCEPT ![p] = [i |-> b.base, own |-> own,
                                     todo |-> binding[b.base].selected]]
       /\ UNCHANGED <<proofVars, runs, done, binding, lock>>

RefuseRetirement(p) ==
    LET b == job[p].bound
    IN /\ At(p, "ret-admit")
       /\ StillRetiring(b) => BoundTo(b) # {} \/ Len(binding) = MaxRetirements
       /\ StillRecovering(b) => ~CanAdmit(Rec(b.base, b.tries))
       /\ Aborting(p)

Recovering(p) == job[p].own # Ret(job[p].i)

(* The record is written aside, verified and renamed over the old one.     *)
Recordable(p) ==
    IF Recovering(p)
    THEN Verified(job[p].i, TRUE)
    ELSE Verified(job[p].i, FALSE) /\ Selectable(binding[job[p].i].selected)

Record(p) ==
    /\ At(p, "ret-record")
    /\ \/ /\ Recordable(p)
          /\ pending' = [base |-> job[p].i,
                         tries |-> IF Recovering(p) THEN pending.tries + 1 ELSE 0]
          /\ Continue(p, "ret-index")
          /\ UNCHANGED <<receipts, index, carrier, temps, refs, localVars>>
       \/ ~Recordable(p) /\ Aborting(p)

(* verify, then replace_exact, which accepts its own postimage.            *)
ReplaceIndex(p) ==
    /\ At(p, "ret-index")
    /\ \/ /\ Verified(job[p].i, TRUE)
          /\ index' = NextIndex(binding[job[p].i])
          /\ Continue(p, "ret-verify")
          /\ UNCHANGED <<receipts, carrier, pending, temps, refs, localVars>>
       \/ ~Verified(job[p].i, TRUE) /\ Aborting(p)

VerifyReplaced(p) ==
    /\ At(p, "ret-verify")
    /\ IF Verified(job[p].i, TRUE) THEN Continue(p, "ret-remove") ELSE Leave(p)
    /\ UNCHANGED <<proofVars, localVars>>

RetireOne(p) ==
    /\ At(p, "ret-remove")
    /\ job[p].todo # {}
    /\ \/ /\ Verified(job[p].i, TRUE)
          /\ \E r \in job[p].todo :
                /\ receipts' = [receipts EXCEPT ![r] = None]
                /\ Rest(p, "ret-remove", job[p].todo \ {r})
          /\ UNCHANGED <<index, carrier, pending, temps, refs, localVars>>
       \/ ~Verified(job[p].i, TRUE) /\ Aborting(p)

(* Mutant: the record is cleared without the custody carrier.              *)
CommitAndClear(p) ==
    LET e == Ret(job[p].i)
    IN /\ At(p, "ret-remove")
       /\ job[p].todo = {}
       /\ \/ CanCommit(e) /\ Commit(e, Done) /\ Continue(p, "ret-clear")
          \/ /\ Committed(e)
             /\ Continue(p, "ret-clear")
             /\ UNCHANGED storeVars
          \/ ~CanPrepare(e, Done) /\ Leave(p) /\ UNCHANGED storeVars
       /\ UNCHANGED <<proofVars, runs, done, binding>>

(* prepare_commit, then commit of the original, already committed or not.  *)
CommitRetirement(p) ==
    LET e == Ret(job[p].i)
    IN /\ At(p, "ret-remove")
       /\ job[p].todo = {}
       /\ \/ CanCommit(e) /\ Commit(e, Done) /\ Continue(p, "ret-carrier")
          \/ /\ Committed(e)
             /\ Continue(p, "ret-carrier")
             /\ UNCHANGED storeVars
          \/ ~CanPrepare(e, Done) /\ Leave(p) /\ UNCHANGED storeVars
       /\ UNCHANGED <<proofVars, runs, done, binding>>

ReplaceCarrier(p) ==
    LET b == binding[job[p].i]
        next == IF Recovering(p) THEN "ret-own" ELSE "ret-clear"
    IN /\ At(p, "ret-carrier")
       /\ \/ /\ carrier \in {job[p].i, b.carrier}
             /\ carrier' = job[p].i
             /\ Continue(p, next)
             /\ UNCHANGED <<receipts, index, pending, temps, refs, localVars>>
          \/ carrier \notin {job[p].i, b.carrier} /\ Aborting(p)

CommitRecovery(p) ==
    /\ At(p, "ret-own")
    /\ \/ Commit(job[p].own, Done) /\ Continue(p, "ret-clear")
       \/ ~CanCommit(job[p].own) /\ Leave(p) /\ UNCHANGED storeVars
    /\ UNCHANGED <<proofVars, runs, done, binding>>

ClearPending(p) ==
    /\ At(p, "ret-clear")
    /\ pending' = None
    /\ Leave(p)
    /\ UNCHANGED <<receipts, index, carrier, temps, refs, localVars>>

Retire(p) ==
    \/ EnterRetire(p)
    \/ EnterRecovery(p)
    \/ RetireLock(p)
    \/ AdmitRetirement(p)
    \/ AdmitRecovery(p)
    \/ RefuseRetirement(p)
    \/ Record(p)
    \/ ReplaceIndex(p)
    \/ VerifyReplaced(p)
    \/ RetireOne(p)
    \/ CommitRetirement(p)
    \/ ReplaceCarrier(p)
    \/ CommitRecovery(p)
    \/ ClearPending(p)
==============================================================================
