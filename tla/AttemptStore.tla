---------------------------- MODULE AttemptStore ----------------------------
(***************************************************************************)
(* The files of .agentic-workspace/local/effects.  A logical effect owns   *)
(* two names: <key>.attempt.json, written when the effect is admitted, and *)
(* <key>.result.json, written when its owner commits an outcome.  Both are *)
(* opened with create_new and never rewritten, so a file that exists keeps *)
(* its name for ever: intact, or torn by a process that died between       *)
(* opening it and writing its last byte.  Custody of an effect is the hash *)
(* of its intact attempt; whoever holds it keeps it in a file of its own.  *)
(***************************************************************************)
CONSTANTS
    Effects,    \* the logical effects (idempotency keys)
    Outcomes,   \* what an owner can commit
    Absent,     \* no file under this name
    Torn,       \* a file whose writer died before the last byte
    Admitted    \* an intact attempt record

ASSUME StoreAssumption ==
    /\ Absent \notin Outcomes /\ Torn \notin Outcomes
    /\ Absent # Torn /\ Admitted # Absent /\ Admitted # Torn

VARIABLES
    attempts,   \* attempts[e]: the content of <e>.attempt.json
    results     \* results[e]: the content of <e>.result.json

storeVars == <<attempts, results>>

StoreTypeOK ==
    /\ attempts \in [Effects -> {Absent, Torn, Admitted}]
    /\ results \in [Effects -> Outcomes \cup {Absent, Torn}]

StoreInit ==
    /\ attempts = [e \in Effects |-> Absent]
    /\ results = [e \in Effects |-> Absent]

-----------------------------------------------------------------------------
(* Mutant: an attempt that already exists is taken over.                   *)
CanAdmitAgain(e) == results[e] = Absent

(* Admission without custody: a result nobody owns is preserved, and the   *)
(* attempt is created only while absent.                                   *)
CanAdmit(e) == results[e] = Absent /\ attempts[e] = Absent

Admit(e) ==
    /\ CanAdmit(e)
    /\ attempts' = [attempts EXCEPT ![e] = Admitted]
    /\ UNCHANGED results

(* The process dies inside the creation of the attempt.                    *)
TearAttempt(e) ==
    /\ CanAdmit(e)
    /\ attempts' = [attempts EXCEPT ![e] = Torn]
    /\ UNCHANGED results

(* Admission with custody reads the retained evidence and starts nothing.  *)
Committed(e) == attempts[e] = Admitted /\ results[e] \in Outcomes

(* Commit with a custody that names no result yet.                         *)
CanCommit(e) == attempts[e] = Admitted /\ results[e] = Absent

Commit(e, o) ==
    /\ CanCommit(e)
    /\ results' = [results EXCEPT ![e] = o]
    /\ UNCHANGED attempts

(* The process dies inside the creation of the result.                     *)
TearResult(e) ==
    /\ CanCommit(e)
    /\ results' = [results EXCEPT ![e] = Torn]
    /\ UNCHANGED attempts

(* The exact future result, named before the owner's effect: a result that *)
(* is already there must be that one.                                      *)
CanPrepare(e, o) == attempts[e] = Admitted /\ results[e] \in {Absent, o}
=============================================================================
