---------------------------- MODULE MCDelegation ----------------------------
(* Two assignments, the second replacing the first, and two files.         *)
EXTENDS PatchIntegration, TLC

CONSTANTS p1, p2, d1, d2, f1, f2

(* Whether a behaviour is about processes that dispatch at once, or about  *)
(* integrations after dispatches that were left alone.                     *)
VARIABLE about

MCPrior == (d1 :> None) @@ (d2 :> d1)
MCEffects == Dispatches \cup Integrations
MCOutcomes == {"returned", "censored", Done}
MCSymmetry == Permutations(Procs)

MCInit == Init /\ about \in {"dispatch", "integration"}

(* Of an edit, a change of the assignment and a death any two happen.      *)
MCNext ==
    /\ Next
    /\ edits' + changes' + crashes' <= 2
    /\ about = "dispatch" =>
          /\ \A p \in Procs : pc'[p] # "p-lock"
          /\ files'[f1].own = "before" /\ files'[f2] = Captured
    /\ about = "integration" =>
          /\ \A p, q \in Procs : Dispatching(p)' /\ p # q => pc'[q] = "idle"
          /\ (\E p \in Procs : Dispatching(p)) => UNCHANGED <<edits, changes, crashes>>
          /\ \A d \in Dispatches : launched'[d] > 0 /\ results'[d] = Absent => \E p \in Procs : Dispatching(p)'
          /\ edits' + changes' + crashes' = 2 => \E p \in Procs : pc'[p] = "idle"
    /\ UNCHANGED about

MCSpec == MCInit /\ [][MCNext]_<<vars, about>>
=============================================================================
