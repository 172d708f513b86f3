-------------------------- MODULE MCPlanningOwner --------------------------
(* One plan, two materials.                                                *)
EXTENDS PlanningOwner

CONSTANTS p1, p2, m1, m2

MCOutcomes == {Done}

MCEffects ==
    {Post(u) : u \in Written}
      \cup {Recovery(u, n) : u \in {c \in Written : Len(c) > 1}, n \in 1 .. MaxTries}

(* The second death is that of a process that recovers alone.              *)
MCNext ==
    /\ Next
    /\ crashes' > 1 =>
          /\ \E p \in Procs : pc[p] = "idle" /\ pc'[p] = "idle"
          /\ crashes = 1 =>
                \E p \in Procs :
                   pc'[p] # pc[p] /\ pc[p] \in {"r-check", "r-admit", "r-final", "r-commit"}

MCSpec == Init /\ [][MCNext]_vars /\ PlanningFairness
MCSymmetry == Permutations(Procs) \cup Permutations(Materials)
=============================================================================
