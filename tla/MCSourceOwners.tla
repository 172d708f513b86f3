--------------------------- MODULE MCSourceOwners ---------------------------
(* Three owners, two of them called in a behaviour, and two contents.  The *)
(* configuration is there from the start and is never removed.  Contents   *)
(* of different sources are never compared, so c1 stands for either where  *)
(* a behaviour starts with one.                                            *)
EXTENDS SourceOwners, TLC

CONSTANTS p1, p2, c1, c2, t1

VARIABLE called    \* the owners that are called, and whose sources are edited

MCOutcomes == {Done}

MCEffects == Written \cup Deferred \cup Recovered

MCSymmetry == Permutations(Procs)

MCInit ==
    /\ Init
    /\ called \in {{"configuration", "instructions"}, {"configuration", "system-intent"}}
    /\ \A k \in Kinds \ called : source[k] = Absent
    /\ source["configuration"] = c1 /\ \A k \in Kinds : source[k] # c2

MCNext ==
    /\ Next
    /\ \A p \in Procs : job'[p] # None => job'[p].kind \in called
    /\ \A k \in Kinds \ called : source'[k] = source[k]
    /\ source'["configuration"] # Absent
    /\ UNCHANGED called

MCSpec == MCInit /\ [][MCNext]_<<vars, called>>
=============================================================================
