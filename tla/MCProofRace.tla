---------------------------- MODULE MCProofRace ----------------------------
(* Two processes at once, with one retirement and a death at a seam; one   *)
(* after the other, with two retirements and a death anywhere; or one      *)
(* after the other with two deaths at the seams, recoveries included.      *)
(* Changes of the consumers and the checkout count against the same bound. *)
EXTENDS MCProofOwner

VARIABLE mode

MCInit == Init /\ mode \in {"at once", "in turn", "seams"}

DeathAtSeam ==
    /\ \E p \in Procs : pc[p] \in MCSeams /\ pc'[p] = "idle"
    /\ UNCHANGED <<proofVars, localVars>>

MCNext ==
    /\ Next
    /\ crashes' <= IF mode = "seams" THEN 2 ELSE 1
    /\ crashes' + changes' <= IF mode = "at once" THEN 2 ELSE 3
    /\ mode # "at once" => \E p \in Procs : \A q \in Procs \ {p} : pc'[q] = "idle"
    /\ mode # "in turn" /\ crashes' > crashes => DeathAtSeam
    /\ mode = "at once" =>
          /\ Len(binding') <= 1
          /\ \A i \in 1 .. MaxRetirements : attempts'[Rec(i, 1)] = Absent
    /\ UNCHANGED mode

MCSpec == MCInit /\ [][MCNext]_<<vars, mode>>
=============================================================================
