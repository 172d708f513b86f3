---------------------------- MODULE MCProofOwner ----------------------------
(* Two receipts, the second superseding the first.                         *)
EXTENDS ProofOwner, TLC

CONSTANTS p1, p2, r1, r2

MCSupersedes == {<<r2, r1>>}
MCOutcomes == {Done}
MCEffects ==
    {Pub(r) : r \in Receipts}
      \cup {Ret(i) : i \in 1 .. MaxRetirements}
      \cup {Rec(i, n) : i \in 1 .. MaxRetirements, n \in 0 .. MaxTries}

(* The seams between the file changes an effect makes.                     *)
MCSeams == {"pub-temp", "remove", "commit", "pub-complete",
            "ret-index", "ret-verify", "ret-remove", "ret-carrier"}
MCAnywhere == PCs \ {"idle"}
MCSymmetry == Permutations(Procs)
=============================================================================
