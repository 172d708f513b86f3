-------------------------- MODULE MCProofExecution --------------------------
(* Two processes, an execution and its repeat, two states of the source.   *)
EXTENDS ProofExecution, TLC

CONSTANTS p1, p2, e1, e2, s1, s2

MCEffects == {e1, e2}
MCStatuses == {"passed", "failed"}
MCOutcomes == [process : MCStatuses, current : BOOLEAN, admitted : BOOLEAN]
MCSubjectOf == e1 :> s1 @@ e2 :> s1
MCRepeatOf == e1 :> None @@ e2 :> e1
=============================================================================
