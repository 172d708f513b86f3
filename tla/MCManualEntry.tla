--------------------------- MODULE MCManualEntry ---------------------------
(* One assignment, one return, one caller.                                 *)
EXTENDS ManualCarriage, TLC

CONSTANTS p1, k1, b1

vars == <<procVars, manualVars>>

Init == ProcsInit /\ ManualInit
Next == ManualNext
Spec == Init /\ [][Next]_vars
=============================================================================
