----------------------------- MODULE Filtering -----------------------------
(***************************************************************************)
(* What retain and filter leave of a list.                                 *)
(***************************************************************************)
EXTENDS Naturals, Sequences

(* The elements of s that are in wanted, in their order.                   *)
Filtered(s, wanted) ==
    LET filtered[n \in 0 .. Len(s)] ==
            IF n = 0 THEN <<>>
            ELSE IF s[n] \in wanted THEN Append(filtered[n - 1], s[n]) ELSE filtered[n - 1]
    IN filtered[Len(s)]
=============================================================================
