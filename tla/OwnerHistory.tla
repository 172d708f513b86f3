---------------------------- MODULE OwnerHistory ----------------------------
(***************************************************************************)
(* What the Planning owner promises about one plan, without files, locks,  *)
(* processes or attempts: the plan is the history of what was done to it.  *)
(* The owner appends a write only when every earlier write is settled;     *)
(* anyone else may append an edit at any time; a write is settled once,    *)
(* and only after it is part of the history.                               *)
(***************************************************************************)
EXTENDS Naturals, Sequences

CONSTANTS
    Writes,     \* what the owner can append
    Edited      \* a change made outside the owner

VARIABLES
    history,    \* the plan, as the sequence of its writes and edits
    settled     \* the histories whose last write has a committed result

historyVars == <<history, settled>>

HistoryInit == history = <<>> /\ settled = {}

(* The history each write produced.                                        *)
Versions(h) == {SubSeq(h, 1, k) : k \in {i \in 1 .. Len(h) : h[i] # Edited}}

Write(w) ==
    /\ Versions(history) \subseteq settled
    /\ history' = Append(history, w)
    /\ UNCHANGED settled

Edit ==
    /\ history # <<>>
    /\ history' = Append(history, Edited)
    /\ UNCHANGED settled

Settle(v) ==
    /\ v \in Versions(history) \ settled
    /\ settled' = settled \cup {v}
    /\ UNCHANGED history

HistoryNext ==
    \/ \E w \in Writes : Write(w)
    \/ Edit
    \/ \E v \in Versions(history) : Settle(v)

HistorySpec == HistoryInit /\ [][HistoryNext]_historyVars
=============================================================================
