------------------------------ MODULE MCUpkeep ------------------------------
(* What the core keeps beside its owners' files: a scratch container, a    *)
(* retained worktree, an assignment carried by hand and the judgments on a *)
(* source relation.  A behaviour is about one of them.                     *)
EXTENDS Scratch, Worktree, ManualCarriage, SourceReconciliation, TLC

CONSTANTS p1, p2, own, other, k1, k2, b1, b2

VARIABLE about

allVars == <<procVars, scratchVars, treeVars, manualVars, reconciliationVars, about>>

MCInit ==
    /\ ProcsInit /\ ScratchInit /\ WorktreeInit
    /\ ManualInit /\ packet = k1
    /\ ReconciliationInit
    /\ about \in {"scratch", "worktree", "manual", "judgments"}
    /\ post[1] = Absent => Members = {}
    /\ about # "judgments" => Absent \notin {post[1], post[2]}

Begins(p) == At(p, "idle") /\ ~At(p, "idle")'

(* One process does all for the task of the container; the other races it  *)
(* with a removal, a retention and the removal by another task.            *)
ScratchCase(p) ==
    IF p = p1 THEN job'[p].work = own
    ELSE job'[p].op \in IF job'[p].work = own THEN {"remove", "retain"} ELSE {"remove"}

MCScratch ==
    /\ about = "scratch" /\ ScratchNext
    /\ crashes' + turns' <= 1
    /\ \A p \in Procs : Begins(p) => ScratchCase(p)
    /\ UNCHANGED <<treeVars, manualVars, reconciliationVars, about>>

MCWorktree ==
    /\ about = "worktree" /\ WorktreeNext
    /\ born' <= 2 /\ crashes' + events' <= 2
    /\ UNCHANGED <<scratchVars, manualVars, reconciliationVars, about>>

(* One call at a time.  The second assignment is only exported, disposed   *)
(* of and retired, the second return only reported.                        *)
ManualCase(e) ==
    /\ e.packet = k2 => e.stage \in {"exported", "disposed", "retired"}
    /\ e.ret = b2 => e.stage = "reported"

MCManual ==
    /\ about = "manual" /\ ManualNext
    /\ crashes' + moves' <= 2
    /\ At(p2, "idle")'
    /\ Begins(p1) => ManualCase(job'[p1])
    /\ UNCHANGED <<scratchVars, treeVars, reconciliationVars, about>>

(* The second process arrives beside the first, at the beginning; the      *)
(* first file is in scope, or none is.                                     *)
JudgmentCase ==
    /\ At(p1, "r-enter") /\ job'[p2] # job[p1]
    /\ crashes + changes = 0

MCJudgments ==
    /\ about = "judgments" /\ ReconciliationNext
    /\ crashes' + changes' <= 2 /\ Cardinality(judged') <= 3
    /\ post'[1] = Absent => Members' = {}
    /\ Begins(p2) => JudgmentCase
    /\ UNCHANGED <<scratchVars, treeVars, manualVars, about>>

MCNext == MCScratch \/ MCWorktree \/ MCManual \/ MCJudgments

MCSpec == MCInit /\ [][MCNext]_allVars /\ ScratchFairness
=============================================================================
