------------------------------ MODULE Worktree ------------------------------
(***************************************************************************)
(* An isolated Git worktree made for a task (native_resources.rs).  Git    *)
(* keeps the registration and its lock, whose reason names this owner; the *)
(* owner adds a custody file beside it that leases the output directories  *)
(* it made.  No lock of the owner is taken: a call observes, compares with *)
(* the revision it brings, and goes through several Git commands.          *)
(***************************************************************************)
EXTENDS Processes

CONSTANTS
    Lease,          \* an intact custody file
    MaxEvents       \* how many things happen in or about the checkout

(* What Git and the owner keep about a checkout.                           *)
Trees == [locked : BOOLEAN, custody : {Absent, Torn, Lease}, there : BOOLEAN, dirty : BOOLEAN,
          outputs : {"none", "built", "tracked"}, head : Nat, kept : Nat]

ASSUME TreeMarksAssumption ==
    /\ Absent # Torn /\ Absent # Lease /\ Torn # Lease
    /\ Absent \notin Trees

VARIABLES
    tree,           \* Absent, or the registration and its checkout
    continuity,     \* whether the seed holds the current Planning owner
    cited,          \* whether another owner names the checkout
    events,
    born            \* history: how many checkouts were made; a removal notes which it saw

treeVars == <<tree, continuity, cited, events, born>>

WorktreeInit ==
    /\ tree = Absent
    /\ continuity = TRUE /\ cited = FALSE /\ events = 0 /\ born = 0

(* A checkout of the seed: nothing untracked, nothing built, no commit.    *)
Fresh == [locked |-> TRUE, custody |-> Absent, there |-> TRUE, dirty |-> FALSE,
          outputs |-> "none", head |-> 0, kept |-> 0]

-----------------------------------------------------------------------------
(* Whether git status shows anything, apart from the leased outputs.       *)
Dirty(leased) == tree.dirty \/ (~leased /\ tree.outputs = "built")

Leased == tree.custody = Lease

(* Mutant: commits that are in no branch, remote or tag do not block.      *)
RemovableUnintegrated ==
    /\ tree.custody # Torn
    /\ tree.locked \/ Leased
    /\ tree.there => ~Dirty(Leased) /\ ~(Leased /\ tree.outputs = "tracked")
    /\ ~cited

(* The registration is this owner's, the checkout is clean, every commit   *)
(* is in some ref (head <= kept), nobody else names it.                    *)
RemovableTree ==
    /\ tree.custody # Torn
    /\ tree.locked \/ Leased
    /\ tree.there => ~Dirty(Leased) /\ ~(Leased /\ tree.outputs = "tracked")
    /\ tree.head <= tree.kept
    /\ ~cited

PermittedTree(op) ==
    CASE op = "tree-create" -> tree = Absent /\ continuity
      [] op = "tree-remove" -> tree # Absent => RemovableTree

(* What the proposal depends on; built output is not part of it.           *)
SeenTree ==
    IF tree = Absent THEN Absent
    ELSE [tree EXCEPT !.outputs = IF Leased /\ @ = "built" THEN "none" ELSE @]

ProposeTree(p, op) ==
    /\ PermittedTree(op)
    /\ Begin(p, "t-proposed", [op |-> op, seen |-> SeenTree])
    /\ UNCHANGED treeVars

(* The call makes the same view again, which must come to the same.        *)
CurrentTree(p) == PermittedTree(job[p].op) /\ SeenTree = job[p].seen

AdmitTree(p) ==
    /\ At(p, "t-proposed") /\ CurrentTree(p)
    /\ Keep(p, CASE job[p].op = "tree-create" -> "t-add"
                 [] job[p].op = "tree-remove" /\ tree # Absent -> "t-compare"
                 [] OTHER -> "t-done", born)
    /\ UNCHANGED treeVars

-----------------------------------------------------------------------------
(* git worktree add --lock registers, checks out and locks in one command, *)
(* and refuses a path that is taken.                                       *)
AddTree(p) ==
    /\ At(p, "t-add") /\ continuity /\ tree = Absent
    /\ tree' = Fresh
    /\ born' = born + 1
    /\ Go(p, "t-outputs")
    /\ UNCHANGED <<continuity, cited, events>>

(* The output roots are made where nothing is.                             *)
MakeOutputs(p) ==
    /\ At(p, "t-outputs") /\ tree # Absent /\ tree.outputs = "none"
    /\ Go(p, "t-custody")
    /\ UNCHANGED treeVars

WriteLease(p) ==
    /\ At(p, "t-custody") /\ tree # Absent
    /\ tree' = [tree EXCEPT !.custody = Lease]
    /\ Go(p, "t-done")
    /\ UNCHANGED <<continuity, cited, events, born>>

-----------------------------------------------------------------------------
(* Whether the registration this process saw leases its outputs.           *)
SawLease(p) == job[p].seen.custody = Lease

SameTree(p) ==
    tree # Absent /\ tree.there =>
       /\ ~Dirty(SawLease(p)) /\ ~(SawLease(p) /\ tree.outputs = "tracked")
       /\ tree.head = job[p].seen.head

(* Status and commit are compared at the barrier, not the registration.    *)
CompareTree(p) ==
    /\ At(p, "t-compare") /\ SameTree(p)
    /\ Go(p, "t-clean")
    /\ UNCHANGED treeVars

(* The leased outputs are removed, whatever was built in them; a file that *)
(* was committed there meanwhile is then missing from the checkout.        *)
CleanOutputs(p) ==
    /\ At(p, "t-clean")
    /\ tree' = IF tree # Absent /\ tree.there /\ SawLease(p)
               THEN [tree EXCEPT !.outputs = "none", !.dirty = @ \/ tree.outputs = "tracked"]
               ELSE tree
    /\ Go(p, "t-status")
    /\ UNCHANGED <<continuity, cited, events, born>>

(* The status without any exclusion must be empty now.                     *)
StatusClean == tree # Absent /\ tree.there => ~Dirty(FALSE)

CheckStatus(p) ==
    /\ At(p, "t-status") /\ StatusClean
    /\ Go(p, IF job[p].seen.locked THEN "t-unlock" ELSE "t-remove")
    /\ UNCHANGED treeVars

Unlock(p) ==
    /\ At(p, "t-unlock") /\ tree # Absent /\ tree.locked
    /\ tree' = [tree EXCEPT !.locked = FALSE]
    /\ Go(p, "t-remove")
    /\ UNCHANGED <<continuity, cited, events, born>>

(* Git removes an unlocked registration; a checkout that is there only     *)
(* when it is clean.                                                       *)
GitRemoves == tree # Absent /\ ~tree.locked /\ (tree.there => ~tree.dirty)

RemoveTree(p) ==
    /\ At(p, "t-remove") /\ GitRemoves
    /\ tree' = Absent
    /\ Go(p, "t-done")
    /\ UNCHANGED <<continuity, cited, events, born>>

(* Mutant: the registration stays unlocked.                                *)
RelockForgotten(p) ==
    /\ At(p, "t-remove") /\ ~GitRemoves
    /\ Stop(p)
    /\ UNCHANGED treeVars

(* A removal Git refuses puts the lock back, if there was one.             *)
Relock(p) ==
    /\ At(p, "t-remove") /\ ~GitRemoves
    /\ tree' = IF tree = Absent THEN Absent ELSE [tree EXCEPT !.locked = @ \/ job[p].seen.locked]
    /\ Stop(p)
    /\ UNCHANGED <<continuity, cited, events, born>>

FinishTree(p) ==
    /\ At(p, "t-done")
    /\ Stop(p)
    /\ UNCHANGED treeVars

MayTree(p) ==
    CASE At(p, "t-proposed") -> CurrentTree(p)
      [] At(p, "t-add") -> continuity /\ tree = Absent
      [] At(p, "t-outputs") -> tree # Absent /\ tree.outputs = "none"
      [] At(p, "t-custody") -> tree # Absent
      [] At(p, "t-compare") -> SameTree(p)
      [] At(p, "t-status") -> StatusClean
      [] At(p, "t-unlock") -> tree # Absent /\ tree.locked
      [] OTHER -> TRUE

RefuseTree(p) ==
    /\ ~At(p, "idle") /\ ~MayTree(p)
    /\ Stop(p)
    /\ UNCHANGED treeVars

DieTree(p) ==
    /\ Dies(p)
    /\ \/ UNCHANGED tree
       \/ /\ At(p, "t-custody") /\ tree # Absent
          /\ tree' = [tree EXCEPT !.custody = Torn]
    /\ UNCHANGED <<continuity, cited, events, born>>

-----------------------------------------------------------------------------
(* Work in the checkout: files, commits, builds, integration of commits,   *)
(* a checkout deleted by hand.  And what others decide about it.           *)
Work ==
    /\ tree # Absent
    /\ \/ /\ tree.there
          /\ \/ tree' = [tree EXCEPT !.dirty = ~@]
             \/ ~tree.dirty /\ tree.head = tree.kept /\ tree' = [tree EXCEPT !.head = @ + 1]
             \/ tree.outputs = "none" /\ tree' = [tree EXCEPT !.outputs = "built"]
             \/ tree.outputs = "built" /\ tree' = [tree EXCEPT !.outputs = "tracked", !.head = @ + 1]
             \/ tree' = [tree EXCEPT !.there = FALSE, !.dirty = FALSE, !.outputs = "none"]
       \/ tree.head > tree.kept /\ tree' = [tree EXCEPT !.kept = tree.head]
    /\ UNCHANGED <<continuity, cited>>

Decide ==
    /\ \/ continuity' = ~continuity /\ UNCHANGED cited
       \/ cited' = ~cited /\ UNCHANGED continuity
    /\ UNCHANGED tree

Around ==
    /\ events < MaxEvents /\ events' = events + 1
    /\ Work \/ Decide
    /\ UNCHANGED <<procVars, born>>

WorktreeNext ==
    \/ \E p \in Procs :
          \/ \E op \in {"tree-create", "tree-remove"} : ProposeTree(p, op)
          \/ AdmitTree(p) \/ AddTree(p) \/ MakeOutputs(p) \/ WriteLease(p)
          \/ CompareTree(p) \/ CleanOutputs(p) \/ CheckStatus(p)
          \/ Unlock(p) \/ RemoveTree(p) \/ Relock(p)
          \/ FinishTree(p) \/ RefuseTree(p) \/ DieTree(p)
    \/ Around

-----------------------------------------------------------------------------
(* A registration stays this owner's to remove: without its lock it still  *)
(* has its lease, except while a removal is between the two Git commands   *)
(* or when one died there.                                                 *)
TreeStaysOwned ==
    tree # Absent /\ ~tree.locked /\ tree.custody = Absent =>
       crashes > 0 \/ \E p \in Procs : At(p, "t-remove")

(* "Material is preserved": a removal that meets the checkout it observed  *)
(* takes no commit it has seen that is not integrated, nothing untracked,  *)
(* and no outputs but those that were leased.                              *)
TreesKept ==
    [][\A p \in Procs : pc[p] \in {"t-clean", "t-remove"} /\ note[p] = born =>
          /\ At(p, "t-remove") /\ tree # Absent /\ tree' = Absent =>
                /\ ~tree.dirty
                /\ job[p].seen.head <= tree.kept
          /\ At(p, "t-clean") /\ pc'[p] = "t-status" /\ tree' # tree => tree.custody # Absent]_<<procVars, treeVars>>
=============================================================================
