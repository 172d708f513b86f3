------------------------ MODULE SourceReconciliation ------------------------
(***************************************************************************)
(* Judgments on one source relation (native_source_reconciliation.rs): the *)
(* work that a governing source covers is judged in groups, each published *)
(* as a receipt, and the current projection lists the receipts that count. *)
(* The name of a receipt is the digest of its binding, so a receipt is its *)
(* binding here.  publication.lock and source-reconciliation.lock are      *)
(* always taken together and are one lock.                                 *)
(***************************************************************************)
EXTENDS Processes, FiniteSets

CONSTANTS
    Subjects,       \* work files in scope, numbered in the order of their names
    GroupSize,      \* how many of them one judgment covers
    Tasks,          \* tasks that ask
    MaxChanges      \* changes that others make

ASSUME ReconciliationAssumption ==
    /\ Subjects \subseteq Nat
    /\ GroupSize \in Nat \ {0} /\ MaxChanges \in Nat

VARIABLES
    basis,          \* revision of sources, dependencies, declarations, authority
    post,           \* post[s]: Absent, or the revision of a work file
    citations,      \* receipts that other owners' files name
    receipts,       \* the receipt files, by binding
    projection,     \* the current projection: the places of the receipts it lists, none if there is no file
    projectionTemp, \* its temporary, possibly Torn
    judged,         \* intact attempts, by the request they carry out
    settledJudgments,   \* intact results
    broken,         \* torn attempts and results
    proofLock,      \* who holds the two locks
    changes

worldVars == <<basis, post, citations, changes>>
publishedVars == <<receipts, projection, projectionTemp>>
judgmentVars == <<judged, settledJudgments, broken>>
reconciliationVars == <<worldVars, publishedVars, judgmentVars, proofLock>>

ReconciliationInit ==
    /\ basis = 0
    /\ post \in [Subjects -> {Absent, 0}]
    /\ citations = {} /\ changes = 0
    /\ receipts = <<>> /\ projection = <<>> /\ projectionTemp = Absent
    /\ judged = {} /\ settledJudgments = {} /\ broken = {}
    /\ proofLock = None

-----------------------------------------------------------------------------
(* What is in scope now, and the binding of a group of it.                 *)
Members == {s \in Subjects : post[s] # Absent}

Binding(group) == [basis |-> basis, post |-> [s \in group |-> post[s]]]

Group(b) == DOMAIN b.post

(* The exact declarations, sources and postimages it was judged on are the *)
(* present ones.                                                           *)
SameWork(b) == \A s \in Group(b) : post[s] = b.post[s]

SameBasis(b) == b.basis = basis /\ SameWork(b)

Listed == DOMAIN projection

(* A receipt that can be read, whose producer's custody can be verified: a *)
(* torn result is not the one its custody names.                           *)
Held(b) == b \in DOMAIN receipts /\ receipts[b].at # "torn"

Legible(b) ==
    b \in DOMAIN receipts =>
       /\ receipts[b].at # "torn"
       /\ <<"result", receipts[b].request>> \notin broken

CommittedJudgment(b) == Held(b) /\ receipts[b].request \in settledJudgments

(* Every entry reads the receipts that are listed, and what holds of them. *)
ListLegible ==
    \A b \in Listed : Held(b) /\ (SameBasis(b) => Legible(b))

(* Listed, on the present basis, published and committed.                  *)
InForce(b) ==
    /\ b \in Listed /\ SameBasis(b)
    /\ CommittedJudgment(b) /\ receipts[b].at # "tmp"

Covered == UNION {Group(b) : b \in {c \in Listed : InForce(c)}}

(* The first files, in order, that no current group covers.                *)
NextGroup ==
    LET open == Members \ Covered
    IN Binding({s \in open : Cardinality({t \in open : t < s}) < GroupSize})

(* A plan reads all that are listed with their custody, whatever has become*)
(* of their basis.                                                         *)
PlanLegible == \A b \in Listed : Held(b) /\ Legible(b)

(* What a request may be about: the next group, be it empty, or a listed   *)
(* one that is named by its binding.                                       *)
Askable == {b \in Listed : SameBasis(b)} \cup {NextGroup}

(* Nothing is left to judge: an empty scope needs a judgment too.          *)
AllCurrent == Members \subseteq Covered /\ \E b \in Listed : InForce(b)

Offered == IF AllCurrent THEN {b \in Listed : SameBasis(b)} ELSE Askable

(* The owner's answer to this very request is the action: it is about what *)
(* may be asked, the membership is the one it was issued for, and a        *)
(* judgment that was committed is not revived from history.  What it will  *)
(* write is looked up with it, which makes the plan of a new receipt.      *)
Admissible(r) ==
    /\ ListLegible
    /\ r.binding \in Askable
    /\ r.members = Members
    /\ Legible(r.binding)
    /\ CommittedJudgment(r.binding) => r.binding \in Listed
    /\ r.binding \notin DOMAIN receipts => PlanLegible

-----------------------------------------------------------------------------
(* What the removal of superseded receipts depends on: every observed file *)
(* but those removed, the projection and the one published.                *)
Guard(b, drop) ==
    [cited |-> citations,
     files |-> {<<c, receipts[c].at>> : c \in DOMAIN receipts \ ({b} \cup drop)}]

Disjoint(b, c) == Group(b) \cap Group(c) = {}

(* Mutant: a new judgment supersedes every group.                          *)
StaysNone(b, c) == FALSE

(* A listed group stays beside a new judgment when it has its basis and    *)
(* none of its files.                                                      *)
Stays(b, c) == b.basis = c.basis /\ SameWork(c) /\ Disjoint(b, c)

(* The list without what does not stay, in its order, with b at its end.   *)
Relisted(b) ==
    LET stay == {c \in Listed : Stays(b, c)}
    IN [c \in stay \cup {b} |->
          IF c = b THEN Cardinality(stay) + 1
          ELSE Cardinality({d \in stay : projection[d] <= projection[c]})]

(* The projection after, and the superseded receipts that go: committed,   *)
(* named by nobody else.                                                   *)
GroupPlan(b) ==
    LET candidates == {c \in Listed : ~Stays(b, c) /\ c # b /\ CommittedJudgment(c)}
        drop == candidates \ citations
    IN [before |-> projection,
        paths |-> Relisted(b),
        drop |-> drop,
        guard |-> IF candidates = {} THEN None ELSE Guard(b, drop),
        asof |-> changes]

(* automatic_check: nothing that was observed has changed; what is removed *)
(* is there, or may be gone already.                                       *)
MayRemove(b, plan, absentToo) ==
    plan.drop # {} =>
       /\ \A c \in plan.drop : ~absentToo => c \in DOMAIN receipts
       /\ Guard(b, plan.drop) = plan.guard

-----------------------------------------------------------------------------
(* A judge has read the material and confirms; a caller comes back for     *)
(* what was interrupted, whose request must be the one that would be       *)
(* issued now; or repeats an invocation it kept.                           *)
Confirm(p, b, t) ==
    LET r == [binding |-> b, members |-> Members, task |-> t]
    IN /\ Admissible(r)
       /\ ~CommittedJudgment(b)
       /\ Begin(p, "r-enter", r)
       /\ UNCHANGED reconciliationVars

Resume(p) ==
    /\ ListLegible /\ ~AllCurrent
    /\ Held(NextGroup)
    /\ Admissible(receipts[NextGroup].request)
    /\ Begin(p, "r-enter", receipts[NextGroup].request)
    /\ UNCHANGED reconciliationVars

RepeatJudgment(p, r) ==
    /\ Admissible(r)
    /\ Begin(p, "r-enter", r)
    /\ UNCHANGED reconciliationVars

Mine(p) == job[p].binding

(* Under both locks: the receipt of this binding is this invocation's.     *)
PriorMine(p) == Mine(p) \in DOMAIN receipts => receipts[Mine(p)].request = job[p]

EnterReconciliation(p) ==
    /\ At(p, "r-enter") /\ proofLock = None
    /\ Legible(Mine(p)) /\ PriorMine(p)
    /\ proofLock' = p
    /\ Keep(p, "r-admit", [prior |-> Held(Mine(p)), plan |-> None])
    /\ UNCHANGED <<worldVars, publishedVars, judgmentVars>>

(* Without a receipt there is no custody, and an attempt that exists is    *)
(* preserved.                                                              *)
AdmitsJudgment(p) ==
    /\ Admissible(job[p])
    /\ ~note[p].prior =>
          /\ job[p] \notin judged \cup settledJudgments
          /\ \A f \in {"attempt", "result"} : <<f, job[p]>> \notin broken

AdmitJudgment(p) ==
    /\ At(p, "r-admit") /\ AdmitsJudgment(p)
    /\ judged' = judged \cup {job[p]}
    /\ Go(p, "r-plan")
    /\ UNCHANGED <<worldVars, publishedVars, settledJudgments, broken, proofLock>>

PlanGroup(p) ==
    /\ At(p, "r-plan") /\ (note[p].prior \/ PlanLegible)
    /\ Keep(p, "r-stage",
            [note[p] EXCEPT !.plan = IF note[p].prior THEN receipts[Mine(p)].plan
                                     ELSE GroupPlan(Mine(p))])
    /\ UNCHANGED reconciliationVars

WithReceipt(b, file) == [c \in DOMAIN receipts \cup {b} |-> IF c = b THEN file ELSE receipts[c]]

(* The receipt carries the custody of the result that will be committed    *)
(* and the plan.                                                           *)
StageReceipt(p) ==
    /\ At(p, "r-stage") /\ Admissible(job[p])
    /\ IF note[p].prior THEN UNCHANGED receipts
       ELSE /\ Mine(p) \notin DOMAIN receipts
            /\ receipts' = WithReceipt(Mine(p),
                              [at |-> "tmp", request |-> job[p], plan |-> note[p].plan])
    /\ Go(p, "r-link")
    /\ UNCHANGED <<worldVars, projection, projectionTemp, judgmentVars, proofLock>>

LinkReceipt(p) ==
    /\ At(p, "r-link") /\ Admissible(job[p])
    /\ receipts' = [receipts EXCEPT ![Mine(p)].at = IF @ = "tmp" THEN "both" ELSE @]
    /\ Go(p, "r-unstage")
    /\ UNCHANGED <<worldVars, projection, projectionTemp, judgmentVars, proofLock>>

UnstageReceipt(p) ==
    /\ At(p, "r-unstage")
    /\ receipts' = [receipts EXCEPT ![Mine(p)].at = "path"]
    /\ Go(p, "r-check")
    /\ UNCHANGED <<worldVars, projection, projectionTemp, judgmentVars, proofLock>>

CheckGroup(p) ==
    /\ At(p, "r-check") /\ Admissible(job[p])
    /\ MayRemove(Mine(p), note[p].plan, note[p].prior)
    /\ Go(p, "r-project")
    /\ UNCHANGED reconciliationVars

(* Mutant: whatever the projection has become meanwhile.                   *)
ProjectableAnyway(p) ==
    projection # note[p].plan.paths => projectionTemp \in {Absent, note[p].plan.paths}

(* The projection is the planned one, or what it was when it was planned;  *)
(* a temporary is reused only when it is the same.                         *)
Projectable(p) ==
    projection # note[p].plan.paths =>
       /\ projection = note[p].plan.before
       /\ projectionTemp \in {Absent, note[p].plan.paths}

StageProjection(p) ==
    /\ At(p, "r-project") /\ Projectable(p)
    /\ IF projection = note[p].plan.paths
       THEN UNCHANGED projectionTemp /\ Go(p, "r-remove")
       ELSE projectionTemp' = note[p].plan.paths /\ Go(p, "r-rename")
    /\ UNCHANGED <<worldVars, receipts, projection, judgmentVars, proofLock>>

Project(p) ==
    /\ At(p, "r-rename")
    /\ projection' = projectionTemp /\ projectionTemp' = Absent
    /\ Go(p, "r-remove")
    /\ UNCHANGED <<worldVars, receipts, judgmentVars, proofLock>>

ToRemove(p) == note[p].plan.drop \cap DOMAIN receipts

(* One superseded receipt after the other, each after another check.       *)
RemoveReceipt(p) ==
    /\ At(p, "r-remove") /\ ToRemove(p) # {}
    /\ MayRemove(Mine(p), note[p].plan, TRUE)
    /\ LET c == CHOOSE c \in ToRemove(p) : TRUE
       IN receipts' = [d \in DOMAIN receipts \ {c} |-> receipts[d]]
    /\ Go(p, "r-remove")
    /\ UNCHANGED <<worldVars, projection, projectionTemp, judgmentVars, proofLock>>

(* The last check is made for each planned source, also those gone.        *)
Removed(p) == ToRemove(p) = {} /\ MayRemove(Mine(p), note[p].plan, TRUE)

CommitJudgment(p) ==
    /\ At(p, "r-remove") /\ Removed(p)
    /\ settledJudgments' = settledJudgments \cup {job[p]}
    /\ proofLock' = None
    /\ Stop(p)
    /\ UNCHANGED <<worldVars, publishedVars, judged, broken>>

-----------------------------------------------------------------------------
MayReconcile(p) ==
    CASE At(p, "r-enter") -> proofLock = None /\ Legible(Mine(p)) /\ PriorMine(p)
      [] At(p, "r-admit") -> AdmitsJudgment(p)
      [] At(p, "r-plan") -> note[p].prior \/ PlanLegible
      [] pc[p] \in {"r-stage", "r-link"} -> Admissible(job[p])
      [] At(p, "r-check") -> Admissible(job[p]) /\ MayRemove(Mine(p), note[p].plan, note[p].prior)
      [] At(p, "r-project") -> Projectable(p)
      [] At(p, "r-remove") -> MayRemove(Mine(p), note[p].plan, TRUE)
      [] OTHER -> TRUE

ReleasesProof(p) == proofLock' = IF proofLock = p THEN None ELSE proofLock

RefuseReconciliation(p) ==
    /\ ~At(p, "idle") /\ ~MayReconcile(p)
    /\ Stop(p) /\ ReleasesProof(p)
    /\ UNCHANGED <<worldVars, publishedVars, judgmentVars>>

(* A death, possibly inside the creation of a file.                        *)
DieReconciling(p) ==
    /\ Dies(p) /\ ReleasesProof(p)
    /\ UNCHANGED <<worldVars, projection, judged, settledJudgments>>
    /\ \/ UNCHANGED <<receipts, projectionTemp, broken>>
       \/ /\ At(p, "r-admit") /\ AdmitsJudgment(p) /\ ~note[p].prior
          /\ broken' = broken \cup {<<"attempt", job[p]>>}
          /\ UNCHANGED <<receipts, projectionTemp>>
       \/ /\ At(p, "r-stage") /\ Admissible(job[p]) /\ Mine(p) \notin DOMAIN receipts
          /\ receipts' = WithReceipt(Mine(p), [at |-> "torn", request |-> None, plan |-> None])
          /\ UNCHANGED <<projectionTemp, broken>>
       \/ /\ At(p, "r-project") /\ Projectable(p)
          /\ projection # note[p].plan.paths /\ projectionTemp = Absent
          /\ projectionTemp' = Torn
          /\ UNCHANGED <<receipts, broken>>
       \/ /\ At(p, "r-remove") /\ Removed(p) /\ job[p] \notin settledJudgments
          /\ broken' = broken \cup {<<"result", job[p]>>}
          /\ UNCHANGED <<receipts, projectionTemp>>

(* Others edit sources and work, add and remove files, name receipts.      *)
Change ==
    /\ changes < MaxChanges /\ changes' = changes + 1
    /\ \/ basis' = 1 - basis /\ UNCHANGED <<post, citations>>
       \/ /\ \E s \in Subjects, v \in {Absent, 0, 1} : post' = [post EXCEPT ![s] = v]
          /\ UNCHANGED <<basis, citations>>
       \/ /\ \E b \in DOMAIN receipts :
                citations' = IF b \in citations THEN citations \ {b} ELSE citations \cup {b}
          /\ UNCHANGED <<basis, post>>
    /\ UNCHANGED <<procVars, publishedVars, judgmentVars, proofLock>>

ReconciliationNext ==
    \/ \E p \in Procs :
          \/ At(p, "idle") /\ \E b \in Offered, t \in Tasks : Confirm(p, b, t)
          \/ At(p, "idle") /\ Resume(p)
          \/ At(p, "idle") /\ \E r \in judged : RepeatJudgment(p, r)
          \/ EnterReconciliation(p) \/ AdmitJudgment(p) \/ PlanGroup(p)
          \/ StageReceipt(p) \/ LinkReceipt(p) \/ UnstageReceipt(p) \/ CheckGroup(p)
          \/ StageProjection(p) \/ Project(p) \/ RemoveReceipt(p) \/ CommitJudgment(p)
          \/ RefuseReconciliation(p) \/ DieReconciling(p)
    \/ Change

-----------------------------------------------------------------------------
(* The groups that are listed were judged on one basis, no file is in two  *)
(* of them, and each has its receipt.                                      *)
ProjectionCoherent ==
    \A b \in Listed :
       /\ Held(b) /\ receipts[b].at # "tmp"
       /\ \A c \in Listed \ {b} : b.basis = c.basis /\ Disjoint(b, c)

(* A publication that was interrupted before its projection has lost none  *)
(* of the receipts that the projection lists: removal comes last.          *)
NothingRemovedEarly ==
    \A b \in DOMAIN receipts :
       /\ Held(b) /\ receipts[b].request \notin settledJudgments
       /\ projection = receipts[b].plan.before
       => receipts[b].plan.drop \subseteq DOMAIN receipts

ReconciliationConsistent == ProjectionCoherent /\ NothingRemovedEarly

(* "Disjoint current groups remain": what this owner writes takes a file's *)
(* current judgment from it only for a judgment about the same files, or   *)
(* one that was planned before the last change.                            *)
(* And no receipt is removed while another owner names it.                 *)
JudgmentsKept ==
    [][/\ publishedVars' # publishedVars =>
             \A s \in Covered \ Covered' : \E p \in Procs :
                /\ At(p, "r-rename")
                /\ \/ note[p].plan.asof # changes
                   \/ \E b \in Listed : s \in Group(b) /\ ~Disjoint(b, Mine(p))
       /\ \A b \in DOMAIN receipts \ DOMAIN receipts' :
             b \notin citations /\ b \notin Listed]_<<procVars, reconciliationVars>>
=============================================================================
