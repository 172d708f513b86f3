-------------------------- MODULE ProofOwnerProofs --------------------------
(***************************************************************************)
(* Theorems about repository proof: the index, its receipts and its owner  *)
(* through any interleaving of publications, retirements, their            *)
(* recoveries, consumers, checkouts and deaths.                            *)
(***************************************************************************)
EXTENDS ProofOwner, TLAPS

Publishing ==
    {"pub-admit", "pub-run", "pub-lock", "pub-receipt", "pub-temp", "install", "remove",
     "commit", "pub-complete", "rec-lock", "recover"}
Judging == {"ret-lock", "ret-admit"}
Retiring ==
    {"ret-record", "ret-index", "ret-verify", "ret-remove", "ret-carrier", "ret-own", "ret-clear"}

(* The steps that are taken under the lock.                                *)
Custodial ==
    {"pub-receipt", "pub-temp", "install", "remove", "commit", "recover", "ret-admit"}
      \cup Retiring

-----------------------------------------------------------------------------
(* The inductive invariant.                                                *)

Installing == IF lock # None /\ pc[lock] = "install" THEN 1 ELSE 0

FileTypes ==
    /\ StoreTypeOK
    /\ receipts \in [Receipts -> Publications \cup {None, Torn}]
    /\ index \in Indices \cup {None}
    /\ carrier = None \/ carrier \in DOMAIN binding
    /\ pending = None \/ /\ pending \in PendingRecords
                         /\ pending.base \in DOMAIN binding /\ pending.tries <= MaxTries + 1
    /\ refs \subseteq Receipts /\ done \subseteq runs /\ runs \subseteq Receipts
    /\ binding \in Seq(Judgments) /\ Len(binding) <= MaxRetirements

EntriesOf(x) == IF x = None THEN {} ELSE x.entries

(* A publication lists itself, drops only its plan, and plans to drop only *)
(* what no consumer held when it was fixed; a retirement likewise.         *)
Planned(r, x) ==
    /\ r \notin x.plan /\ x.plan \cap x.guard.refs = {}
    /\ r \in x.post.entries /\ x.post.current = r
    /\ x.post.entries = (EntriesOf(x.before) \ x.plan) \cup {r}

Plans ==
    /\ \A r \in Receipts : Whole(r) => Planned(r, receipts[r])
    /\ \A i \in DOMAIN binding : binding[i].selected \cap binding[i].seen.refs = {}

JobFits(s, j) ==
    /\ s \in Publishing => j \in PublicationJobs
    /\ s \in Judging => /\ j \in JudgmentJobs
                        /\ "selected" \in DOMAIN j.bound \/ j.bound.tries <= MaxTries
    /\ s \in Retiring => /\ j \in RetirementJobs
                         /\ j.own = Ret(j.i) \/ \E n \in 0 .. MaxTries : j.own = Rec(j.i, n)

ProcTypes ==
    /\ pc \in [Procs -> PCs]
    /\ job \in [Procs -> PublicationJobs \cup JudgmentJobs \cup RetirementJobs \cup {None}]
    /\ lock \in Procs \cup {None}
    /\ \A p \in Procs : pc[p] = "idle" <=> job[p] = None
    /\ \A p \in Procs : lock = p <=> pc[p] \in Custodial
    /\ \A p \in Procs : JobFits(pc[p], job[p])

(* What a process relies on while it holds the lock.                       *)
PublishesOn(p) ==
    LET r == job[p].r IN
    /\ pc[p] \in {"pub-temp", "install", "remove", "commit"} => Whole(r)
    /\ pc[p] \in {"pub-temp", "install"} => index = receipts[r].before
    /\ pc[p] = "install" => job[p].todo = receipts[r].plan /\ temps > 0
    /\ pc[p] \in {"remove", "commit"} =>
          /\ index = receipts[r].post /\ job[p].todo \subseteq receipts[r].plan
          /\ \A o \in receipts[r].plan \ job[p].todo : receipts[o] = None
    /\ pc[p] = "commit" => job[p].todo = {}

RetiresOn(p) ==
    LET i == job[p].i IN
    pc[p] \in Retiring =>
        /\ i \in DOMAIN binding
        /\ pc[p] = "ret-record" /\ Recovering(p) => pending # None /\ pending.tries <= MaxTries
        /\ pc[p] # "ret-record" => pending # None
        /\ pc[p] \in {"ret-record", "ret-index", "ret-verify"} => job[p].todo = binding[i].selected
        /\ pc[p] \notin {"ret-record", "ret-index"} => index = NextIndex(binding[i])
        /\ pc[p] = "ret-remove" =>
              /\ job[p].todo \subseteq binding[i].selected
              /\ \A r \in binding[i].selected \ job[p].todo : receipts[r] = None
        /\ pc[p] \in {"ret-carrier", "ret-own", "ret-clear"} => Committed(Ret(i))
        /\ pc[p] \in {"ret-own", "ret-clear"} => carrier = i

AtWork == \A p \in Procs : lock = p => PublishesOn(p) /\ RetiresOn(p)

Counted ==
    /\ crashes \in 0 .. MaxCrashes
    /\ temps \in Nat /\ temps <= crashes + Installing

(* A publication that waits for the lock, or has had it, has its run.json. *)
AfterRun == Publishing \ {"pub-admit", "pub-run"}
RunsRecorded == \A p \in Procs : pc[p] \in AfterRun => job[p].r \in runs

OwnerInv == FileTypes /\ Plans /\ ProcTypes /\ AtWork /\ Counted /\ IndexBacked /\ OwnershipExplained

-----------------------------------------------------------------------------
(* The store.                                                              *)

LEMMA Keys ==
  /\ \A r \in Receipts : Pub(r) \in Effects
  /\ \A i \in 1 .. MaxRetirements : Ret(i) \in Effects
  /\ \A i \in 1 .. MaxRetirements, n \in 0 .. MaxTries : Rec(i, n) \in Effects
  /\ \A r, i, j, n : Pub(r) # Ret(i) /\ Pub(r) # Rec(i, n) /\ Ret(i) # Rec(j, n)
  /\ \A r, s : Pub(r) = Pub(s) => r = s
  /\ \A i, j : Ret(i) = Ret(j) => i = j
BY ProofStoreAssumption DEF Pub, Ret, Rec

LEMMA Bounds == MaxCrashes \in Nat /\ MaxRetirements \in Nat /\ MaxTries \in Nat
BY ProofStoreAssumption

LEMMA Marks == Done \in Outcomes /\ Done # Absent /\ Done # Torn /\ Outcomes = {Done}
BY StoreAssumption, ProofStoreAssumption

(* What is committed stays committed, and the judgments stay as admitted.  *)
CommittedStays == \A e \in Effects : Committed(e) => Committed(e)'
JudgmentsStay == Len(binding) <= Len(binding') /\ \A i \in DOMAIN binding : binding'[i] = binding[i]

LEMMA AdmitKeeps ==
  ASSUME StoreTypeOK, NEW e, Admit(e) \/ TearAttempt(e)
  PROVE  StoreTypeOK' /\ \A x \in Effects : Committed(x)' <=> Committed(x)
BY StoreAssumption DEF StoreTypeOK, Admit, TearAttempt, CanAdmit, Committed

LEMMA CommitKeeps ==
  ASSUME StoreTypeOK, NEW e \in Effects, Commit(e, Done)
  PROVE  StoreTypeOK' /\ \A x \in Effects : Committed(x)' <=> Committed(x) \/ x = e
BY Marks DEF StoreTypeOK, Commit, CanCommit, Committed

LEMMA TearKeeps ==
  ASSUME StoreTypeOK, NEW e, TearResult(e)
  PROVE  StoreTypeOK' /\ \A x \in Effects : Committed(x)' <=> Committed(x)
BY StoreAssumption DEF StoreTypeOK, TearResult, CanCommit, Committed

LEMMA StoreStill ==
  ASSUME StoreTypeOK, UNCHANGED <<attempts, results>>
  PROVE  StoreTypeOK' /\ \A x \in Effects : Committed(x)' <=> Committed(x)
BY DEF StoreTypeOK, Committed

-----------------------------------------------------------------------------
(* The records.                                                            *)

LEMMA IndexFields ==
  ASSUME NEW x \in Indices
  PROVE  x # None /\ x.entries \subseteq Receipts /\ x.current \in Receipts \cup {None}
BY ProofMarksAssumption DEF Indices

LEMMA PublicationFields ==
  ASSUME FileTypes, NEW r \in Receipts, Whole(r)
  PROVE  /\ receipts[r] \in Publications
         /\ receipts[r].before \in Indices \cup {None} /\ receipts[r].post \in Indices
         /\ receipts[r].plan \subseteq Receipts
BY DEF FileTypes, Whole, Publications

LEMMA JudgmentFields ==
  ASSUME FileTypes, NEW i \in DOMAIN binding
  PROVE  /\ i \in 1 .. MaxRetirements /\ Ret(i) \in Effects /\ i \in Nat /\ i # None
         /\ binding[i] \in Judgments
         /\ binding[i].selected \subseteq Receipts /\ binding[i].index \in Indices \cup {None}
<1>1. i \in 1 .. Len(binding) /\ Len(binding) <= MaxRetirements /\ binding[i] \in Judgments
  BY DEF FileTypes
<1>2. i \in 1 .. MaxRetirements
  BY <1>1, ProofStoreAssumption
<1>3. Ret(i) \in Effects
  BY <1>2, Keys
<1> QED
  BY <1>1, <1>2, <1>3, ProofMarksAssumption DEF Judgments

LEMMA EmptyIndexType == EmptyIndex \in Indices
BY DEF EmptyIndex, Indices

LEMMA NextIndexType ==
  ASSUME NEW b \in Judgments
  PROVE  /\ NextIndex(b) \in Indices
         /\ NextIndex(b).entries \subseteq EntriesOf(b.index)
         /\ NextIndex(b).entries \cap b.selected = {}
         /\ ~b.legacy => EntriesOf(b.index) \ NextIndex(b).entries \subseteq b.selected
<1>1. b.index \in Indices \cup {None} /\ b.selected \subseteq Receipts
  BY DEF Judgments
<1>2. CASE b.legacy \/ b.index = None
  BY <1>2, EmptyIndexType DEF NextIndex, EmptyIndex, EntriesOf
<1>3. CASE ~b.legacy /\ b.index # None
  <2>1. NextIndex(b) = [b.index EXCEPT !.entries = @ \ b.selected, !.current = None]
    BY <1>3 DEF NextIndex
  <2>2. b.index \in Indices
    BY <1>1, <1>3
  <2> QED
    BY <2>1, <2>2, <1>3 DEF Indices, EntriesOf
<1> QED
  BY <1>2, <1>3

-----------------------------------------------------------------------------
(* The index stays backed and explained while nothing it lists changes.    *)
LEMMA IndexKept ==
  ASSUME FileTypes, Plans, IndexBacked, OwnershipExplained, CommittedStays, JudgmentsStay,
         UNCHANGED <<index, carrier>>, pending # None => pending' # None,
         \A r \in Entries : receipts'[r] = receipts[r]
  PROVE  IndexBacked' /\ OwnershipExplained'
<1>1. IndexBacked'
  BY DEF IndexBacked, Entries, Whole
<1> SUFFICES OwnershipExplained'
  BY <1>1
<1>2. CASE index = None
  BY <1>2 DEF OwnershipExplained, Owned
<1>3. CASE index # None /\ OwnedByCarrier(index)
  <2>1. carrier \in DOMAIN binding /\ Committed(Ret(carrier)) /\ NextIndex(binding[carrier]) = index
    BY <1>3 DEF OwnedByCarrier, FileTypes
  <2>2. Committed(Ret(carrier))' /\ NextIndex(binding'[carrier]) = index
    BY <2>1, JudgmentFields DEF CommittedStays, JudgmentsStay
  <2>3. OwnedByCarrier(index)'
    BY <1>3, <2>2 DEF OwnedByCarrier, NextIndex, EmptyIndex
  <2> QED
    BY <2>3 DEF OwnershipExplained, Owned
<1>4. CASE index # None /\ OwnedByReceipt(index)
  <2> DEFINE r == index.current
  <2>1. r \in Entries /\ r \in Receipts /\ Whole(r) /\ Committed(Pub(r)) /\ receipts[r].post = index
    BY <1>4, IndexFields DEF OwnedByReceipt, Entries, FileTypes
  <2>2. receipts'[r] = receipts[r] /\ Committed(Pub(r))'
    BY <2>1, Keys DEF CommittedStays
  <2>3. OwnedByReceipt(index)'
    BY <1>4, <2>1, <2>2 DEF OwnedByReceipt, Whole
  <2> QED
    BY <2>3 DEF OwnershipExplained, Owned
<1>5. ASSUME index # None, NEW r \in Receipts, Whole(r), receipts[r].post = index
      PROVE  OwnershipExplained'
  <2>1. r \in Entries /\ index.current = r
    BY <1>5 DEF Plans, Planned, Entries
  <2>2. receipts'[r] = receipts[r]
    BY <2>1
  <2>3. CASE ~Committed(Pub(r))'
    BY <1>5, <2>2, <2>3 DEF OwnershipExplained, Whole
  <2>4. CASE Committed(Pub(r))'
    <3>1. OwnedByReceipt(index)'
      BY <1>5, <2>1, <2>2, <2>4 DEF OwnedByReceipt, Whole, Entries
    <3> QED
      BY <3>1 DEF OwnershipExplained, Owned
  <2> QED
    BY <2>3, <2>4
<1>6. CASE index.alien \/ pending # None
  BY <1>6 DEF OwnershipExplained
<1> QED
  BY <1>2, <1>3, <1>4, <1>5, <1>6 DEF OwnershipExplained, Owned

LEMMA InstallExplained ==
  ASSUME FileTypes, Plans, IndexBacked, NEW r \in Receipts, Whole(r), index = receipts[r].before,
         index' = receipts[r].post, UNCHANGED <<receipts, attempts, results>>
  PROVE  IndexBacked' /\ OwnershipExplained'
<1>1. Planned(r, receipts[r]) /\ receipts[r].post \in Indices
  BY PublicationFields DEF Plans
<1>2. Entries' = receipts[r].post.entries /\ EntriesOf(receipts[r].before) = Entries
  BY <1>1, IndexFields DEF Entries, EntriesOf
<1>3. IndexBacked'
  BY <1>1, <1>2 DEF IndexBacked, Planned, Whole
<1>4. CASE ~Committed(Pub(r))
  <2>1. ~Committed(Pub(r))' /\ Whole(r)' /\ receipts'[r].post = index'
    BY <1>4 DEF Committed, Whole
  <2> QED
    BY <1>3, <2>1 DEF OwnershipExplained
<1>5. CASE Committed(Pub(r))
  <2>1. Committed(Pub(r))' /\ Whole(r)' /\ receipts'[r].post = index'
    BY <1>5 DEF Committed, Whole
  <2>2. OwnedByReceipt(index)'
    BY <1>1, <2>1 DEF OwnedByReceipt, Planned
  <2> QED
    BY <1>3, <2>2 DEF OwnershipExplained, Owned
<1> QED
  BY <1>4, <1>5

LEMMA ReplaceExplained ==
  ASSUME FileTypes, IndexBacked, NEW b \in Judgments, index = b.index \/ index = NextIndex(b),
         index' = NextIndex(b), pending' # None, UNCHANGED receipts
  PROVE  IndexBacked' /\ OwnershipExplained'
<1>1. NextIndex(b) \in Indices /\ NextIndex(b).entries \subseteq EntriesOf(b.index)
  BY NextIndexType
<1>2. Entries' = NextIndex(b).entries
  BY <1>1, IndexFields DEF Entries
<1>3. NextIndex(b).entries \subseteq Entries
  BY <1>1, IndexFields DEF Entries, EntriesOf
<1>4. IndexBacked'
  BY <1>2, <1>3 DEF IndexBacked, Whole
<1> QED
  BY <1>4 DEF OwnershipExplained

LEMMA PendingExplains ==
  ASSUME IndexBacked, UNCHANGED <<index, receipts>>, pending' # None
  PROVE  IndexBacked' /\ OwnershipExplained'
<1>1. IndexBacked'
  BY DEF IndexBacked, Entries, Whole
<1> QED
  BY <1>1 DEF OwnershipExplained

LEMMA CarrierExplains ==
  ASSUME FileTypes, IndexBacked, UNCHANGED <<index, receipts, carrier, binding, attempts, results>>,
         carrier \in DOMAIN binding, Committed(Ret(carrier)), index = NextIndex(binding[carrier])
  PROVE  IndexBacked' /\ OwnershipExplained'
<1>1. IndexBacked'
  BY DEF IndexBacked, Entries, Whole
<1>2. OwnedByCarrier(index)'
  <2>1. carrier # None
    BY JudgmentFields
  <2>2. Committed(Ret(carrier))' /\ NextIndex(binding[carrier])' = index'
    BY DEF Committed, NextIndex, EmptyIndex
  <2> QED
    BY <2>1, <2>2 DEF OwnedByCarrier
<1> QED
  BY <1>1, <1>2 DEF OwnershipExplained, Owned

LEMMA CheckoutExplained ==
  ASSUME Checkout
  PROVE  IndexBacked' /\ OwnershipExplained' /\ index' \in Indices
<1>1. PICK entries \in SUBSET {r \in Receipts : Whole(r)} : \E current \in entries \cup {None} :
         index' = [entries |-> entries, current |-> current, alien |-> TRUE]
  BY DEF Checkout
<1>2. PICK current \in entries \cup {None} :
         index' = [entries |-> entries, current |-> current, alien |-> TRUE]
  BY <1>1
<1>3. index' \in Indices
  BY <1>2 DEF Indices
<1>4. Entries' = entries /\ UNCHANGED receipts
  BY <1>2, <1>3, IndexFields DEF Entries, Checkout
<1>5. IndexBacked'
  BY <1>4 DEF IndexBacked, Whole
<1>6. index'.alien
  BY <1>2
<1> QED
  BY <1>3, <1>5, <1>6 DEF OwnershipExplained

-----------------------------------------------------------------------------
(* Where a process goes.                                                   *)

LEMMA Labels ==
  /\ Custodial \subseteq PCs \ {"idle"} /\ Publishing \subseteq PCs /\ Retiring \subseteq PCs
  /\ PCs = {"idle"} \cup Publishing \cup Judging \cup Retiring
BY DEF PCs, Custodial, Publishing, Judging, Retiring

LEMMA MoveTypes ==
  ASSUME ProcTypes, NEW p \in Procs, NEW s \in PCs \ {"idle"}, NEW j, JobFits(s, j),
         pc' = [pc EXCEPT ![p] = s], job' = [job EXCEPT ![p] = j], 
         \/ UNCHANGED lock /\ (pc[p] \in Custodial <=> s \in Custodial)
         \/ lock = None /\ lock' = p /\ s \in Custodial
         \/ lock = p /\ lock' = None /\ s \notin Custodial
  PROVE  ProcTypes' /\ pc'[p] = s /\ job'[p] = j /\ \A q \in Procs \ {p} : pc'[q] = pc[q] /\ job'[q] = job[q]
<1>1. j \in PublicationJobs \cup JudgmentJobs \cup RetirementJobs /\ j # None
  BY Labels, ProofMarksAssumption DEF JobFits
<1>2. /\ pc' \in [Procs -> PCs] /\ pc'[p] = s
      /\ job' \in [Procs -> PublicationJobs \cup JudgmentJobs \cup RetirementJobs \cup {None}]
      /\ job'[p] = j
      /\ \A q \in Procs \ {p} : pc'[q] = pc[q] /\ job'[q] = job[q]
  BY <1>1 DEF ProcTypes
<1>3. lock' \in Procs \cup {None} /\ \A q \in Procs : lock' = q <=> pc'[q] \in Custodial
  BY <1>2, ProofMarksAssumption DEF ProcTypes
<1>4. \A q \in Procs : JobFits(pc'[q], job'[q])
  BY <1>2 DEF ProcTypes
<1>5. \A q \in Procs : pc'[q] = "idle" <=> job'[q] = None
  BY <1>1, <1>2 DEF ProcTypes
<1> QED
  BY <1>2, <1>3, <1>4, <1>5 DEF ProcTypes

LEMMA LeaveTypes ==
  ASSUME ProcTypes, NEW p \in Procs, Leave(p)
  PROVE  /\ ProcTypes' /\ pc'[p] = "idle" /\ lock' # p
         /\ \A q \in Procs \ {p} : pc'[q] = pc[q] /\ job'[q] = job[q]
         /\ lock' = IF lock = p THEN None ELSE lock
<1>1. /\ pc' = [pc EXCEPT ![p] = "idle"] /\ job' = [job EXCEPT ![p] = None]
      /\ lock' = IF lock = p THEN None ELSE lock
  BY DEF Leave, Goto
<1>2. /\ pc' \in [Procs -> PCs] /\ pc'[p] = "idle"
      /\ job' \in [Procs -> PublicationJobs \cup JudgmentJobs \cup RetirementJobs \cup {None}]
      /\ job'[p] = None
      /\ \A q \in Procs \ {p} : pc'[q] = pc[q] /\ job'[q] = job[q]
  BY <1>1 DEF ProcTypes, PCs
<1>3. lock' \in Procs \cup {None} /\ \A q \in Procs : lock' = q <=> pc'[q] \in Custodial
  BY <1>1, <1>2, ProofMarksAssumption, Labels DEF ProcTypes
<1>4. JobFits("idle", None)
  BY DEF JobFits, Publishing, Judging, Retiring
<1>5. \A q \in Procs : JobFits(pc'[q], job'[q])
  BY <1>2, <1>4 DEF ProcTypes
<1>6. \A q \in Procs : pc'[q] = "idle" <=> job'[q] = None
  BY <1>2 DEF ProcTypes
<1>7. lock' # p
  BY <1>2, <1>3, Labels
<1> QED
  BY <1>1, <1>2, <1>3, <1>5, <1>6, <1>7 DEF ProcTypes

-----------------------------------------------------------------------------
(* Steps that leave the proof directory as it is.                          *)

(* What p does to the processes.                                           *)
OnlyMoves(p) == \A q \in Procs \ {p} : pc'[q] = pc[q] /\ job'[q] = job[q]

LEMMA OtherWork ==
  ASSUME FileTypes, NEW q \in Procs, PublishesOn(q), RetiresOn(q), pc'[q] = pc[q], job'[q] = job[q],
         UNCHANGED <<receipts, index, carrier, pending, temps>>, CommittedStays, JudgmentsStay,
         binding' \in Seq(Judgments)
  PROVE  PublishesOn(q)' /\ RetiresOn(q)'
<1>1. PublishesOn(q)'
  BY DEF PublishesOn, Whole
<1>2. CASE pc[q] \notin Retiring
  BY <1>1, <1>2 DEF RetiresOn
<1>3. CASE pc[q] \in Retiring
  <2> DEFINE i == job[q].i
  <2>1. i \in DOMAIN binding
    BY <1>3 DEF RetiresOn
  <2>2. i \in DOMAIN binding' /\ binding'[i] = binding[i]
    BY <2>1 DEF JudgmentsStay, FileTypes
  <2>3. Committed(Ret(i)) => Committed(Ret(i))'
    BY <2>1, JudgmentFields DEF CommittedStays
  <2>4. NextIndex(binding[i])' = NextIndex(binding[i])
    BY <2>2 DEF NextIndex, EmptyIndex
  <2>5. Recovering(q)' <=> Recovering(q)
    BY DEF Recovering
  <2> QED
    BY <1>1, <2>2, <2>3, <2>4, <2>5 DEF RetiresOn
<1> QED
  BY <1>2, <1>3

LEMMA InstallingKept ==
  ASSUME ProcTypes, ProcTypes', NEW p \in Procs, OnlyMoves(p), pc[p] # "install"
  PROVE  Installing <= Installing'
<1>1. CASE lock # None /\ pc[lock] = "install"
  <2>1. lock \in Procs /\ lock # p
    BY <1>1 DEF ProcTypes
  <2>2. pc'[lock] = "install"
    BY <1>1, <2>1 DEF OnlyMoves
  <2>3. lock' = lock
    BY <2>1, <2>2 DEF ProcTypes, Custodial
  <2> QED
    BY <1>1, <2>2, <2>3 DEF Installing
<1>2. CASE ~(lock # None /\ pc[lock] = "install")
  BY <1>2 DEF Installing
<1> QED
  BY <1>1, <1>2

(* Judgments are as they were, or one more has been admitted.              *)
JudgmentsGrow ==
    \/ UNCHANGED binding
    \/ /\ Len(binding) < MaxRetirements
       /\ \E b \in Judgments : b.selected \cap b.seen.refs = {} /\ binding' = Append(binding, b)

LEMMA GrownJudgments ==
  ASSUME FileTypes, Plans, JudgmentsGrow
  PROVE  /\ JudgmentsStay /\ binding' \in Seq(Judgments) /\ Len(binding') <= MaxRetirements
         /\ \A i \in DOMAIN binding' : binding'[i].selected \cap binding'[i].seen.refs = {}
         /\ DOMAIN binding \subseteq DOMAIN binding'
<1>1. binding \in Seq(Judgments) /\ Len(binding) \in Nat /\ MaxRetirements \in Nat
  BY ProofStoreAssumption DEF FileTypes
<1>2. CASE UNCHANGED binding
  BY <1>1, <1>2 DEF FileTypes, Plans, JudgmentsStay
<1>3. CASE ~UNCHANGED binding
  <2>1. PICK b \in Judgments : b.selected \cap b.seen.refs = {} /\ binding' = Append(binding, b)
    BY <1>3 DEF JudgmentsGrow
  <2>2. Len(binding) < MaxRetirements
    BY <1>3 DEF JudgmentsGrow
  <2>3. /\ binding' \in Seq(Judgments) /\ Len(binding') = Len(binding) + 1
        /\ \A i \in 1 .. Len(binding) : binding'[i] = binding[i]
        /\ binding'[Len(binding) + 1] = b
    BY <1>1, <2>1
  <2>4. \A i \in DOMAIN binding' : i \in DOMAIN binding \/ i = Len(binding) + 1
    BY <1>1, <2>3
  <2> QED
    BY <1>1, <2>1, <2>2, <2>3, <2>4 DEF Plans, JudgmentsStay
<1> QED
  BY <1>2, <1>3

(* A process calls, fails, dies or goes on and changes no file of proof.   *)
LEMMA QuietStep ==
  ASSUME OwnerInv, NEW p \in Procs, UNCHANGED proofVars, StoreTypeOK', CommittedStays,
         JudgmentsGrow, done' \subseteq runs', runs' \subseteq Receipts,
         ProcTypes', OnlyMoves(p), lock' = p => PublishesOn(p)' /\ RetiresOn(p)',
         \/ pc[p] # "install" /\ UNCHANGED crashes
         \/ crashes < MaxCrashes /\ crashes' = crashes + 1
  PROVE  OwnerInv'
<1> USE DEF proofVars
<1>1. JudgmentsStay /\ binding' \in Seq(Judgments) /\ Len(binding') <= MaxRetirements
      /\ (\A i \in DOMAIN binding' : binding'[i].selected \cap binding'[i].seen.refs = {})
      /\ DOMAIN binding \subseteq DOMAIN binding'
  BY GrownJudgments DEF OwnerInv
<1>2. FileTypes'
  BY <1>1 DEF OwnerInv, FileTypes
<1>3. Plans'
  BY <1>1 DEF OwnerInv, Plans, Whole
<1>4. ASSUME NEW q \in Procs, lock' = q
      PROVE  PublishesOn(q)' /\ RetiresOn(q)'
  <2>1. CASE q = p
    BY <1>4, <2>1
  <2>2. CASE q # p
    <3>1. pc'[q] = pc[q] /\ job'[q] = job[q]
      BY <2>2 DEF OnlyMoves
    <3>2. lock = q
      BY <1>4, <3>1 DEF OwnerInv, ProcTypes
    <3> QED
      BY <1>1, <3>1, <3>2, OtherWork DEF OwnerInv, AtWork
  <2> QED
    BY <2>1, <2>2
<1>5. Counted'
  <2>1. /\ crashes \in 0 .. MaxCrashes /\ MaxCrashes \in Nat
        /\ temps \in Nat /\ temps' = temps /\ temps <= crashes + Installing
    BY Bounds DEF OwnerInv, Counted
  <2>2. Installing \in {0, 1} /\ Installing' \in {0, 1}
    BY DEF Installing
  <2>3. pc[p] # "install" => Installing <= Installing'
    BY InstallingKept DEF OwnerInv
  <2>4. crashes' \in 0 .. MaxCrashes /\ temps' <= crashes' + Installing'
    BY <2>1, <2>2, <2>3
  <2> QED
    BY <2>1, <2>4 DEF Counted
<1>6. IndexBacked' /\ OwnershipExplained'
  BY <1>1, IndexKept DEF OwnerInv
<1> QED
  BY <1>2, <1>3, <1>4, <1>5, <1>6 DEF OwnerInv, AtWork

LEMMA StillStep ==
  ASSUME OwnerInv, NEW p \in Procs, UNCHANGED <<proofVars, localVars>>,
         ProcTypes', OnlyMoves(p), lock' = p => PublishesOn(p)' /\ RetiresOn(p)',
         \/ pc[p] # "install" /\ UNCHANGED crashes
         \/ crashes < MaxCrashes /\ crashes' = crashes + 1
  PROVE  OwnerInv'
<1>1. StoreTypeOK' /\ CommittedStays /\ JudgmentsGrow /\ done' \subseteq runs' /\ runs' \subseteq Receipts
  BY StoreStill DEF OwnerInv, FileTypes, CommittedStays, JudgmentsGrow, localVars
<1> QED
  BY <1>1, QuietStep

LEMMA LeaveStep ==
  ASSUME OwnerInv, NEW p \in Procs, Leave(p), UNCHANGED proofVars, StoreTypeOK', CommittedStays,
         JudgmentsGrow, done' \subseteq runs', runs' \subseteq Receipts,
         \/ pc[p] # "install" /\ UNCHANGED crashes
         \/ crashes < MaxCrashes /\ crashes' = crashes + 1
  PROVE  OwnerInv'
<1>1. ProcTypes' /\ OnlyMoves(p) /\ lock' # p
  BY LeaveTypes DEF OwnerInv, OnlyMoves
<1> QED
  BY <1>1, QuietStep

LEMMA FailingStep ==
  ASSUME OwnerInv, NEW p \in Procs, Leave(p), UNCHANGED <<proofVars, localVars>>,
         \/ pc[p] # "install" /\ UNCHANGED crashes
         \/ crashes < MaxCrashes /\ crashes' = crashes + 1
  PROVE  OwnerInv'
<1>1. StoreTypeOK' /\ CommittedStays /\ JudgmentsGrow /\ done' \subseteq runs' /\ runs' \subseteq Receipts
  BY StoreStill DEF OwnerInv, FileTypes, CommittedStays, JudgmentsGrow, localVars
<1> QED
  BY <1>1, LeaveStep

(* A process that is idle or waits for the lock.                           *)
LEMMA StartStep ==
  ASSUME OwnerInv, NEW p \in Procs, NEW s \in PCs \ Custodial, s # "idle", NEW j, JobFits(s, j),
         Start(p, s, j), UNCHANGED <<proofVars, localVars, crashes>>
  PROVE  OwnerInv'
<1>1. /\ pc[p] = "idle" /\ pc' = [pc EXCEPT ![p] = s] /\ job' = [job EXCEPT ![p] = j] /\ UNCHANGED lock
      /\ "idle" \notin Custodial
  BY Labels DEF Start, At, Goto
<1>2. ProcTypes /\ s \in PCs \ {"idle"} /\ (pc[p] \in Custodial <=> s \in Custodial)
  BY <1>1 DEF OwnerInv
<1>3. ProcTypes' /\ pc'[p] = s /\ \A q \in Procs \ {p} : pc'[q] = pc[q] /\ job'[q] = job[q]
  BY <1>1, <1>2, MoveTypes
<1>4. lock' # p
  BY <1>3 DEF ProcTypes
<1>5. OnlyMoves(p)
  BY <1>3 DEF OnlyMoves
<1> QED
  BY <1>1, <1>3, <1>4, <1>5, StillStep

LEMMA LockStep ==
  ASSUME OwnerInv, NEW p \in Procs, NEW from \in PCs \ Custodial, NEW to \in {"pub-receipt", "recover", "ret-admit"},
         from # "idle", JobFits(from, job[p]) => JobFits(to, job[p]),
         Lock(p, from, to), UNCHANGED crashes
  PROVE  OwnerInv'
<1>1. pc[p] = from /\ from # "install" /\ UNCHANGED <<proofVars, localVars>>
  BY DEF Lock, At, Custodial
<1>2. CASE Leave(p)
  BY <1>1, <1>2, FailingStep
<1>3. CASE lock = None /\ lock' = p /\ Goto(p, to) /\ UNCHANGED job
  <2>1. pc' = [pc EXCEPT ![p] = to] /\ job' = [job EXCEPT ![p] = job[p]]
    BY <1>3 DEF Goto, OwnerInv, ProcTypes
  <2>2. to \in PCs \ {"idle"} /\ to \in Custodial /\ JobFits(to, job[p])
    BY <1>1 DEF PCs, Custodial, OwnerInv, ProcTypes
  <2>3. ProcTypes' /\ OnlyMoves(p) /\ pc'[p] = to
    BY <1>3, <2>1, <2>2, MoveTypes DEF OwnerInv, OnlyMoves
  <2>4. PublishesOn(p)' /\ RetiresOn(p)'
    BY <2>3 DEF PublishesOn, RetiresOn, Retiring
  <2> QED
    BY <1>1, <2>3, <2>4, StillStep
<1> QED
  BY <1>2, <1>3 DEF Lock

LEMMA EnterPublishInv ==
  ASSUME OwnerInv, NEW p \in Procs, NEW r \in Receipts, EnterPublish(p, r), UNCHANGED crashes
  PROVE  OwnerInv'
<1>1. PICK s \in {"pub-admit", "rec-lock"}, j \in PublicationJobs : Start(p, s, j)
  BY DEF EnterPublish, PublicationJobs
<1>2. s \in PCs \ Custodial /\ s # "idle" /\ JobFits(s, j)
  BY DEF PCs, Custodial, JobFits, Publishing, Judging, Retiring
<1> QED
  BY <1>1, <1>2, StartStep DEF EnterPublish

LEMMA PublishAdmitInv ==
  ASSUME OwnerInv, NEW p \in Procs, PublishAdmit(p), UNCHANGED crashes
  PROVE  OwnerInv'
<1>1. CASE Failing(p)
  BY <1>1, FailingStep DEF PublishAdmit, Failing, At
<1>2. CASE ~Failing(p)
  <2>1. /\ pc[p] = "pub-admit" /\ Admit(Pub(job[p].r)) /\ Continue(p, "pub-run")
        /\ UNCHANGED <<proofVars, runs, done, binding>>
    BY <1>2 DEF PublishAdmit, At
  <2>2. StoreTypeOK' /\ CommittedStays /\ JudgmentsGrow /\ done' \subseteq runs' /\ runs' \subseteq Receipts
    BY <2>1, AdmitKeeps DEF OwnerInv, FileTypes, CommittedStays, JudgmentsGrow
  <2>3. pc' = [pc EXCEPT ![p] = "pub-run"] /\ job' = [job EXCEPT ![p] = job[p]] /\ UNCHANGED lock
    BY <2>1 DEF Continue, Goto, OwnerInv, ProcTypes
  <2>4. JobFits("pub-run", job[p]) /\ "pub-run" \in PCs \ {"idle"} /\ "pub-run" \notin Custodial /\ pc[p] \notin Custodial
    BY <2>1 DEF OwnerInv, ProcTypes, JobFits, Publishing, Judging, Retiring, PCs, Custodial
  <2>5. ProcTypes' /\ OnlyMoves(p) /\ pc'[p] = "pub-run"
    BY <2>3, <2>4, MoveTypes DEF OwnerInv, OnlyMoves
  <2>6. lock' # p
    BY <2>4, <2>5 DEF ProcTypes
  <2> QED
    BY <2>1, <2>2, <2>5, <2>6, QuietStep
<1> QED
  BY <1>1, <1>2

-----------------------------------------------------------------------------
(* Steps of one call.                                                      *)

LEMMA ContinueTypes ==
  ASSUME ProcTypes, NEW p \in Procs, NEW s, Continue(p, s),
         {pc[p], s} \subseteq Publishing \/ {pc[p], s} \subseteq Retiring,
         pc[p] \in Custodial <=> s \in Custodial
  PROVE  /\ ProcTypes' /\ OnlyMoves(p) /\ pc'[p] = s /\ job'[p] = job[p] /\ UNCHANGED lock
         /\ pc[p] \in Publishing => job[p] \in PublicationJobs
         /\ pc[p] \in Retiring => job[p] \in RetirementJobs
<1>1. pc' = [pc EXCEPT ![p] = s] /\ job' = [job EXCEPT ![p] = job[p]] /\ UNCHANGED lock
  BY DEF Continue, Goto, ProcTypes
<1>2. JobFits(pc[p], job[p])
  BY DEF ProcTypes
<1>3. JobFits(s, job[p])
  BY <1>2 DEF JobFits, Publishing, Judging, Retiring
<1>4. s \in PCs \ {"idle"}
  BY Labels DEF Publishing, Retiring
<1> QED
  BY <1>1, <1>2, <1>3, <1>4, MoveTypes DEF OnlyMoves, JobFits

LEMMA RestTypes ==
  ASSUME ProcTypes, NEW p \in Procs, NEW s, NEW todo \in SUBSET Receipts, Rest(p, s, todo),
         {pc[p], s} \subseteq Publishing \/ {pc[p], s} \subseteq Retiring,
         pc[p] \in Custodial, s \in Custodial
  PROVE  /\ ProcTypes' /\ OnlyMoves(p) /\ pc'[p] = s /\ UNCHANGED lock /\ job'[p].todo = todo
         /\ pc[p] \in Publishing => job'[p].r = job[p].r /\ job[p].r \in Receipts
         /\ pc[p] \in Retiring => job'[p].i = job[p].i /\ job'[p].own = job[p].own
<1> DEFINE j == [job[p] EXCEPT !.todo = todo]
<1>1. pc' = [pc EXCEPT ![p] = s] /\ job' = [job EXCEPT ![p] = j] /\ UNCHANGED lock
  BY DEF Rest, Goto, ProcTypes
<1>2. JobFits(pc[p], job[p]) /\ s \in PCs \ {"idle"}
  BY Labels DEF ProcTypes, Publishing, Retiring
<1>3. CASE {pc[p], s} \subseteq Publishing
  <2>1. job[p] \in PublicationJobs /\ pc[p] \notin Retiring /\ s \notin Retiring /\ s \notin Judging
    BY <1>2, <1>3 DEF JobFits, Publishing, Retiring, Judging
  <2>2. j \in PublicationJobs /\ j.todo = todo /\ j.r = job[p].r /\ job[p].r \in Receipts
    BY <2>1 DEF PublicationJobs
  <2>3. JobFits(s, j)
    BY <2>1, <2>2 DEF JobFits
  <2> HIDE DEF j
  <2>4. pc[p] \in Custodial <=> s \in Custodial
    OBVIOUS
  <2>5. ProcTypes' /\ pc'[p] = s /\ job'[p] = j /\ OnlyMoves(p)
    BY <1>1, <1>2, <2>3, <2>4, MoveTypes DEF OnlyMoves
  <2> QED
    BY <1>1, <2>1, <2>2, <2>5
<1>4. CASE {pc[p], s} \subseteq Retiring
  <2>1. /\ job[p] \in RetirementJobs /\ pc[p] \notin Publishing /\ s \notin Publishing /\ s \notin Judging
        /\ job[p].own = Ret(job[p].i) \/ \E n \in 0 .. MaxTries : job[p].own = Rec(job[p].i, n)
    BY <1>2, <1>4 DEF JobFits, Publishing, Retiring, Judging
  <2>2. j \in RetirementJobs /\ j.todo = todo /\ j.i = job[p].i /\ j.own = job[p].own
    BY <2>1 DEF RetirementJobs
  <2>3. JobFits(s, j)
    BY <2>1, <2>2 DEF JobFits
  <2> HIDE DEF j
  <2>4. pc[p] \in Custodial <=> s \in Custodial
    OBVIOUS
  <2>5. ProcTypes' /\ pc'[p] = s /\ job'[p] = j /\ OnlyMoves(p)
    BY <1>1, <1>2, <2>3, <2>4, MoveTypes DEF OnlyMoves
  <2> QED
    BY <1>1, <2>1, <2>2, <2>5
<1> QED
  BY <1>3, <1>4

(* The holder of the lock changes files.                                   *)
LEMMA WorkStep ==
  ASSUME OwnerInv, NEW p \in Procs, lock = p, lock' \in {p, None}, FileTypes', Plans', ProcTypes',
         lock' = p => PublishesOn(p)' /\ RetiresOn(p)',
         crashes' \in 0 .. MaxCrashes, temps' \in Nat, temps' <= crashes' + Installing',
         IndexBacked' /\ OwnershipExplained'
  PROVE  OwnerInv'
<1>1. \A q \in Procs : lock' = q => q = p
  BY ProofMarksAssumption
<1> QED
  BY <1>1 DEF OwnerInv, AtWork, Counted

(* What the holder of the lock knows.                                      *)
LEMMA HolderKnows ==
  ASSUME OwnerInv, NEW p \in Procs, pc[p] \in Custodial
  PROVE  /\ lock = p /\ PublishesOn(p) /\ RetiresOn(p)
         /\ pc[p] \in Publishing => job[p] \in PublicationJobs /\ job[p].r \in Receipts
         /\ pc[p] \in Retiring => /\ job[p] \in RetirementJobs /\ job[p].i \in DOMAIN binding
                                  /\ job[p].own = Ret(job[p].i) \/ \E n \in 0 .. MaxTries : job[p].own = Rec(job[p].i, n)
<1>1. lock = p
  BY DEF OwnerInv, ProcTypes
<1>2. PublishesOn(p) /\ RetiresOn(p)
  BY <1>1 DEF OwnerInv, AtWork
<1>3. JobFits(pc[p], job[p])
  BY DEF OwnerInv, ProcTypes
<1> QED
  BY <1>1, <1>2, <1>3 DEF JobFits, PublicationJobs, RetiresOn

(* No temporary is counted for the holder unless it is about to install.   *)
LEMMA Temporaries ==
  ASSUME OwnerInv, NEW p \in Procs, lock = p
  PROVE  /\ temps \in Nat /\ crashes \in 0 .. MaxCrashes /\ p # None
         /\ pc[p] # "install" => temps <= crashes
         /\ pc[p] = "install" => temps <= crashes + 1
BY ProofMarksAssumption DEF OwnerInv, Counted, Installing

LEMMA StillTemporaries ==
  ASSUME OwnerInv, NEW p \in Procs, lock = p, pc[p] # "install", UNCHANGED <<temps, crashes>>
  PROVE  temps' \in Nat /\ temps' <= crashes' + Installing' /\ crashes' \in 0 .. MaxCrashes
<1>1. temps \in Nat /\ crashes \in 0 .. MaxCrashes /\ temps <= crashes
  BY Temporaries
<1>2. Installing' \in {0, 1}
  BY DEF Installing
<1>3. \A i \in {0, 1} : temps <= crashes + i
  BY <1>1, Bounds
<1>4. temps' = temps /\ crashes' = crashes
  OBVIOUS
<1> QED
  BY <1>1, <1>2, <1>3, <1>4

LEMMA PublishRunInv ==
  ASSUME OwnerInv, NEW p \in Procs, PublishRun(p), UNCHANGED crashes
  PROVE  OwnerInv'
<1>1. /\ pc[p] = "pub-run" /\ runs' = runs \cup {job[p].r}
      /\ UNCHANGED <<proofVars, attempts, results, done, binding>>
  BY DEF PublishRun, At
<1>2. job[p].r \in Receipts
  <2>1. job[p] \in PublicationJobs
    BY <1>1 DEF OwnerInv, ProcTypes, JobFits, Publishing
  <2> QED
    BY <2>1 DEF PublicationJobs
<1>3. StoreTypeOK' /\ CommittedStays /\ JudgmentsGrow /\ done' \subseteq runs' /\ runs' \subseteq Receipts
  BY <1>1, <1>2, StoreStill DEF OwnerInv, FileTypes, CommittedStays, JudgmentsGrow
<1>4. CASE Leave(p)
  BY <1>1, <1>3, <1>4, LeaveStep
<1>5. CASE Continue(p, "pub-lock")
  <2>1. {pc[p], "pub-lock"} \subseteq Publishing /\ pc[p] \notin Custodial /\ "pub-lock" \notin Custodial
    BY <1>1 DEF Publishing, Custodial, Retiring
  <2>2. ProcTypes' /\ OnlyMoves(p) /\ pc'[p] = "pub-lock"
    BY <1>5, <2>1, ContinueTypes DEF OwnerInv
  <2>3. lock' # p
    BY <2>1, <2>2 DEF ProcTypes
  <2> QED
    BY <1>1, <1>3, <2>2, <2>3, QuietStep
<1> QED
  BY <1>4, <1>5 DEF PublishRun

LEMMA PublishLockInv ==
  ASSUME OwnerInv, NEW p \in Procs, PublishLock(p) \/ RecoverLock(p) \/ RetireLock(p), UNCHANGED crashes
  PROVE  OwnerInv'
<1>1. \A j : /\ JobFits("pub-lock", j) => JobFits("pub-receipt", j)
             /\ JobFits("rec-lock", j) => JobFits("recover", j)
             /\ JobFits("ret-lock", j) => JobFits("ret-admit", j)
  BY DEF JobFits, Publishing, Judging, Retiring
<1>2. {"pub-lock", "rec-lock", "ret-lock"} \subseteq PCs \ Custodial
  BY DEF PCs, Custodial, Retiring
<1>3. CASE PublishLock(p)
  BY <1>1, <1>2, <1>3, LockStep DEF PublishLock
<1>4. CASE RecoverLock(p)
  BY <1>1, <1>2, <1>4, LockStep DEF RecoverLock
<1>5. CASE RetireLock(p)
  BY <1>1, <1>2, <1>5, LockStep DEF RetireLock
<1> QED
  BY <1>3, <1>4, <1>5

LEMMA PublicationPlanned ==
  ASSUME OwnerInv, NEW r \in Receipts
  PROVE  /\ Publication(r) \in Publications /\ Planned(r, Publication(r))
         /\ Publication(r).before = index
<1> DEFINE plan == AutomaticPlan(r)
           old == IF index = None THEN EmptyIndex ELSE index
           post == [old EXCEPT !.entries = (@ \ plan) \cup {r}, !.current = r]
<1>1. index \in Indices \cup {None} /\ temps \in Nat /\ refs \subseteq Receipts
  BY DEF OwnerInv, FileTypes, Counted
<1>2. plan \subseteq Receipts /\ r \notin plan /\ plan \cap refs = {}
  BY <1>1, ProofStoreAssumption, IndexFields DEF AutomaticPlan, Replaceable, Entries
<1>3. old \in Indices /\ old.entries = EntriesOf(index)
  BY <1>1, EmptyIndexType DEF EntriesOf, EmptyIndex
<1>4. /\ post \in Indices /\ post.current = r
      /\ post.entries = (EntriesOf(index) \ plan) \cup {r}
  BY <1>2, <1>3 DEF Indices
<1>5. Guard(r, plan) \in Observations /\ Guard(r, plan).refs = refs
  BY <1>1 DEF Guard, Observation, Observations, Present
<1>6. Publication(r) = [before |-> index, post |-> post, plan |-> plan, guard |-> Guard(r, plan)]
  BY DEF Publication
<1> HIDE DEF plan, post
<1>7. Publication(r) \in Publications
  BY <1>1, <1>2, <1>4, <1>5, <1>6 DEF Publications
<1> QED
  BY <1>2, <1>4, <1>5, <1>6, <1>7 DEF Planned

(* A receipt appears, whole or torn, where there was none.                 *)
LEMMA ReceiptAppears ==
  ASSUME OwnerInv, NEW r \in Receipts, receipts[r] = None, NEW x \in Publications \cup {Torn},
         x # Torn => Planned(r, x), receipts' = [receipts EXCEPT ![r] = x],
         UNCHANGED <<index, carrier, pending, temps, refs, localVars>>
  PROVE  FileTypes' /\ Plans' /\ IndexBacked' /\ OwnershipExplained'
<1>1. FileTypes'
  BY StoreStill DEF OwnerInv, FileTypes, localVars
<1>2. \A s \in Receipts : receipts'[s] = IF s = r THEN x ELSE receipts[s]
  BY DEF OwnerInv, FileTypes
<1>3. Plans'
  BY <1>2 DEF OwnerInv, Plans, Whole, localVars
<1>4. CommittedStays /\ JudgmentsStay
  BY StoreStill DEF OwnerInv, FileTypes, CommittedStays, JudgmentsStay, localVars
<1>5. \A s \in Entries : receipts'[s] = receipts[s]
  <2>1. r \notin Entries /\ Entries \subseteq Receipts
    BY IndexFields DEF OwnerInv, IndexBacked, Whole, Entries, FileTypes
  <2> QED
    BY <1>2, <2>1
<1> QED
  BY <1>1, <1>3, <1>4, <1>5, IndexKept DEF OwnerInv

LEMMA PublishReceiptInv ==
  ASSUME OwnerInv, NEW p \in Procs, PublishReceipt(p), UNCHANGED crashes
  PROVE  OwnerInv'
<1> DEFINE r == job[p].r
<1>1. pc[p] = "pub-receipt" /\ pc[p] \in Custodial /\ pc[p] \in Publishing
  BY DEF PublishReceipt, At, Custodial, Publishing
<1>2. lock = p /\ r \in Receipts
  BY <1>1, HolderKnows
<1>3. CASE Failing(p)
  BY <1>1, <1>3, FailingStep DEF Failing
<1>4. CASE ~Failing(p)
  <2>1. /\ receipts[r] = None /\ receipts' = [receipts EXCEPT ![r] = Publication(r)]
        /\ Continue(p, "pub-temp")
        /\ UNCHANGED <<index, carrier, pending, temps, refs, localVars>>
    BY <1>4 DEF PublishReceipt, CanRetainReceipt
  <2>2. FileTypes' /\ Plans' /\ IndexBacked' /\ OwnershipExplained'
    BY <1>2, <2>1, PublicationPlanned, ReceiptAppears
  <2>3. ProcTypes' /\ OnlyMoves(p) /\ pc'[p] = "pub-temp" /\ job'[p] = job[p] /\ UNCHANGED lock
    <3>1. {pc[p], "pub-temp"} \subseteq Publishing /\ "pub-temp" \in Custodial
      BY <1>1 DEF Publishing, Custodial
    <3> QED
      BY <1>1, <2>1, <3>1, ContinueTypes DEF OwnerInv
  <2>4. receipts'[r] = Publication(r) /\ receipts'[r] \in Publications /\ receipts'[r].before = index'
    BY <1>2, <2>1, PublicationPlanned DEF OwnerInv, FileTypes
  <2>5. PublishesOn(p)' /\ RetiresOn(p)'
    BY <2>3, <2>4, ProofMarksAssumption DEF PublishesOn, RetiresOn, Retiring, Whole
  <2>6. temps' \in Nat /\ temps' <= crashes' + Installing' /\ crashes' \in 0 .. MaxCrashes
    BY <1>1, <1>2, <2>1, StillTemporaries
  <2> QED
    BY <1>2, <2>2, <2>3, <2>5, <2>6, WorkStep
<1> QED
  BY <1>3, <1>4

(* The temporary of the next index.                                        *)
LEMMA WriteTempInv ==
  ASSUME OwnerInv, NEW p \in Procs, pc[p] \in {"pub-temp", "recover"}, UNCHANGED crashes,
         WriteTemp(p), Whole(job[p].r), index = receipts[job[p].r].before
  PROVE  OwnerInv'
<1> DEFINE r == job[p].r
<1>1. pc[p] \in Custodial /\ pc[p] \in Publishing
  BY DEF Custodial, Publishing
<1>2. lock = p /\ r \in Receipts
  BY <1>1, HolderKnows
<1>3. /\ temps' = temps + 1 /\ Rest(p, "install", receipts[r].plan)
      /\ UNCHANGED <<receipts, index, carrier, pending, refs, localVars>>
  BY DEF WriteTemp
<1>4. receipts[r].plan \in SUBSET Receipts
  BY <1>2, PublicationFields DEF OwnerInv
<1>5. {pc[p], "install"} \subseteq Publishing /\ "install" \in Custodial
  BY DEF Publishing, Custodial
<1>6. /\ ProcTypes' /\ OnlyMoves(p) /\ pc'[p] = "install" /\ UNCHANGED lock
      /\ job'[p].todo = receipts[r].plan /\ job'[p].r = r
  BY <1>1, <1>3, <1>4, <1>5, RestTypes DEF OwnerInv
<1>7. temps \in Nat /\ crashes \in 0 .. MaxCrashes /\ temps <= crashes /\ p # None
  BY <1>2, Temporaries
<1>8. PublishesOn(p)' /\ RetiresOn(p)'
  BY <1>3, <1>6, <1>7 DEF PublishesOn, RetiresOn, Retiring, Whole
<1>9. Installing' = 1
  BY <1>2, <1>6, <1>7 DEF Installing
<1>10. FileTypes' /\ Plans' /\ CommittedStays /\ JudgmentsStay
  BY <1>3, StoreStill DEF OwnerInv, FileTypes, Plans, Whole, CommittedStays, JudgmentsStay, localVars
<1>11. IndexBacked' /\ OwnershipExplained'
  BY <1>3, <1>10, IndexKept DEF OwnerInv
<1> QED
  BY <1>2, <1>3, <1>6, <1>7, <1>8, <1>9, <1>10, <1>11, WorkStep

LEMMA PublishTempInv ==
  ASSUME OwnerInv, NEW p \in Procs, PublishTemp(p), UNCHANGED crashes
  PROVE  OwnerInv'
<1>1. pc[p] = "pub-temp" /\ pc[p] \in Custodial
  BY DEF PublishTemp, At, Custodial
<1>2. CASE Failing(p)
  BY <1>1, <1>2, FailingStep DEF Failing
<1>3. CASE WriteTemp(p)
  <2>1. Whole(job[p].r) /\ index = receipts[job[p].r].before
    BY <1>1, HolderKnows DEF PublishesOn
  <2> QED
    BY <1>1, <1>3, <2>1, WriteTempInv
<1> QED
  BY <1>2, <1>3 DEF PublishTemp


(* The rename of the next index over the one the publication was fixed on. *)
LEMMA InstallInv ==
  ASSUME OwnerInv, NEW p \in Procs, Install(p), UNCHANGED crashes
  PROVE  OwnerInv'
<1> DEFINE r == job[p].r
<1>1. pc[p] = "install" /\ pc[p] \in Custodial /\ pc[p] \in Publishing
  BY DEF Install, At, Custodial, Publishing
<1>2. lock = p /\ r \in Receipts /\ PublishesOn(p)
  BY <1>1, HolderKnows
<1>3. Whole(r) /\ index = receipts[r].before /\ job[p].todo = receipts[r].plan /\ temps > 0
  BY <1>1, <1>2 DEF PublishesOn
<1>4. /\ index' = receipts[r].post /\ temps' = temps - 1 /\ Continue(p, "remove")
      /\ UNCHANGED <<receipts, carrier, pending, refs, localVars>>
  BY <1>3 DEF Install
<1>5. {pc[p], "remove"} \subseteq Publishing /\ "remove" \in Custodial
  BY <1>1 DEF Publishing, Custodial
<1>6. ProcTypes' /\ pc'[p] = "remove" /\ job'[p] = job[p] /\ UNCHANGED lock
  BY <1>1, <1>4, <1>5, ContinueTypes DEF OwnerInv
<1>7. index' \in Indices
  BY <1>2, <1>3, <1>4, PublicationFields DEF OwnerInv
<1>8. FileTypes' /\ Plans'
  BY <1>4, <1>7, StoreStill DEF OwnerInv, FileTypes, Plans, Whole, localVars
<1>9. PublishesOn(p)' /\ RetiresOn(p)'
  BY <1>3, <1>4, <1>6 DEF PublishesOn, RetiresOn, Retiring, Whole
<1>10. temps' \in Nat /\ temps' <= crashes /\ crashes' \in 0 .. MaxCrashes
  BY <1>1, <1>2, <1>3, <1>4, Temporaries, Bounds
<1>11. Installing' = 0
  BY <1>2, <1>6 DEF Installing
<1>12. temps' <= crashes' + Installing'
  BY <1>10, <1>11, Bounds
<1>13. IndexBacked' /\ OwnershipExplained'
  BY <1>2, <1>3, <1>4, InstallExplained DEF OwnerInv, localVars
<1> QED
  BY <1>2, <1>6, <1>8, <1>9, <1>10, <1>12, <1>13, WorkStep

(* A receipt the index does not list is removed.                           *)
LEMMA ReceiptGoes ==
  ASSUME OwnerInv, NEW o \in Receipts, o \notin Entries, receipts' = [receipts EXCEPT ![o] = None],
         UNCHANGED <<index, carrier, pending, temps, refs, localVars>>
  PROVE  FileTypes' /\ Plans' /\ IndexBacked' /\ OwnershipExplained'
<1>1. FileTypes'
  BY StoreStill DEF OwnerInv, FileTypes, localVars
<1>2. \A s \in Receipts : receipts'[s] = IF s = o THEN None ELSE receipts[s]
  BY DEF OwnerInv, FileTypes
<1>3. Plans'
  BY <1>2 DEF OwnerInv, Plans, Whole, localVars
<1>4. CommittedStays /\ JudgmentsStay
  BY StoreStill DEF OwnerInv, FileTypes, CommittedStays, JudgmentsStay, localVars
<1>5. \A s \in Entries : receipts'[s] = receipts[s]
  BY <1>2, IndexFields DEF OwnerInv, FileTypes, Entries
<1> QED
  BY <1>1, <1>3, <1>4, <1>5, IndexKept DEF OwnerInv

LEMMA RemoveOneInv ==
  ASSUME OwnerInv, NEW p \in Procs, RemoveOne(p), UNCHANGED crashes
  PROVE  OwnerInv'
<1> DEFINE r == job[p].r
<1>1. pc[p] = "remove" /\ pc[p] \in Custodial /\ pc[p] \in Publishing
  BY DEF RemoveOne, At, Custodial, Publishing
<1>2. lock = p /\ r \in Receipts /\ PublishesOn(p)
  BY <1>1, HolderKnows
<1>3. CASE Failing(p)
  BY <1>1, <1>3, FailingStep DEF Failing
<1>4. CASE ~Failing(p)
  <2>1. /\ \E o \in job[p].todo : /\ receipts' = [receipts EXCEPT ![o] = None]
                                  /\ Rest(p, "remove", job[p].todo \ {o})
        /\ UNCHANGED <<index, carrier, pending, temps, refs, localVars>>
    BY <1>4 DEF RemoveOne
  <2>2. PICK o \in job[p].todo : /\ receipts' = [receipts EXCEPT ![o] = None]
                                 /\ Rest(p, "remove", job[p].todo \ {o})
    BY <2>1
  <2>3. /\ Whole(r) /\ index = receipts[r].post /\ job[p].todo \subseteq receipts[r].plan
        /\ \A x \in receipts[r].plan \ job[p].todo : receipts[x] = None
    BY <1>1, <1>2 DEF PublishesOn
  <2>4. receipts[r].plan \subseteq Receipts /\ receipts[r].post \in Indices /\ Planned(r, receipts[r])
    BY <1>2, <2>3, PublicationFields DEF OwnerInv, Plans
  <2>5. o \in Receipts /\ o # r /\ o \notin Entries
    BY <2>3, <2>4, IndexFields DEF Planned, Entries
  <2>6. FileTypes' /\ Plans' /\ IndexBacked' /\ OwnershipExplained'
    BY <2>1, <2>2, <2>5, ReceiptGoes
  <2>7. \A s \in Receipts : receipts'[s] = IF s = o THEN None ELSE receipts[s]
    BY <2>2 DEF OwnerInv, FileTypes
  <2>8. ProcTypes' /\ pc'[p] = "remove" /\ UNCHANGED lock /\ job'[p].todo = job[p].todo \ {o} /\ job'[p].r = r
    <3>1. job[p].todo \ {o} \in SUBSET Receipts
      BY <2>3, <2>4
    <3> QED
      BY <1>1, <2>2, <3>1, RestTypes DEF OwnerInv
  <2>9. PublishesOn(p)' /\ RetiresOn(p)'
    <3>1. \A x \in receipts[r].plan \ job'[p].todo : receipts'[x] = None
      BY <2>3, <2>4, <2>7, <2>8
    <3>2. receipts'[r] = receipts[r] /\ index' = index
      BY <1>2, <2>1, <2>5, <2>7
    <3> QED
      BY <2>3, <2>8, <3>1, <3>2 DEF PublishesOn, RetiresOn, Retiring, Whole
  <2>10. temps' \in Nat /\ temps' <= crashes' + Installing' /\ crashes' \in 0 .. MaxCrashes
    BY <1>1, <1>2, <2>1, StillTemporaries
  <2> QED
    BY <1>2, <2>6, <2>8, <2>9, <2>10, WorkStep
<1> QED
  BY <1>3, <1>4

LEMMA RemovedInv ==
  ASSUME OwnerInv, NEW p \in Procs, Removed(p), UNCHANGED crashes
  PROVE  OwnerInv'
<1>1. /\ pc[p] = "remove" /\ job[p].todo = {} /\ Continue(p, "commit")
      /\ UNCHANGED <<proofVars, localVars>>
  BY DEF Removed, At
<1>2. {pc[p], "commit"} \subseteq Publishing /\ {pc[p], "commit"} \subseteq Custodial
  BY <1>1 DEF Publishing, Custodial
<1>3. PublishesOn(p)
  BY <1>2, HolderKnows
<1>4. ProcTypes' /\ OnlyMoves(p) /\ pc'[p] = "commit" /\ job'[p] = job[p]
  BY <1>1, <1>2, ContinueTypes DEF OwnerInv
<1>5. PublishesOn(p)' /\ RetiresOn(p)'
  BY <1>1, <1>3, <1>4 DEF PublishesOn, RetiresOn, Retiring, Whole, proofVars
<1> QED
  BY <1>1, <1>4, <1>5, StillStep

(* The result is written and the locks are released.                       *)
LEMMA CommitPublicationInv ==
  ASSUME OwnerInv, NEW p \in Procs, CommitPublication(p), UNCHANGED crashes
  PROVE  OwnerInv'
<1> DEFINE e == Pub(job[p].r)
<1>1. pc[p] = "commit" /\ pc[p] \in Custodial /\ pc[p] \in Publishing
  BY DEF CommitPublication, At, Custodial, Publishing
<1>2. lock = p /\ job[p].r \in Receipts /\ job[p] \in PublicationJobs
  BY <1>1, HolderKnows
<1>3. CASE Failing(p)
  BY <1>1, <1>3, FailingStep DEF Failing
<1>4. CASE ~Failing(p)
  <2>1. /\ Commit(e, Done) /\ lock' = None /\ UNCHANGED <<proofVars, runs, done, binding>>
        /\ \/ ~job[p].fresh /\ Goto(p, "idle") /\ job' = [job EXCEPT ![p] = None]
           \/ job[p].fresh /\ Goto(p, "pub-complete") /\ UNCHANGED job
    BY <1>4 DEF CommitPublication
  <2>2. StoreTypeOK' /\ CommittedStays /\ JudgmentsGrow /\ done' \subseteq runs' /\ runs' \subseteq Receipts
    BY <1>2, <2>1, CommitKeeps, Keys DEF OwnerInv, FileTypes, CommittedStays, JudgmentsGrow
  <2>3. CASE Goto(p, "idle") /\ job' = [job EXCEPT ![p] = None]
    <3>1. Leave(p)
      BY <1>2, <2>1, <2>3 DEF Leave
    <3> QED
      BY <1>1, <2>1, <2>2, <3>1, LeaveStep
  <2>4. CASE Goto(p, "pub-complete") /\ UNCHANGED job
    <3>1. pc' = [pc EXCEPT ![p] = "pub-complete"] /\ job' = [job EXCEPT ![p] = job[p]]
      BY <2>4 DEF Goto, OwnerInv, ProcTypes
    <3>2. "pub-complete" \in PCs \ {"idle"} /\ "pub-complete" \notin Custodial /\ JobFits("pub-complete", job[p])
      BY <1>2 DEF PCs, Custodial, Retiring, Judging, JobFits
    <3>3. ProcTypes' /\ OnlyMoves(p)
      BY <1>2, <2>1, <3>1, <3>2, MoveTypes DEF OwnerInv, OnlyMoves
    <3>4. lock' # p
      BY <2>1, ProofMarksAssumption
    <3> QED
      BY <1>1, <2>1, <2>2, <3>3, <3>4, QuietStep
  <2> QED
    BY <2>1, <2>3, <2>4
<1> QED
  BY <1>3, <1>4

LEMMA PublishCompleteInv ==
  ASSUME OwnerInv, RunsRecorded, NEW p \in Procs, PublishComplete(p), UNCHANGED crashes
  PROVE  OwnerInv'
<1>1. /\ pc[p] = "pub-complete" /\ done' = done \cup {job[p].r} /\ Leave(p)
      /\ UNCHANGED <<proofVars, attempts, results, runs, binding>>
  BY DEF PublishComplete, At
<1>2. job[p].r \in runs
  BY <1>1 DEF RunsRecorded, AfterRun, Publishing
<1>3. StoreTypeOK' /\ CommittedStays /\ JudgmentsGrow /\ done' \subseteq runs' /\ runs' \subseteq Receipts
  BY <1>1, <1>2, StoreStill DEF OwnerInv, FileTypes, CommittedStays, JudgmentsGrow
<1> QED
  BY <1>1, <1>3, LeaveStep


LEMMA RecoverInv ==
  ASSUME OwnerInv, NEW p \in Procs, Recover(p), UNCHANGED crashes
  PROVE  OwnerInv'
<1> DEFINE r == job[p].r
<1>1. pc[p] = "recover" /\ pc[p] \in Custodial /\ pc[p] \in Publishing
  BY DEF Recover, At, Custodial, Publishing
<1>2. lock = p /\ r \in Receipts
  BY <1>1, HolderKnows
<1>3. CASE Failing(p)
  BY <1>1, <1>3, FailingStep DEF Failing
<1>4. CASE Recoverable(r) /\ CanReinstall(r) /\ WriteTemp(p)
  BY <1>1, <1>4, WriteTempInv DEF Recoverable, CanReinstall
<1>5. CASE /\ Recoverable(r) /\ index = receipts[r].post /\ Rest(p, "remove", receipts[r].plan)
           /\ UNCHANGED <<proofVars, localVars>>
  <2>1. Whole(r) /\ receipts[r].plan \in SUBSET Receipts
    BY <1>2, <1>5, PublicationFields DEF Recoverable, OwnerInv
  <2>2. {pc[p], "remove"} \subseteq Publishing /\ "remove" \in Custodial
    BY <1>1 DEF Publishing, Custodial
  <2>3. ProcTypes' /\ OnlyMoves(p) /\ pc'[p] = "remove" /\ job'[p].todo = receipts[r].plan /\ job'[p].r = r
    BY <1>1, <1>5, <2>1, <2>2, RestTypes DEF OwnerInv
  <2>4. PublishesOn(p)' /\ RetiresOn(p)'
    BY <1>5, <2>1, <2>3 DEF PublishesOn, RetiresOn, Retiring, Whole, proofVars
  <2> QED
    BY <1>1, <1>5, <2>3, <2>4, StillStep
<1> QED
  BY <1>3, <1>4, <1>5 DEF Recover

-----------------------------------------------------------------------------
(* Retirements.                                                            *)

LEMMA BindingType ==
  ASSUME OwnerInv, NEW selected \in SUBSET Receipts
  PROVE  /\ Binding(selected) \in Judgments /\ "selected" \in DOMAIN Binding(selected)
         /\ Binding(selected).selected = selected /\ Binding(selected).seen.refs = refs
<1>1. index \in Indices \cup {None} /\ temps \in Nat /\ refs \subseteq Receipts
  BY DEF OwnerInv, FileTypes, Counted
<1>2. Observation \in Observations /\ Observation.refs = refs
  BY <1>1 DEF Observation, Observations, Present
<1>3. Legacy \in BOOLEAN
  BY DEF Legacy, Transfer
<1>4. carrier \in Nat \cup {None}
  BY JudgmentFields DEF OwnerInv, FileTypes
<1> QED
  BY <1>1, <1>2, <1>3, <1>4 DEF Binding, Judgments

LEMMA EnterRetireInv ==
  ASSUME OwnerInv, NEW p \in Procs, EnterRetire(p), UNCHANGED crashes
  PROVE  OwnerInv'
<1>1. PICK selected \in SUBSET OfferedReceipts : Start(p, "ret-lock", [bound |-> Binding(selected)])
  BY DEF EnterRetire
<1> DEFINE j == [bound |-> Binding(selected)]
<1>2. j \in JudgmentJobs /\ "selected" \in DOMAIN j.bound
  BY BindingType DEF JudgmentJobs, OfferedReceipts
<1>3. "ret-lock" \in PCs \ Custodial /\ "ret-lock" # "idle" /\ JobFits("ret-lock", j)
  BY <1>2 DEF PCs, Custodial, Publishing, Retiring, JobFits
<1> HIDE DEF j
<1>4. UNCHANGED <<proofVars, localVars>>
  BY DEF EnterRetire
<1>5. Start(p, "ret-lock", j)
  BY <1>1 DEF j
<1> QED
  BY <1>3, <1>4, <1>5, StartStep

LEMMA EnterRecoveryInv ==
  ASSUME OwnerInv, NEW p \in Procs, EnterRecovery(p), UNCHANGED crashes
  PROVE  OwnerInv'
<1> DEFINE j == [bound |-> pending]
<1>1. pending \in PendingRecords /\ pending.tries <= MaxTries
  BY DEF EnterRecovery, OwnerInv, FileTypes
<1>2. j \in JudgmentJobs /\ j.bound.tries <= MaxTries
  BY <1>1 DEF JudgmentJobs
<1>3. "ret-lock" \in PCs \ Custodial /\ "ret-lock" # "idle" /\ JobFits("ret-lock", j)
  BY <1>2 DEF PCs, Custodial, Publishing, Retiring, JobFits
<1>4. Start(p, "ret-lock", j) /\ UNCHANGED <<proofVars, localVars>>
  BY DEF EnterRecovery
<1> HIDE DEF j
<1> QED
  BY <1>3, <1>4, StartStep

(* What is still offered was judged of receipts nobody references.         *)
LEMMA Judged ==
  ASSUME OwnerInv, NEW b, StillRetiring(b)
  PROVE  b \in Judgments /\ b.selected \subseteq Receipts /\ b.selected \cap b.seen.refs = {}
<1>1. b.selected \subseteq OfferedReceipts /\ b = Binding(b.selected) /\ OfferedReceipts \subseteq Receipts
  BY DEF StillRetiring, Selectable, OfferedReceipts
<1>2. b \in Judgments /\ b.seen.refs = refs /\ b.selected \subseteq Receipts
  BY <1>1, BindingType
<1> QED
  BY <1>1, <1>2 DEF OfferedReceipts

LEMMA AdmitRetirementInv ==
  ASSUME OwnerInv, NEW p \in Procs, AdmitRetirement(p), UNCHANGED crashes
  PROVE  OwnerInv'
<1> DEFINE b == job[p].bound
           i == Len(binding) + 1
           j == [i |-> i, own |-> Ret(i), todo |-> b.selected]
<1>1. /\ pc[p] = "ret-admit" /\ StillRetiring(b) /\ i <= MaxRetirements
      /\ Admit(Ret(i)) /\ binding' = Append(binding, b)
      /\ pc' = [pc EXCEPT ![p] = "ret-record"] /\ job' = [job EXCEPT ![p] = j]
      /\ UNCHANGED <<proofVars, runs, done, lock>>
  BY DEF AdmitRetirement, At, Goto
<1>2. binding \in Seq(Judgments) /\ Len(binding) \in Nat /\ MaxRetirements \in Nat
  BY Bounds DEF OwnerInv, FileTypes
<1>4. b \in Judgments /\ b.selected \subseteq Receipts /\ b.selected \cap b.seen.refs = {}
  BY <1>1, Judged
<1>6. i \in 1 .. MaxRetirements /\ i \in Nat /\ Len(binding) < MaxRetirements /\ Ret(i) \in Effects
  BY <1>1, <1>2, Keys
<1> HIDE DEF b
<1>7. JudgmentsGrow
  BY <1>1, <1>4, <1>6 DEF JudgmentsGrow
<1>8. StoreTypeOK' /\ CommittedStays /\ done' \subseteq runs' /\ runs' \subseteq Receipts
  BY <1>1, AdmitKeeps DEF OwnerInv, FileTypes, CommittedStays
<1>9. i \in DOMAIN binding' /\ binding'[i] = b
  BY <1>1, <1>2, <1>4
<1> HIDE DEF i
<1>10. j \in RetirementJobs /\ j.i = i /\ j.own = Ret(i) /\ j.todo = b.selected
  BY <1>4, <1>6 DEF RetirementJobs
<1> HIDE DEF j
<1>11. JobFits("ret-record", j) /\ "ret-record" \in PCs \ {"idle"} /\ "ret-record" \in Custodial /\ pc[p] \in Custodial
  BY <1>1, <1>10 DEF JobFits, Publishing, Judging, Retiring, PCs, Custodial
<1>12. ProcTypes' /\ OnlyMoves(p) /\ pc'[p] = "ret-record" /\ job'[p] = j
  BY <1>1, <1>11, MoveTypes DEF OwnerInv, OnlyMoves
<1>13. PublishesOn(p)' /\ RetiresOn(p)'
  BY <1>9, <1>10, <1>12 DEF PublishesOn, RetiresOn, Retiring, Recovering
<1> QED
  BY <1>1, <1>7, <1>8, <1>12, <1>13, QuietStep

LEMMA AdmitRecoveryInv ==
  ASSUME OwnerInv, NEW p \in Procs, AdmitRecovery(p), UNCHANGED crashes
  PROVE  OwnerInv'
<1> DEFINE b == job[p].bound
           own == Rec(b.base, b.tries)
           todo == binding[b.base].selected
           j == [i |-> b.base, own |-> own, todo |-> todo]
<1>1. /\ pc[p] = "ret-admit" /\ StillRecovering(b) /\ Admit(own)
      /\ pc' = [pc EXCEPT ![p] = "ret-record"] /\ job' = [job EXCEPT ![p] = j]
      /\ UNCHANGED <<proofVars, runs, done, binding, lock>>
  BY DEF AdmitRecovery, At, Goto
<1>2. "base" \in DOMAIN b /\ pending = b
  BY <1>1 DEF StillRecovering
<1>3. job[p] \in JudgmentJobs /\ ("selected" \in DOMAIN b \/ b.tries <= MaxTries)
  BY <1>1 DEF OwnerInv, ProcTypes, JobFits, Judging
<1>4. b \in PendingRecords /\ b.tries <= MaxTries
  BY <1>2, <1>3 DEF JudgmentJobs, Judgments, PendingRecords
<1>5. pending # None /\ b.base \in DOMAIN binding /\ b.tries \in 0 .. MaxTries
  BY <1>2, <1>4, ProofMarksAssumption, Bounds DEF OwnerInv, FileTypes, PendingRecords
<1>6. b.base \in 1 .. MaxRetirements /\ b.base \in Nat /\ todo \subseteq Receipts
  BY <1>5, JudgmentFields DEF OwnerInv
<1>7. own \in Effects
  BY <1>5, <1>6, Keys
<1>8. StoreTypeOK' /\ CommittedStays /\ JudgmentsGrow /\ done' \subseteq runs' /\ runs' \subseteq Receipts
  BY <1>1, AdmitKeeps DEF OwnerInv, FileTypes, CommittedStays, JudgmentsGrow
<1>9. \E n \in 0 .. MaxTries : own = Rec(b.base, n)
  BY <1>5
<1> HIDE DEF b, own, todo
<1>10. j \in RetirementJobs /\ j.i = b.base /\ j.own = own /\ j.todo = todo
  BY <1>6, <1>7 DEF RetirementJobs
<1> HIDE DEF j
<1>11. JobFits("ret-record", j) /\ "ret-record" \in PCs \ {"idle"} /\ "ret-record" \in Custodial /\ pc[p] \in Custodial
  BY <1>1, <1>9, <1>10 DEF JobFits, Publishing, Judging, Retiring, PCs, Custodial
<1>12. ProcTypes' /\ OnlyMoves(p) /\ pc'[p] = "ret-record" /\ job'[p] = j
  BY <1>1, <1>11, MoveTypes DEF OwnerInv, OnlyMoves
<1>13. todo = binding'[j.i].selected /\ j.i \in DOMAIN binding' /\ pending' # None /\ pending'.tries <= MaxTries
  BY <1>1, <1>2, <1>4, <1>5, <1>10 DEF todo, proofVars
<1>14. PublishesOn(p)' /\ RetiresOn(p)'
  BY <1>10, <1>12, <1>13 DEF PublishesOn, RetiresOn, Retiring
<1> QED
  BY <1>1, <1>8, <1>12, <1>14, QuietStep

LEMMA RefuseRetirementInv ==
  ASSUME OwnerInv, NEW p \in Procs, RefuseRetirement(p), UNCHANGED crashes
  PROVE  OwnerInv'
<1>1. pc[p] = "ret-admit" /\ Leave(p) /\ UNCHANGED <<proofVars, localVars>>
  BY DEF RefuseRetirement, At, Aborting
<1> QED
  BY <1>1, FailingStep


LEMMA RetiringHolds == Retiring \subseteq Custodial /\ Retiring \cap Publishing = {}
BY DEF Custodial, Retiring, Publishing

(* A retirement is recorded, or a recovery of it.                          *)
LEMMA RecordInv ==
  ASSUME OwnerInv, NEW p \in Procs, Record(p), UNCHANGED crashes
  PROVE  OwnerInv'
<1> DEFINE i == job[p].i
           tries == IF Recovering(p) THEN pending.tries + 1 ELSE 0
<1>1. pc[p] = "ret-record" /\ pc[p] \in Retiring /\ pc[p] \in Custodial
  BY DEF Record, At, Retiring, Custodial
<1>2. lock = p /\ i \in DOMAIN binding /\ RetiresOn(p)
  BY <1>1, HolderKnows
<1>3. CASE Aborting(p)
  BY <1>1, <1>3, FailingStep DEF Aborting
<1>4. CASE ~Aborting(p)
  <2>1. /\ pending' = [base |-> i, tries |-> tries] /\ Continue(p, "ret-index")
        /\ UNCHANGED <<receipts, index, carrier, temps, refs, localVars>>
    BY <1>4 DEF Record
  <2>2. Recovering(p) => pending # None /\ pending.tries <= MaxTries
    BY <1>1, <1>2 DEF RetiresOn
  <2>3. pending # None => pending.tries \in Nat
    BY DEF OwnerInv, FileTypes, PendingRecords
  <2>4. tries \in Nat /\ tries <= MaxTries + 1
    BY <2>2, <2>3, Bounds
  <2>5. i \in Nat
    BY <1>2, JudgmentFields DEF OwnerInv
  <2> HIDE DEF tries, i
  <2>6. pending' \in PendingRecords /\ pending'.base = i /\ pending'.tries <= MaxTries + 1
    BY <2>1, <2>4, <2>5 DEF PendingRecords
  <2>7. pending' # None
    BY <2>6, ProofMarksAssumption
  <2>8. FileTypes' /\ Plans'
    BY <1>2, <2>1, <2>6, StoreStill DEF OwnerInv, FileTypes, Plans, Whole, localVars, i
  <2>9. {pc[p], "ret-index"} \subseteq Retiring
    BY <1>1 DEF Retiring
  <2>10. ProcTypes' /\ pc'[p] = "ret-index" /\ job'[p] = job[p] /\ UNCHANGED lock
    BY <2>1, <2>9, RetiringHolds, ContinueTypes DEF OwnerInv
  <2>11. PublishesOn(p)' /\ RetiresOn(p)'
    BY <1>1, <1>2, <2>1, <2>7, <2>10 DEF PublishesOn, RetiresOn, Retiring, localVars, i
  <2>12. temps' \in Nat /\ temps' <= crashes' + Installing' /\ crashes' \in 0 .. MaxCrashes
    BY <1>1, <1>2, <2>1, StillTemporaries
  <2>13. IndexBacked' /\ OwnershipExplained'
    BY <2>1, <2>7, PendingExplains DEF OwnerInv
  <2> QED
    BY <1>2, <2>8, <2>10, <2>11, <2>12, <2>13, WorkStep
<1> QED
  BY <1>3, <1>4

LEMMA ReplaceIndexInv ==
  ASSUME OwnerInv, NEW p \in Procs, ReplaceIndex(p), UNCHANGED crashes
  PROVE  OwnerInv'
<1> DEFINE b == binding[job[p].i]
<1>1. pc[p] = "ret-index" /\ pc[p] \in Retiring /\ pc[p] \in Custodial
  BY DEF ReplaceIndex, At, Retiring, Custodial
<1>2. lock = p /\ job[p].i \in DOMAIN binding /\ RetiresOn(p)
  BY <1>1, HolderKnows
<1>3. CASE Aborting(p)
  BY <1>1, <1>3, FailingStep DEF Aborting
<1>4. CASE ~Aborting(p)
  <2>1. /\ Verified(job[p].i, TRUE) /\ index' = NextIndex(b) /\ Continue(p, "ret-verify")
        /\ UNCHANGED <<receipts, carrier, pending, temps, refs, localVars>>
    BY <1>4 DEF ReplaceIndex
  <2>2. b \in Judgments /\ (index = b.index \/ index = NextIndex(b)) /\ pending # None
    BY <1>1, <1>2, <2>1, JudgmentFields DEF OwnerInv, Verified, RetiresOn
  <2>3. index' \in Indices
    BY <2>1, <2>2, NextIndexType
  <2>4. FileTypes' /\ Plans'
    BY <2>1, <2>3, StoreStill DEF OwnerInv, FileTypes, Plans, Whole, localVars
  <2>5. {pc[p], "ret-verify"} \subseteq Retiring
    BY <1>1 DEF Retiring
  <2>6. ProcTypes' /\ pc'[p] = "ret-verify" /\ job'[p] = job[p] /\ UNCHANGED lock
    BY <2>1, <2>5, RetiringHolds, ContinueTypes DEF OwnerInv
  <2>7. b' = b /\ NextIndex(b)' = NextIndex(b)
    BY <2>1, <2>6 DEF NextIndex, EmptyIndex, localVars
  <2>8. PublishesOn(p)' /\ RetiresOn(p)'
    BY <1>1, <1>2, <2>1, <2>6, <2>7 DEF PublishesOn, RetiresOn, Retiring, localVars
  <2>9. temps' \in Nat /\ temps' <= crashes' + Installing' /\ crashes' \in 0 .. MaxCrashes
    BY <1>1, <1>2, <2>1, StillTemporaries
  <2>10. IndexBacked' /\ OwnershipExplained'
    <3>1. pending' # None
      BY <2>1, <2>2
    <3> QED
      BY <2>1, <2>2, <3>1, ReplaceExplained DEF OwnerInv
  <2> QED
    BY <1>2, <2>4, <2>6, <2>8, <2>9, <2>10, WorkStep
<1> QED
  BY <1>3, <1>4

LEMMA VerifyReplacedInv ==
  ASSUME OwnerInv, NEW p \in Procs, VerifyReplaced(p), UNCHANGED crashes
  PROVE  OwnerInv'
<1>1. pc[p] = "ret-verify" /\ pc[p] \in Retiring /\ UNCHANGED <<proofVars, localVars>>
  BY DEF VerifyReplaced, At, Retiring
<1>2. CASE Leave(p)
  BY <1>1, <1>2, FailingStep
<1>3. CASE Continue(p, "ret-remove")
  <2>1. {pc[p], "ret-remove"} \subseteq Retiring
    BY <1>1 DEF Retiring
  <2>2. ProcTypes' /\ OnlyMoves(p) /\ pc'[p] = "ret-remove" /\ job'[p] = job[p]
    BY <1>3, <2>1, RetiringHolds, ContinueTypes DEF OwnerInv
  <2>3. RetiresOn(p)
    BY <1>1, RetiringHolds, HolderKnows
  <2>4. NextIndex(binding[job[p].i])' = NextIndex(binding[job[p].i])
    BY <1>1, <2>2 DEF NextIndex, EmptyIndex, localVars
  <2>5. PublishesOn(p)' /\ RetiresOn(p)'
    BY <1>1, <2>2, <2>3, <2>4 DEF PublishesOn, RetiresOn, Retiring, localVars, proofVars
  <2> QED
    BY <1>1, <2>2, <2>5, StillStep
<1> QED
  BY <1>2, <1>3 DEF VerifyReplaced

LEMMA RetireOneInv ==
  ASSUME OwnerInv, NEW p \in Procs, RetireOne(p), UNCHANGED crashes
  PROVE  OwnerInv'
<1> DEFINE b == binding[job[p].i]
<1>1. pc[p] = "ret-remove" /\ pc[p] \in Retiring /\ pc[p] \in Custodial
  BY DEF RetireOne, At, Retiring, Custodial
<1>2. lock = p /\ job[p].i \in DOMAIN binding /\ RetiresOn(p)
  BY <1>1, HolderKnows
<1>3. CASE Aborting(p)
  BY <1>1, <1>3, FailingStep DEF Aborting
<1>4. CASE ~Aborting(p)
  <2>1. /\ \E r \in job[p].todo : /\ receipts' = [receipts EXCEPT ![r] = None]
                                  /\ Rest(p, "ret-remove", job[p].todo \ {r})
        /\ UNCHANGED <<index, carrier, pending, temps, refs, localVars>>
    BY <1>4 DEF RetireOne
  <2>2. PICK r \in job[p].todo : /\ receipts' = [receipts EXCEPT ![r] = None]
                                 /\ Rest(p, "ret-remove", job[p].todo \ {r})
    BY <2>1
  <2>3. /\ index = NextIndex(b) /\ job[p].todo \subseteq b.selected /\ pending # None
        /\ \A x \in b.selected \ job[p].todo : receipts[x] = None
    BY <1>1, <1>2 DEF RetiresOn
  <2>4. b \in Judgments /\ b.selected \subseteq Receipts
    BY <1>2, JudgmentFields DEF OwnerInv
  <2>5. r \in Receipts /\ r \notin Entries
    BY <2>3, <2>4, NextIndexType, IndexFields DEF Entries
  <2>6. FileTypes' /\ Plans' /\ IndexBacked' /\ OwnershipExplained'
    BY <2>1, <2>2, <2>5, ReceiptGoes
  <2>7. \A s \in Receipts : receipts'[s] = IF s = r THEN None ELSE receipts[s]
    BY <2>2 DEF OwnerInv, FileTypes
  <2>8. {pc[p], "ret-remove"} \subseteq Retiring /\ job[p].todo \ {r} \in SUBSET Receipts
    BY <1>1, <2>3, <2>4
  <2>9. /\ ProcTypes' /\ pc'[p] = "ret-remove" /\ UNCHANGED lock
        /\ job'[p].todo = job[p].todo \ {r} /\ job'[p].i = job[p].i /\ job'[p].own = job[p].own
    BY <2>2, <2>8, RetiringHolds, RestTypes DEF OwnerInv
  <2>10. b' = b /\ NextIndex(b)' = NextIndex(b)
    BY <2>1, <2>9 DEF NextIndex, EmptyIndex, localVars
  <2>11. \A x \in b.selected \ job'[p].todo : receipts'[x] = None
    BY <2>3, <2>4, <2>7, <2>9
  <2>12. PublishesOn(p)' /\ RetiresOn(p)'
    BY <1>2, <2>1, <2>3, <2>9, <2>10, <2>11 DEF PublishesOn, RetiresOn, Retiring, localVars
  <2>13. temps' \in Nat /\ temps' <= crashes' + Installing' /\ crashes' \in 0 .. MaxCrashes
    BY <1>1, <1>2, <2>1, StillTemporaries
  <2> QED
    BY <1>2, <2>6, <2>9, <2>12, <2>13, WorkStep
<1> QED
  BY <1>3, <1>4

(* The retirement is committed, or found committed by its recovery.        *)
LEMMA CommitRetirementInv ==
  ASSUME OwnerInv, NEW p \in Procs, CommitRetirement(p), UNCHANGED crashes
  PROVE  OwnerInv'
<1> DEFINE i == job[p].i
<1>1. /\ pc[p] = "ret-remove" /\ pc[p] \in Retiring /\ pc[p] \in Custodial
      /\ UNCHANGED <<proofVars, runs, done, binding>>
  BY DEF CommitRetirement, At, Retiring, Custodial
<1>2. lock = p /\ i \in DOMAIN binding /\ RetiresOn(p) /\ Ret(i) \in Effects
  BY <1>1, HolderKnows, JudgmentFields DEF OwnerInv
<1>3. CASE Leave(p) /\ UNCHANGED storeVars
  BY <1>1, <1>3, FailingStep DEF localVars, storeVars
<1>4. CASE /\ Continue(p, "ret-carrier")
           /\ Commit(Ret(i), Done) \/ (Committed(Ret(i)) /\ UNCHANGED storeVars)
  <2>1. {pc[p], "ret-carrier"} \subseteq Retiring
    BY <1>1 DEF Retiring
  <2>2. ProcTypes' /\ OnlyMoves(p) /\ pc'[p] = "ret-carrier" /\ job'[p] = job[p]
    BY <1>4, <2>1, RetiringHolds, ContinueTypes DEF OwnerInv
  <2>3. /\ StoreTypeOK' /\ CommittedStays /\ Committed(Ret(i))'
        /\ JudgmentsGrow /\ done' \subseteq runs' /\ runs' \subseteq Receipts
    <3>1. done' \subseteq runs' /\ runs' \subseteq Receipts /\ JudgmentsGrow /\ StoreTypeOK
      BY <1>1 DEF OwnerInv, FileTypes, JudgmentsGrow
    <3>2. CASE Commit(Ret(i), Done)
      BY <1>2, <2>2, <3>1, <3>2, CommitKeeps, Keys DEF CommittedStays
    <3>3. CASE Committed(Ret(i)) /\ UNCHANGED storeVars
      BY <1>2, <2>2, <3>1, <3>3, StoreStill DEF CommittedStays, storeVars
    <3> QED
      BY <1>4, <3>1, <3>2, <3>3
  <2>4. NextIndex(binding[i])' = NextIndex(binding[i])
    BY <1>1, <2>2 DEF NextIndex, EmptyIndex
  <2>5. PublishesOn(p)' /\ RetiresOn(p)'
    BY <1>1, <1>2, <2>2, <2>3, <2>4 DEF PublishesOn, RetiresOn, Retiring, proofVars
  <2> QED
    BY <1>1, <2>2, <2>3, <2>5, QuietStep
<1> QED
  BY <1>3, <1>4 DEF CommitRetirement

LEMMA ReplaceCarrierInv ==
  ASSUME OwnerInv, NEW p \in Procs, ReplaceCarrier(p), UNCHANGED crashes
  PROVE  OwnerInv'
<1> DEFINE i == job[p].i
<1>1. pc[p] = "ret-carrier" /\ pc[p] \in Retiring /\ pc[p] \in Custodial
  BY DEF ReplaceCarrier, At, Retiring, Custodial
<1>2. lock = p /\ i \in DOMAIN binding /\ RetiresOn(p)
  BY <1>1, HolderKnows
<1>3. CASE Aborting(p)
  BY <1>1, <1>3, FailingStep DEF Aborting
<1>4. CASE ~Aborting(p)
  <2>1. /\ carrier' = i
        /\ UNCHANGED <<receipts, index, pending, temps, refs, localVars>>
    BY <1>4 DEF ReplaceCarrier
  <2>2. PICK next \in {"ret-own", "ret-clear"} : Continue(p, next)
    BY <1>4 DEF ReplaceCarrier
  <2>3. FileTypes' /\ Plans'
    BY <1>2, <2>1, StoreStill DEF OwnerInv, FileTypes, Plans, Whole, localVars
  <2>4. {pc[p], next} \subseteq Retiring
    BY <1>1 DEF Retiring
  <2>5. ProcTypes' /\ pc'[p] = next /\ job'[p] = job[p] /\ UNCHANGED lock
    BY <2>2, <2>4, RetiringHolds, ContinueTypes DEF OwnerInv
  <2>6. NextIndex(binding[i])' = NextIndex(binding[i]) /\ Committed(Ret(i))' = Committed(Ret(i))
    BY <2>1, <2>5 DEF NextIndex, EmptyIndex, localVars, Committed
  <2>7. PublishesOn(p)' /\ RetiresOn(p)'
    BY <1>1, <1>2, <2>1, <2>5, <2>6 DEF PublishesOn, RetiresOn, Retiring, localVars
  <2>8. temps' \in Nat /\ temps' <= crashes' + Installing' /\ crashes' \in 0 .. MaxCrashes
    BY <1>1, <1>2, <2>1, StillTemporaries
  <2>9. pending' # None
    BY <1>1, <1>2, <2>1 DEF RetiresOn
  <2>10. IndexBacked' /\ OwnershipExplained'
    BY <2>1, <2>9, PendingExplains DEF OwnerInv
  <2> QED
    BY <1>2, <2>3, <2>5, <2>7, <2>8, <2>10, WorkStep
<1> QED
  BY <1>3, <1>4

LEMMA CommitRecoveryInv ==
  ASSUME OwnerInv, NEW p \in Procs, CommitRecovery(p), UNCHANGED crashes
  PROVE  OwnerInv'
<1> DEFINE i == job[p].i
<1>1. /\ pc[p] = "ret-own" /\ pc[p] \in Retiring /\ pc[p] \in Custodial
      /\ UNCHANGED <<proofVars, runs, done, binding>>
  BY DEF CommitRecovery, At, Retiring, Custodial
<1>2. lock = p /\ i \in DOMAIN binding /\ RetiresOn(p) /\ Ret(i) \in Effects /\ job[p].own \in Effects
  BY <1>1, HolderKnows, JudgmentFields DEF OwnerInv, RetirementJobs
<1>3. CASE Leave(p) /\ UNCHANGED storeVars
  BY <1>1, <1>3, FailingStep DEF localVars, storeVars
<1>4. CASE Commit(job[p].own, Done) /\ Continue(p, "ret-clear")
  <2>1. /\ StoreTypeOK' /\ CommittedStays
        /\ JudgmentsGrow /\ done' \subseteq runs' /\ runs' \subseteq Receipts
    BY <1>1, <1>2, <1>4, CommitKeeps DEF OwnerInv, FileTypes, CommittedStays, JudgmentsGrow
  <2>2. {pc[p], "ret-clear"} \subseteq Retiring
    BY <1>1 DEF Retiring
  <2>3. ProcTypes' /\ OnlyMoves(p) /\ pc'[p] = "ret-clear" /\ job'[p] = job[p]
    BY <1>4, <2>2, RetiringHolds, ContinueTypes DEF OwnerInv
  <2>4. NextIndex(binding[i])' = NextIndex(binding[i]) /\ Committed(Ret(i))'
    BY <1>1, <1>2, <2>1, <2>3 DEF NextIndex, EmptyIndex, RetiresOn, CommittedStays
  <2>5. PublishesOn(p)' /\ RetiresOn(p)'
    BY <1>1, <1>2, <2>3, <2>4 DEF PublishesOn, RetiresOn, Retiring, proofVars
  <2> QED
    BY <1>1, <2>1, <2>3, <2>5, QuietStep
<1> QED
  BY <1>3, <1>4 DEF CommitRecovery

(* The record goes only when the carrier says whose index this is.         *)
LEMMA ClearPendingInv ==
  ASSUME OwnerInv, NEW p \in Procs, ClearPending(p), UNCHANGED crashes
  PROVE  OwnerInv'
<1>1. /\ pc[p] = "ret-clear" /\ pc[p] \in Retiring /\ pc[p] \in Custodial
      /\ pending' = None /\ Leave(p)
      /\ UNCHANGED <<receipts, index, carrier, temps, refs, localVars>>
  BY DEF ClearPending, At, Retiring, Custodial
<1>2. lock = p /\ RetiresOn(p) /\ job[p].i \in DOMAIN binding
  BY <1>1, HolderKnows
<1>3. carrier = job[p].i /\ Committed(Ret(carrier)) /\ index = NextIndex(binding[carrier])
  BY <1>1, <1>2 DEF RetiresOn
<1>4. FileTypes' /\ Plans'
  BY <1>1, StoreStill DEF OwnerInv, FileTypes, Plans, Whole, localVars
<1>5. ProcTypes' /\ lock' = None /\ lock' # p
  BY <1>1, <1>2, LeaveTypes DEF OwnerInv
<1>6. temps' \in Nat /\ temps' <= crashes' + Installing' /\ crashes' \in 0 .. MaxCrashes
  BY <1>1, <1>2, StillTemporaries
<1>7. IndexBacked' /\ OwnershipExplained'
  BY <1>1, <1>2, <1>3, CarrierExplains DEF OwnerInv, localVars
<1> QED
  BY <1>2, <1>4, <1>5, <1>6, <1>7, WorkStep


-----------------------------------------------------------------------------
(* Deaths.                                                                 *)

Dying == crashes < MaxCrashes /\ crashes' = crashes + 1

LEMMA DyingTemporaries ==
  ASSUME OwnerInv, NEW p \in Procs, lock = p, Dying, UNCHANGED temps
  PROVE  temps' \in Nat /\ temps' <= crashes' + Installing' /\ crashes' \in 0 .. MaxCrashes
<1>1. temps \in Nat /\ crashes \in 0 .. MaxCrashes /\ temps <= crashes + 1
  BY Temporaries, Bounds
<1>2. crashes' \in 0 .. MaxCrashes /\ temps <= crashes' /\ crashes' = crashes + 1
  BY <1>1, Bounds DEF Dying
<1>3. Installing' \in {0, 1}
  BY DEF Installing
<1>4. \A i \in {0, 1} : temps <= crashes' + i
  BY <1>1, <1>2, Bounds
<1> QED
  BY <1>1, <1>2, <1>3, <1>4

LEMMA DieLinkedInv ==
  ASSUME OwnerInv, NEW p \in Procs, DieLinked(p), Dying
  PROVE  OwnerInv'
<1> DEFINE r == job[p].r
<1>1. /\ pc[p] = "install" /\ pc[p] \in Custodial /\ pc[p] \in Publishing
      /\ index' = receipts[r].post /\ Leave(p)
      /\ UNCHANGED <<receipts, carrier, pending, temps, refs, localVars>>
  BY DEF DieLinked, At, Custodial, Publishing
<1>2. lock = p /\ r \in Receipts /\ PublishesOn(p)
  BY <1>1, HolderKnows
<1>3. Whole(r) /\ index = receipts[r].before
  BY <1>1, <1>2 DEF PublishesOn
<1>4. index' \in Indices
  BY <1>1, <1>2, <1>3, PublicationFields DEF OwnerInv
<1>5. FileTypes' /\ Plans'
  BY <1>1, <1>4, StoreStill DEF OwnerInv, FileTypes, Plans, Whole, localVars
<1>6. ProcTypes' /\ lock' = None /\ lock' # p
  BY <1>1, <1>2, LeaveTypes DEF OwnerInv
<1>7. temps' \in Nat /\ temps' <= crashes' + Installing' /\ crashes' \in 0 .. MaxCrashes
  BY <1>1, <1>2, DyingTemporaries
<1>8. IndexBacked' /\ OwnershipExplained'
  BY <1>1, <1>2, <1>3, InstallExplained DEF OwnerInv, localVars
<1> QED
  BY <1>2, <1>5, <1>6, <1>7, <1>8, WorkStep

LEMMA DieAdmittingInv ==
  ASSUME OwnerInv, NEW p \in Procs, DieAdmitting(p), Dying
  PROVE  OwnerInv'
<1> DEFINE b == job[p].bound
<1>1. Leave(p) /\ UNCHANGED <<proofVars, runs, done>>
  BY DEF DieAdmitting
<1>2. \E e : TearAttempt(e)
  BY DEF DieAdmitting
<1>3. \/ UNCHANGED binding
      \/ StillRetiring(b) /\ Len(binding) < MaxRetirements /\ binding' = Append(binding, b)
  BY DEF DieAdmitting
<1> HIDE DEF b
<1>4. JudgmentsGrow
  BY <1>3, Judged DEF JudgmentsGrow
<1>5. StoreTypeOK' /\ CommittedStays /\ done' \subseteq runs' /\ runs' \subseteq Receipts
  BY <1>1, <1>2, AdmitKeeps DEF OwnerInv, FileTypes, CommittedStays
<1> QED
  BY <1>1, <1>4, <1>5, LeaveStep DEF Dying

LEMMA DieRetainingInv ==
  ASSUME OwnerInv, NEW p \in Procs, DieRetaining(p), Dying
  PROVE  OwnerInv'
<1> DEFINE r == job[p].r
<1>1. /\ pc[p] = "pub-receipt" /\ pc[p] \in Custodial /\ pc[p] \in Publishing
      /\ receipts[r] = None /\ receipts' = [receipts EXCEPT ![r] = Torn] /\ Leave(p)
      /\ UNCHANGED <<index, carrier, pending, temps, refs, localVars>>
  BY DEF DieRetaining, CanRetainReceipt, At, Custodial, Publishing
<1>2. lock = p /\ r \in Receipts
  BY <1>1, HolderKnows
<1>3. FileTypes' /\ Plans' /\ IndexBacked' /\ OwnershipExplained'
  BY <1>1, <1>2, ReceiptAppears
<1>4. ProcTypes' /\ lock' = None /\ lock' # p
  BY <1>1, <1>2, LeaveTypes DEF OwnerInv
<1>5. temps' \in Nat /\ temps' <= crashes' + Installing' /\ crashes' \in 0 .. MaxCrashes
  BY <1>1, <1>2, DyingTemporaries
<1> QED
  BY <1>2, <1>3, <1>4, <1>5, WorkStep

LEMMA DieCommittingInv ==
  ASSUME OwnerInv, NEW p \in Procs, DieCommitting(p), Dying
  PROVE  OwnerInv'
<1>1. Leave(p) /\ UNCHANGED <<proofVars, runs, done, binding>>
  BY DEF DieCommitting
<1>2. \E e : TearResult(e)
  BY DEF DieCommitting
<1>3. StoreTypeOK' /\ CommittedStays /\ JudgmentsGrow /\ done' \subseteq runs' /\ runs' \subseteq Receipts
  BY <1>1, <1>2, TearKeeps DEF OwnerInv, FileTypes, CommittedStays, JudgmentsGrow
<1> QED
  BY <1>1, <1>3, LeaveStep DEF Dying

LEMMA DeathInv ==
  ASSUME OwnerInv, NEW p \in Procs, Death(p)
  PROVE  OwnerInv'
<1>1. Dying
  BY DEF Death, Dying
<1>2. CASE Die(p)
  BY <1>1, <1>2, FailingStep DEF Die, Dying
<1> QED
  BY <1>1, <1>2, DieLinkedInv, DieAdmittingInv, DieRetainingInv, DieCommittingInv DEF Death

-----------------------------------------------------------------------------
(* The world.                                                              *)

LEMMA WorldInv ==
  ASSUME OwnerInv, World
  PROVE  OwnerInv'
<1>1. /\ UNCHANGED <<localVars, procVars, crashes>>
      /\ UNCHANGED <<receipts, carrier, pending, temps>>
  BY DEF World, Checkout, Reference
<1>2. ProcTypes' /\ Counted' /\ Plans'
  BY <1>1 DEF OwnerInv, ProcTypes, JobFits, Counted, Installing, Plans, Whole, localVars, procVars
<1>3. StoreTypeOK' /\ CommittedStays /\ JudgmentsStay
  BY <1>1, StoreStill DEF OwnerInv, FileTypes, CommittedStays, JudgmentsStay, localVars
<1>4. CASE Checkout
  <2>1. IndexBacked' /\ OwnershipExplained' /\ index' \in Indices
    BY <1>4, CheckoutExplained
  <2>2. FileTypes'
    BY <1>1, <1>3, <1>4, <2>1 DEF OwnerInv, FileTypes, Checkout, localVars
  <2>3. AtWork'
    BY <1>1, <1>4, ProofMarksAssumption DEF Checkout, AtWork, procVars
  <2> QED
    BY <1>2, <2>1, <2>2, <2>3 DEF OwnerInv
<1>5. CASE \E r \in Receipts : Reference(r)
  <2>1. refs' \subseteq Receipts /\ UNCHANGED index
    BY <1>5 DEF Reference, OwnerInv, FileTypes
  <2>2. FileTypes'
    BY <1>1, <1>3, <2>1 DEF OwnerInv, FileTypes, localVars
  <2>3. AtWork'
    <3> SUFFICES ASSUME NEW q \in Procs, lock' = q
                 PROVE  PublishesOn(q)' /\ RetiresOn(q)'
      BY DEF AtWork
    <3>1. PublishesOn(q) /\ RetiresOn(q) /\ pc'[q] = pc[q] /\ job'[q] = job[q] /\ binding' = binding
      BY <1>1 DEF OwnerInv, AtWork, procVars, localVars
    <3>2. binding' \in Seq(Judgments)
      BY <2>2 DEF FileTypes
    <3> QED
      BY <1>1, <1>3, <2>1, <3>1, <3>2, OtherWork DEF OwnerInv
  <2>4. IndexBacked' /\ OwnershipExplained'
    BY <1>1, <1>3, <2>1, IndexKept DEF OwnerInv
  <2> QED
    BY <1>2, <2>2, <2>3, <2>4 DEF OwnerInv
<1> QED
  BY <1>4, <1>5 DEF World

-----------------------------------------------------------------------------
(* Every publication past its run has a run.json.                          *)

LEMMA RunsMove ==
  ASSUME ProcTypes, RunsRecorded, NEW p \in Procs, NEW s, NEW j, Goto(p, s), job' = [job EXCEPT ![p] = j],
         runs \subseteq runs', s \in AfterRun => j.r \in runs'
  PROVE  RunsRecorded'
<1>1. /\ pc'[p] = s /\ job'[p] = j
      /\ \A q \in Procs \ {p} : pc'[q] = pc[q] /\ job'[q] = job[q]
  BY DEF Goto, ProcTypes
<1> QED
  BY <1>1 DEF RunsRecorded

LEMMA RunsLeave ==
  ASSUME ProcTypes, RunsRecorded, NEW p \in Procs, Leave(p), runs \subseteq runs'
  PROVE  RunsRecorded'
BY RunsMove DEF Leave, AfterRun, Publishing

LEMMA RunsContinue ==
  ASSUME ProcTypes, RunsRecorded, NEW p \in Procs, NEW s, Continue(p, s), runs \subseteq runs',
         s \in AfterRun => pc[p] \in AfterRun \/ job[p].r \in runs'
  PROVE  RunsRecorded'
<1>1. job' = [job EXCEPT ![p] = job[p]] /\ Goto(p, s)
  BY DEF Continue, ProcTypes
<1>2. s \in AfterRun => job[p].r \in runs'
  BY DEF RunsRecorded
<1> QED
  BY <1>1, <1>2, RunsMove

LEMMA RunsRest ==
  ASSUME ProcTypes, RunsRecorded, NEW p \in Procs, NEW s, NEW todo, Rest(p, s, todo), UNCHANGED runs,
         s \in AfterRun => pc[p] \in AfterRun
  PROVE  RunsRecorded'
<1>1. Goto(p, s) /\ job' = [job EXCEPT ![p] = [job[p] EXCEPT !.todo = todo]]
  BY DEF Rest
<1>2. pc[p] \in AfterRun => job[p] \in PublicationJobs /\ job[p].r \in runs'
  BY DEF ProcTypes, JobFits, AfterRun, RunsRecorded
<1>3. pc[p] \in AfterRun => [job[p] EXCEPT !.todo = todo].r \in runs'
  BY <1>2 DEF PublicationJobs
<1> QED
  BY <1>1, <1>3, RunsMove


LEMMA RunsStep ==
  ASSUME ProcTypes, RunsRecorded, Next
  PROVE  RunsRecorded'
<1> USE DEF AfterRun, Publishing, At, proofVars, localVars
<1>1. CASE World
  BY <1>1 DEF World, RunsRecorded, procVars
<1>2. ASSUME NEW p \in Procs, Death(p)
      PROVE  RunsRecorded'
  <2>1. Leave(p) /\ UNCHANGED runs
    BY <1>2 DEF Death, Die, DieLinked, DieAdmitting, DieRetaining, DieCommitting
  <2> QED
    BY <2>1, RunsLeave
<1>3. ASSUME NEW p \in Procs, Publish(p)
      PROVE  RunsRecorded'
  <2>1. ASSUME NEW r \in Receipts, EnterPublish(p, r)
        PROVE  RunsRecorded'
    <3>1. UNCHANGED runs
      BY <2>1 DEF EnterPublish
    <3>2. CASE Start(p, "pub-admit", [r |-> r, todo |-> {}, fresh |-> TRUE])
      BY <3>1, <3>2, RunsMove DEF Start
    <3>3. CASE r \in runs /\ Start(p, "rec-lock", [r |-> r, todo |-> {}, fresh |-> FALSE])
      BY <3>1, <3>3, RunsMove DEF Start
    <3> QED
      BY <2>1, <3>2, <3>3 DEF EnterPublish
  <2>2. CASE PublishAdmit(p)
    BY <2>2, RunsLeave, RunsContinue DEF PublishAdmit, Failing
  <2>3. CASE PublishRun(p)
    BY <2>3, RunsLeave, RunsContinue DEF PublishRun
  <2>4. CASE PublishLock(p) \/ RecoverLock(p)
    <3>1. PICK from \in AfterRun, to \in {"pub-receipt", "recover"} : Lock(p, from, to)
      BY <2>4 DEF PublishLock, RecoverLock
    <3>2. UNCHANGED runs /\ pc[p] \in AfterRun
      BY <3>1 DEF Lock
    <3>3. CASE Leave(p)
      BY <3>2, <3>3, RunsLeave
    <3>4. CASE Goto(p, to) /\ UNCHANGED job
      <4>1. job[p].r \in runs /\ job' = [job EXCEPT ![p] = job[p]]
        BY <3>2, <3>4 DEF RunsRecorded, ProcTypes
      <4> QED
        BY <3>2, <3>4, <4>1, RunsMove
    <3> QED
      BY <3>1, <3>3, <3>4 DEF Lock
  <2>5. CASE PublishReceipt(p)
    BY <2>5, RunsLeave, RunsContinue DEF PublishReceipt, Failing
  <2>6. CASE PublishTemp(p)
    BY <2>6, RunsLeave, RunsRest DEF PublishTemp, WriteTemp, Failing
  <2>7. CASE PublishComplete(p)
    BY <2>7, RunsLeave DEF PublishComplete
  <2>8. CASE Recover(p)
    BY <2>8, RunsLeave, RunsRest DEF Recover, WriteTemp, Failing
  <2>9. CASE Install(p) \/ Removed(p)
    BY <2>9, RunsLeave, RunsContinue DEF Install, Removed, Failing
  <2>10. CASE RemoveOne(p)
    BY <2>10, RunsLeave, RunsRest DEF RemoveOne, Failing
  <2>11. CASE CommitPublication(p)
    <3>1. UNCHANGED runs /\ pc[p] \in AfterRun
      BY <2>11 DEF CommitPublication, Failing
    <3>2. CASE Leave(p)
      BY <3>1, <3>2, RunsLeave
    <3>3. CASE Goto(p, "idle") /\ job' = [job EXCEPT ![p] = None]
      BY <3>1, <3>3, RunsMove
    <3>4. CASE Goto(p, "pub-complete") /\ UNCHANGED job
      <4>1. job[p].r \in runs /\ job' = [job EXCEPT ![p] = job[p]]
        BY <3>1, <3>4 DEF RunsRecorded, ProcTypes
      <4> QED
        BY <3>1, <3>4, <4>1, RunsMove
    <3> QED
      BY <2>11, <3>2, <3>3, <3>4 DEF CommitPublication, Failing
  <2> QED
    BY <1>3, <2>1, <2>2, <2>3, <2>4, <2>5, <2>6, <2>7, <2>8, <2>9, <2>10, <2>11 DEF Publish
<1>4. ASSUME NEW p \in Procs, Retire(p)
      PROVE  RunsRecorded'
  <2>1. UNCHANGED runs
    BY <1>4 DEF Retire, EnterRetire, EnterRecovery, RetireLock, Lock, AdmitRetirement, AdmitRecovery,
       RefuseRetirement, Record, ReplaceIndex, VerifyReplaced, RetireOne, CommitRetirement,
       ReplaceCarrier, CommitRecovery, ClearPending, Aborting
  <2>2. CASE EnterRetire(p) \/ EnterRecovery(p)
    BY <2>1, <2>2, RunsMove DEF EnterRetire, EnterRecovery, Start
  <2>3. CASE RetireLock(p)
    <3>1. CASE Leave(p)
      BY <2>1, <3>1, RunsLeave
    <3>2. CASE Goto(p, "ret-admit") /\ UNCHANGED job
      <4>1. job' = [job EXCEPT ![p] = job[p]]
        BY <3>2 DEF ProcTypes
      <4> QED
        BY <2>1, <3>2, <4>1, RunsMove
    <3> QED
      BY <2>3, <3>1, <3>2 DEF RetireLock, Lock
  <2>4. CASE AdmitRetirement(p) \/ AdmitRecovery(p)
    BY <2>1, <2>4, RunsMove DEF AdmitRetirement, AdmitRecovery
  <2>5. CASE RefuseRetirement(p) \/ ClearPending(p)
    BY <2>1, <2>5, RunsLeave DEF RefuseRetirement, ClearPending, Aborting
  <2>6. CASE Record(p) \/ ReplaceIndex(p) \/ VerifyReplaced(p)
    BY <2>1, <2>6, RunsLeave, RunsContinue DEF Record, ReplaceIndex, VerifyReplaced, Aborting
  <2>7. CASE RetireOne(p)
    BY <2>1, <2>7, RunsLeave, RunsRest DEF RetireOne, Aborting
  <2>8. CASE CommitRetirement(p) \/ ReplaceCarrier(p) \/ CommitRecovery(p)
    BY <2>1, <2>8, RunsLeave, RunsContinue DEF CommitRetirement, ReplaceCarrier, CommitRecovery, Aborting
  <2> QED
    BY <1>4, <2>2, <2>3, <2>4, <2>5, <2>6, <2>7, <2>8 DEF Retire
<1> QED
  BY <1>1, <1>2, <1>3, <1>4 DEF Next, Proceed


-----------------------------------------------------------------------------
(* The invariant.                                                          *)

LEMMA OwnerInit ==
  ASSUME Init
  PROVE  OwnerInv /\ RunsRecorded
<1> USE DEF Init, StoreOwnerInit, StoreInit
<1>1. FileTypes /\ Plans
  BY Bounds DEF FileTypes, Plans, StoreTypeOK, Whole
<1>2. ProcTypes /\ AtWork
  BY ProofMarksAssumption DEF ProcTypes, PCs, Custodial, Publishing, Judging, Retiring, JobFits, AtWork
<1>3. Counted
  BY Bounds DEF Counted, Installing
<1>4. IndexBacked /\ OwnershipExplained
  BY DEF IndexBacked, Entries, OwnershipExplained, Owned
<1>5. RunsRecorded
  BY DEF RunsRecorded, AfterRun, Publishing
<1> QED
  BY <1>1, <1>2, <1>3, <1>4, <1>5 DEF OwnerInv

LEMMA PublishInv ==
  ASSUME OwnerInv, RunsRecorded, NEW p \in Procs, Publish(p), UNCHANGED crashes
  PROVE  OwnerInv'
BY EnterPublishInv, PublishAdmitInv, PublishRunInv, PublishLockInv, PublishReceiptInv, PublishTempInv,
   PublishCompleteInv, RecoverInv, InstallInv, RemoveOneInv, RemovedInv, CommitPublicationInv DEF Publish

LEMMA RetireInv ==
  ASSUME OwnerInv, NEW p \in Procs, Retire(p), UNCHANGED crashes
  PROVE  OwnerInv'
BY EnterRetireInv, EnterRecoveryInv, PublishLockInv, AdmitRetirementInv, AdmitRecoveryInv,
   RefuseRetirementInv, RecordInv, ReplaceIndexInv, VerifyReplacedInv, RetireOneInv,
   CommitRetirementInv, ReplaceCarrierInv, CommitRecoveryInv, ClearPendingInv DEF Retire

LEMMA OwnerNext ==
  ASSUME OwnerInv, RunsRecorded, [Next]_vars
  PROVE  OwnerInv' /\ RunsRecorded'
<1>1. CASE Next
  <2>1. RunsRecorded'
    BY <1>1, RunsStep DEF OwnerInv
  <2>2. CASE World
    BY <2>1, <2>2, WorldInv
  <2>3. ASSUME NEW p \in Procs, Proceed(p)
        PROVE  OwnerInv'
    BY <2>3, PublishInv, RetireInv DEF Proceed
  <2> QED
    BY <1>1, <2>1, <2>2, <2>3, DeathInv DEF Next
<1>2. CASE UNCHANGED vars
  <2> USE <1>2 DEF vars, proofVars, localVars, procVars, ghostVars
  <2>1. FileTypes' /\ Plans' /\ ProcTypes' /\ Counted' /\ RunsRecorded'
    BY DEF OwnerInv, FileTypes, StoreTypeOK, Plans, Whole, ProcTypes, JobFits, Counted, Installing, RunsRecorded
  <2>2. CommittedStays /\ JudgmentsStay
    BY DEF CommittedStays, JudgmentsStay, Committed, OwnerInv, FileTypes
  <2>3. ASSUME NEW q \in Procs, lock' = q
        PROVE  PublishesOn(q)' /\ RetiresOn(q)'
    <3>1. PublishesOn(q) /\ RetiresOn(q) /\ binding' \in Seq(Judgments)
      BY <2>3 DEF OwnerInv, AtWork, FileTypes
    <3> QED
      BY <2>2, <3>1, OtherWork DEF OwnerInv
  <2>4. IndexBacked' /\ OwnershipExplained'
    BY <2>2, IndexKept DEF OwnerInv
  <2> QED
    BY <2>1, <2>3, <2>4 DEF OwnerInv, AtWork
<1> QED
  BY <1>1, <1>2

(* The files have their types, a process that holds the locks of the owner *)
(* stands where its job says and finds index, receipts, record and carrier *)
(* as its next step expects, every temporary is one of a dead process or   *)
(* of the one that is about to install it, and the index is backed and     *)
(* explained: publish_checked and recover (proof_publication.rs) and       *)
(* execute_checked (native_proof_retention.rs), interrupted anywhere, with *)
(* any number of processes, receipts, retirements and deaths.              *)
THEOREM OwnerInvariant == Spec => []OwnerInv
<1>1. Init => OwnerInv /\ RunsRecorded
  BY OwnerInit
<1>2. OwnerInv /\ RunsRecorded /\ [Next]_vars => (OwnerInv /\ RunsRecorded)'
  BY OwnerNext
<1> QED
  BY <1>1, <1>2, PTL DEF Spec

LEMMA OwnerConsistent ==
  ASSUME OwnerInv
  PROVE  StoreConsistent
<1>1. StoreTypeOK /\ (index = None \/ index \in Indices) /\ refs \subseteq Receipts
      /\ done \subseteq runs /\ runs \subseteq Receipts /\ Len(binding) <= MaxRetirements
  BY DEF OwnerInv, FileTypes
<1>2. DOMAIN binding = 1 .. Len(binding)
  BY DEF OwnerInv, FileTypes
<1>3. carrier = None \/ carrier \in 1 .. Len(binding)
  BY <1>2 DEF OwnerInv, FileTypes
<1>4. pending = None \/ pending \in [base : 1 .. Len(binding), tries : 0 .. MaxTries + 1]
  <2>1. CASE pending # None
    <3>1. pending \in PendingRecords /\ pending.base \in 1 .. Len(binding) /\ pending.tries <= MaxTries + 1
      BY <1>2, <2>1 DEF OwnerInv, FileTypes
    <3>2. pending.tries \in 0 .. MaxTries + 1
      BY <3>1, Bounds DEF PendingRecords
    <3> QED
      BY <3>1, <3>2 DEF PendingRecords
  <2> QED
    BY <2>1
<1>5. \A r \in Receipts : Whole(r) =>
        /\ receipts[r].before = None \/ receipts[r].before \in Indices
        /\ receipts[r].post \in Indices /\ receipts[r].plan \subseteq Receipts \ {r}
  BY PublicationFields DEF OwnerInv, Plans, Planned
<1>6. temps \in 0 .. MaxCrashes + 1
  <2>1. Installing \in {0, 1}
    BY DEF Installing
  <2>2. temps \in Nat /\ crashes \in 0 .. MaxCrashes /\ temps <= crashes + Installing
    BY DEF OwnerInv, Counted
  <2> QED
    BY <2>1, <2>2, Bounds
<1>7. /\ lock \in Procs \cup {None} /\ pc \in [Procs -> PCs]
      /\ \A p \in Procs : pc[p] = "idle" <=> job[p] = None
  BY DEF OwnerInv, ProcTypes
<1>8. TypeOK
  BY <1>1, <1>3, <1>4, <1>5, <1>6, <1>7 DEF TypeOK
<1> QED
  BY <1>8 DEF StoreConsistent, OwnerInv

(* Whatever is published, retired, recovered, checked out or interrupted:  *)
(* every listed receipt is whole on disk, and an index nobody owns came    *)
(* with a checkout, is the one a pending retirement left, or is that of a  *)
(* publication that has not committed (owned_index of proof_publication.rs *)
(* and index_custody of native_proof_retention.rs).                        *)
THEOREM StoreStaysConsistent == Spec => []StoreConsistent
<1>1. OwnerInv => StoreConsistent
  BY OwnerConsistent
<1> QED
  BY <1>1, OwnerInvariant, PTL


-----------------------------------------------------------------------------
(* Which steps change what.                                                *)

LEMMA IndexMoves ==
  ASSUME Next
  PROVE  \/ UNCHANGED index \/ Checkout
         \/ \E p \in Procs : Install(p) \/ DieLinked(p) \/ ReplaceIndex(p)
<1> USE DEF proofVars
<1>1. CASE World
  BY <1>1 DEF World, Reference
<1>2. ASSUME NEW p \in Procs, Publish(p)
      PROVE  UNCHANGED index \/ Install(p)
  BY <1>2 DEF Publish, EnterPublish, PublishAdmit, PublishRun, PublishLock, RecoverLock, Lock, PublishReceipt,
     PublishTemp, WriteTemp, PublishComplete, Recover, RemoveOne, Removed, CommitPublication, Failing
<1>3. ASSUME NEW p \in Procs, Retire(p)
      PROVE  UNCHANGED index \/ ReplaceIndex(p)
  BY <1>3 DEF Retire, EnterRetire, EnterRecovery, RetireLock, Lock, AdmitRetirement, AdmitRecovery,
     RefuseRetirement, Record, VerifyReplaced, RetireOne, CommitRetirement, ReplaceCarrier, CommitRecovery,
     ClearPending, Aborting
<1>4. ASSUME NEW p \in Procs, Death(p)
      PROVE  UNCHANGED index \/ DieLinked(p)
  BY <1>4 DEF Death, Die, DieAdmitting, DieRetaining, DieCommitting
<1> QED
  BY <1>1, <1>2, <1>3, <1>4 DEF Next, Proceed

LEMMA ReceiptMoves ==
  ASSUME Next
  PROVE  \/ UNCHANGED receipts
         \/ \E p \in Procs : \/ RemoveOne(p) \/ RetireOne(p)
                             \/ \E x \in {Torn, Publication(job[p].r)} :
                                  /\ receipts[job[p].r] = None
                                  /\ receipts' = [receipts EXCEPT ![job[p].r] = x]
<1> USE DEF proofVars
<1>1. CASE World
  BY <1>1 DEF World, Reference, Checkout
<1>2. ASSUME NEW p \in Procs, Publish(p)
      PROVE  \/ UNCHANGED receipts \/ RemoveOne(p)
             \/ /\ receipts[job[p].r] = None
                /\ receipts' = [receipts EXCEPT ![job[p].r] = Publication(job[p].r)]
  BY <1>2 DEF Publish, EnterPublish, PublishAdmit, PublishRun, PublishLock, RecoverLock, Lock, PublishReceipt,
     PublishTemp, WriteTemp, PublishComplete, Recover, Install, Removed, CommitPublication, Failing, CanRetainReceipt
<1>3. ASSUME NEW p \in Procs, Retire(p)
      PROVE  UNCHANGED receipts \/ RetireOne(p)
  BY <1>3 DEF Retire, EnterRetire, EnterRecovery, RetireLock, Lock, AdmitRetirement, AdmitRecovery,
     RefuseRetirement, Record, ReplaceIndex, VerifyReplaced, CommitRetirement, ReplaceCarrier, CommitRecovery,
     ClearPending, Aborting
<1>4. ASSUME NEW p \in Procs, Death(p)
      PROVE  \/ UNCHANGED receipts
             \/ receipts[job[p].r] = None /\ receipts' = [receipts EXCEPT ![job[p].r] = Torn]
  BY <1>4 DEF Death, Die, DieLinked, DieAdmitting, DieRetaining, DieCommitting, CanRetainReceipt
<1> QED
  BY <1>1, <1>2, <1>3, <1>4 DEF Next, Proceed

(* What goes is no longer listed, and nobody referenced it.                *)
LEMMA RemovedOnes ==
  ASSUME OwnerInv, Next, NEW r \in Present \ Present'
  PROVE  r \notin refs
<1>1. r \in Receipts /\ receipts[r] # None /\ receipts'[r] = None
  BY DEF Present
<1>2. ASSUME NEW p \in Procs, RemoveOne(p)
      PROVE  r \notin refs
  <2> DEFINE plan == receipts[job[p].r].plan
  <2>1. pc[p] = "remove" /\ pc[p] \in Custodial /\ pc[p] \in Publishing
    BY <1>2 DEF RemoveOne, At, Custodial, Publishing
  <2>2. lock = p /\ job[p].r \in Receipts /\ PublishesOn(p)
    BY <2>1, HolderKnows
  <2>3. Whole(job[p].r) /\ job[p].todo \subseteq plan
    BY <2>1, <2>2 DEF PublishesOn
  <2>4. AutomaticCheck(job[p].r, TRUE) /\ \E o \in job[p].todo : receipts' = [receipts EXCEPT ![o] = None]
    BY <1>1, <1>2 DEF RemoveOne, Failing, proofVars
  <2>5. r \in plan
    BY <1>1, <2>3, <2>4 DEF OwnerInv, FileTypes
  <2>6. plan \cap receipts[job[p].r].guard.refs = {}
    BY <2>2, <2>3 DEF OwnerInv, Plans, Planned
  <2>7. Guard(job[p].r, plan) = receipts[job[p].r].guard
    BY <2>4, <2>5 DEF AutomaticCheck
  <2>8. Guard(job[p].r, plan).refs = refs
    BY DEF Guard, Observation
  <2> QED
    BY <2>5, <2>6, <2>7, <2>8
<1>3. ASSUME NEW p \in Procs, RetireOne(p)
      PROVE  r \notin refs
  <2> DEFINE b == binding[job[p].i]
  <2>1. pc[p] = "ret-remove" /\ pc[p] \in Custodial /\ pc[p] \in Retiring
    BY <1>3 DEF RetireOne, At, Custodial, Retiring
  <2>2. lock = p /\ job[p].i \in DOMAIN binding /\ RetiresOn(p)
    BY <2>1, HolderKnows
  <2>3. Verified(job[p].i, TRUE) /\ \E o \in job[p].todo : receipts' = [receipts EXCEPT ![o] = None]
    BY <1>1, <1>3 DEF RetireOne, Aborting, proofVars
  <2>4. job[p].todo \subseteq b.selected
    BY <2>1, <2>2 DEF RetiresOn
  <2>5. r \in b.selected
    BY <1>1, <2>3, <2>4 DEF OwnerInv, FileTypes
  <2>6. b.selected \cap b.seen.refs = {}
    BY <2>2 DEF OwnerInv, Plans
  <2>7. refs = b.seen.refs
    BY <2>3 DEF Verified, Observation
  <2> QED
    BY <2>5, <2>6, <2>7
<1>4. ASSUME NEW p \in Procs, NEW x \in {Torn, Publication(job[p].r)},
             receipts[job[p].r] = None, receipts' = [receipts EXCEPT ![job[p].r] = x]
      PROVE  FALSE
  BY <1>1, <1>4 DEF OwnerInv, FileTypes
<1> QED
  BY <1>1, <1>2, <1>3, <1>4, ReceiptMoves

(* What is removed has no consumer at that moment, however long before the *)
(* removal was planned and whoever resumed it: automatic_check before each *)
(* removal of a superseded receipt, verify before each retired one         *)
(* (native_proof_retention.rs).                                            *)
THEOREM RemovalsUnreferenced == Spec => RemovedUnreferenced
<1>1. OwnerInv /\ [Next]_vars => [\A r \in Present \ Present' : r \notin refs]_vars
  BY RemovedOnes
<1> QED
  BY <1>1, OwnerInvariant, PTL DEF Spec, RemovedUnreferenced

LEMMA LostOnes ==
  ASSUME OwnerInv, Next, ~Checkout, NEW r \in Entries \ Entries'
  PROVE  Dropping(r)
<1> USE ProofMarksAssumption
<1>1. index # None /\ r \in index.entries /\ r \in Receipts /\ index' # index
  BY IndexFields DEF Entries, OwnerInv, FileTypes
<1>2. ASSUME NEW p \in Procs, Install(p)
      PROVE  Dropping(r)
  <2> DEFINE x == receipts[job[p].r]
  <2>1. pc[p] = "install" /\ pc[p] \in Custodial /\ pc[p] \in Publishing
    BY <1>2 DEF Install, At, Custodial, Publishing
  <2>2. lock = p /\ job[p].r \in Receipts /\ PublishesOn(p)
    BY <2>1, HolderKnows
  <2>3. Whole(job[p].r) /\ index = x.before
    BY <2>1, <2>2 DEF PublishesOn
  <2>4. index' = x.post
    BY <2>3, <1>2 DEF Install
  <2>5. x.post \in Indices /\ x.post.entries = (EntriesOf(x.before) \ x.plan) \cup {job[p].r}
    BY <2>2, <2>3, PublicationFields DEF OwnerInv, Plans, Planned
  <2>6. r \in x.plan
    BY <1>1, <2>3, <2>4, <2>5, IndexFields DEF Entries, EntriesOf
  <2> QED
    BY <2>1, <2>2, <2>6 DEF Dropping, At
<1>3. ASSUME NEW p \in Procs, ReplaceIndex(p)
      PROVE  Dropping(r)
  <2> DEFINE b == binding[job[p].i]
  <2>1. pc[p] = "ret-index" /\ pc[p] \in Custodial /\ pc[p] \in Retiring
    BY <1>3 DEF ReplaceIndex, At, Custodial, Retiring
  <2>2. lock = p /\ job[p].i \in DOMAIN binding
    BY <2>1, HolderKnows
  <2>3. b \in Judgments
    BY <2>2, JudgmentFields DEF OwnerInv
  <2>4. Verified(job[p].i, TRUE) /\ index' = NextIndex(b)
    BY <1>1, <1>3 DEF ReplaceIndex, Aborting, proofVars
  <2>5. index = b.index
    BY <1>1, <2>4 DEF Verified
  <2>6. NextIndex(b) \in Indices /\ (~b.legacy => EntriesOf(b.index) \ NextIndex(b).entries \subseteq b.selected)
    BY <2>3, NextIndexType
  <2>7. b.legacy \/ r \in b.selected
    BY <1>1, <2>4, <2>5, <2>6, IndexFields DEF Entries, EntriesOf
  <2> QED
    BY <2>1, <2>2, <2>7 DEF Dropping, At
<1>4. ASSUME NEW p \in Procs, DieLinked(p)
      PROVE  FALSE
  BY <1>1, <1>4 DEF DieLinked
<1> QED
  BY <1>1, <1>2, <1>3, <1>4, IndexMoves

(* No lost update of the index: whichever writers interleave, an entry     *)
(* goes only because the publication at work supersedes that receipt or    *)
(* the retirement at work was judged for it (install of                    *)
(* proof_publication.rs, replace_exact of native_proof_retention.rs).      *)
THEOREM EntriesNeverLost == Spec => NoLostEntry
<1>1. OwnerInv /\ [Next]_vars => [Checkout \/ \A r \in Entries \ Entries' : Dropping(r)]_vars
  BY LostOnes
<1> QED
  BY <1>1, OwnerInvariant, PTL DEF Spec, NoLostEntry


(* A result is written by a committing process only.                       *)
LEMMA CommitMoves ==
  ASSUME Next
  PROVE  \/ UNCHANGED storeVars
         \/ \E x : Admit(x) \/ TearAttempt(x) \/ TearResult(x)
         \/ \E p \in Procs : \/ CommitPublication(p) /\ Commit(Pub(job[p].r), Done)
                             \/ CommitRetirement(p) /\ Commit(Ret(job[p].i), Done)
                             \/ CommitRecovery(p) /\ Commit(job[p].own, Done)
<1> USE DEF localVars, storeVars
<1>1. CASE World
  BY <1>1 DEF World
<1>2. ASSUME NEW p \in Procs, Publish(p)
      PROVE  \/ UNCHANGED storeVars \/ \E x : Admit(x)
             \/ CommitPublication(p) /\ Commit(Pub(job[p].r), Done)
  <2>1. CASE PublishAdmit(p)
    BY <2>1 DEF PublishAdmit, Failing
  <2>2. CASE CommitPublication(p)
    BY <2>2 DEF CommitPublication, Failing
  <2>3. CASE ~PublishAdmit(p) /\ ~CommitPublication(p)
    BY <1>2, <2>3 DEF Publish, EnterPublish, PublishRun, PublishLock, RecoverLock, Lock, PublishReceipt,
       PublishTemp, WriteTemp, PublishComplete, Recover, Install, RemoveOne, Removed, Failing
  <2> QED
    BY <2>1, <2>2, <2>3
<1>3. ASSUME NEW p \in Procs, Retire(p)
      PROVE  \/ UNCHANGED storeVars \/ \E x : Admit(x)
             \/ CommitRetirement(p) /\ Commit(Ret(job[p].i), Done)
             \/ CommitRecovery(p) /\ Commit(job[p].own, Done)
  <2>1. CASE AdmitRetirement(p) \/ AdmitRecovery(p)
    BY <2>1 DEF AdmitRetirement, AdmitRecovery
  <2>2. CASE CommitRetirement(p) \/ CommitRecovery(p)
    BY <2>2 DEF CommitRetirement, CommitRecovery
  <2>3. CASE /\ ~AdmitRetirement(p) /\ ~AdmitRecovery(p) /\ ~CommitRetirement(p) /\ ~CommitRecovery(p)
    BY <1>3, <2>3 DEF Retire, EnterRetire, EnterRecovery, RetireLock, Lock, RefuseRetirement, Record,
       ReplaceIndex, VerifyReplaced, RetireOne, ReplaceCarrier, ClearPending, Aborting
  <2> QED
    BY <2>1, <2>2, <2>3
<1>4. ASSUME NEW p \in Procs, Death(p)
      PROVE  UNCHANGED storeVars \/ \E x : TearAttempt(x) \/ TearResult(x)
  BY <1>4 DEF Death, Die, DieLinked, DieAdmitting, DieRetaining, DieCommitting
<1> QED
  BY <1>1, <1>2, <1>3, <1>4 DEF Next, Proceed

(* What a process has found when it commits.                               *)
LEMMA CommittersKnow ==
  ASSUME OwnerInv, Next, NEW e \in Effects, Committed(e)', ~Committed(e)
  PROVE  \E p \in Procs :
           \/ /\ e = Pub(job[p].r) /\ job[p].r \in Receipts
              /\ index = receipts[job[p].r].post /\ Gone(receipts[job[p].r].plan)
           \/ /\ e = Ret(job[p].i) /\ job[p].i \in DOMAIN binding
              /\ index = NextIndex(binding[job[p].i]) /\ Gone(binding[job[p].i].selected)
           \/ \E i \in DOMAIN binding, n \in Nat : e = Rec(i, n)
<1>1. StoreTypeOK
  BY DEF OwnerInv, FileTypes
<1>2. CASE UNCHANGED storeVars \/ \E x : Admit(x) \/ TearAttempt(x) \/ TearResult(x)
  BY <1>1, <1>2, AdmitKeeps, TearKeeps, StoreStill DEF storeVars
<1>3. ASSUME NEW p \in Procs, CommitPublication(p), Commit(Pub(job[p].r), Done)
      PROVE  /\ e = Pub(job[p].r) /\ job[p].r \in Receipts
             /\ index = receipts[job[p].r].post /\ Gone(receipts[job[p].r].plan)
  <2>1. pc[p] = "commit" /\ pc[p] \in Custodial /\ pc[p] \in Publishing
    BY <1>3 DEF CommitPublication, At, Custodial, Publishing
  <2>2. job[p].r \in Receipts /\ PublishesOn(p)
    BY <2>1, HolderKnows
  <2>3. e = Pub(job[p].r)
    BY <1>1, <1>3, <2>2, CommitKeeps, Keys
  <2>4. index = receipts[job[p].r].post /\ Gone(receipts[job[p].r].plan)
    BY <2>1, <2>2 DEF PublishesOn, Gone
  <2> QED
    BY <2>2, <2>3, <2>4
<1>4. ASSUME NEW p \in Procs, CommitRetirement(p), Commit(Ret(job[p].i), Done)
      PROVE  /\ e = Ret(job[p].i) /\ job[p].i \in DOMAIN binding
             /\ index = NextIndex(binding[job[p].i]) /\ Gone(binding[job[p].i].selected)
  <2>1. pc[p] = "ret-remove" /\ job[p].todo = {} /\ pc[p] \in Custodial /\ pc[p] \in Retiring
    BY <1>4 DEF CommitRetirement, At, Custodial, Retiring
  <2>2. job[p].i \in DOMAIN binding /\ RetiresOn(p) /\ Ret(job[p].i) \in Effects
    BY <2>1, HolderKnows, JudgmentFields DEF OwnerInv
  <2>3. e = Ret(job[p].i)
    BY <1>1, <1>4, <2>2, CommitKeeps
  <2>4. index = NextIndex(binding[job[p].i]) /\ Gone(binding[job[p].i].selected)
    BY <2>1, <2>2 DEF RetiresOn, Gone
  <2> QED
    BY <2>2, <2>3, <2>4
<1>5. ASSUME NEW p \in Procs, CommitRecovery(p), Commit(job[p].own, Done)
      PROVE  \E i \in DOMAIN binding, n \in Nat : e = Rec(i, n)
  <2>1. pc[p] = "ret-own" /\ pc[p] \in Custodial /\ pc[p] \in Retiring
    BY <1>5 DEF CommitRecovery, At, Custodial, Retiring
  <2>2. /\ job[p].i \in DOMAIN binding /\ RetiresOn(p) /\ job[p].own \in Effects
        /\ job[p].own = Ret(job[p].i) \/ \E n \in 0 .. MaxTries : job[p].own = Rec(job[p].i, n)
    BY <2>1, HolderKnows DEF RetirementJobs
  <2>3. e = job[p].own
    BY <1>1, <1>5, <2>2, CommitKeeps
  <2>4. Committed(Ret(job[p].i))
    BY <2>1, <2>2 DEF RetiresOn
  <2>5. \E n \in 0 .. MaxTries : e = Rec(job[p].i, n)
    BY <2>2, <2>3, <2>4
  <2> QED
    BY <2>2, <2>5
<1> QED
  BY <1>2, <1>3, <1>4, <1>5, CommitMoves

(* A result is committed only when what it reports is true on disk, by the *)
(* first process or by one that recovers: index_sha256 names the index in  *)
(* place and what was superseded or retired is gone (publish_checked,      *)
(* recover, execute_checked).                                              *)
THEOREM CommitsLanded == Spec => CommitsWhatLanded
<1> DEFINE Lands ==
      /\ \A r \in Receipts :
            Committed(Pub(r))' /\ ~Committed(Pub(r)) => index = receipts[r].post /\ Gone(receipts[r].plan)
      /\ \A i \in DOMAIN binding :
            Committed(Ret(i))' /\ ~Committed(Ret(i)) =>
               index = NextIndex(binding[i]) /\ Gone(binding[i].selected)
<1>1. ASSUME OwnerInv, Next
      PROVE  Lands
  <2>1. ASSUME NEW r \in Receipts, Committed(Pub(r))', ~Committed(Pub(r))
        PROVE  index = receipts[r].post /\ Gone(receipts[r].plan)
    <3>1. Pub(r) \in Effects
      BY Keys
    <3> QED
      BY <1>1, <2>1, <3>1, CommittersKnow, Keys
  <2>2. ASSUME NEW i \in DOMAIN binding, Committed(Ret(i))', ~Committed(Ret(i))
        PROVE  index = NextIndex(binding[i]) /\ Gone(binding[i].selected)
    <3>1. Ret(i) \in Effects
      BY <1>1, JudgmentFields DEF OwnerInv
    <3> QED
      BY <1>1, <2>2, <3>1, CommittersKnow, Keys
  <2> QED
    BY <2>1, <2>2
<1>2. OwnerInv /\ [Next]_vars => [Lands]_vars
  BY <1>1
<1> QED
  BY <1>2, OwnerInvariant, PTL DEF Spec, CommitsWhatLanded

-----------------------------------------------------------------------------
(* What an interrupted publication or retirement leaves to its recovery.  *)

(* A result only beside its attempt.                                       *)
ResultsFollow == \A e \in Effects : attempts[e] = Absent => results[e] = Absent

(* No recovery of a retirement has begun before its turn.                  *)
Unrecovered(i) == \A n \in 0 .. MaxTries : attempts[Rec(i, n)] = Absent
RecoveriesInTurn ==
    /\ \A i \in 1 .. MaxRetirements : i > Len(binding) => Unrecovered(i)
    /\ pending # None =>
          \A n \in 0 .. MaxTries : n > pending.tries => attempts[Rec(pending.base, n)] = Absent

(* The retirement at work is new, or the one that is recorded.             *)
Resumes(p) == pc[p] \in Retiring /\ (pc[p] = "ret-record" => Recovering(p))
WorksOnPending(p) ==
    LET i == job[p].i IN
    /\ pc[p] \in Retiring /\ ~Resumes(p) =>
          pending = None /\ CanCommit(Ret(i)) /\ Unrecovered(i)
    /\ Resumes(p) => pending.base = i
    /\ pc[p] = "ret-record" /\ Recovering(p) =>
          job[p].own = Rec(i, pending.tries) /\ CanCommit(job[p].own)

RetirementsInTurn ==
    /\ ResultsFollow /\ RecoveriesInTurn
    /\ \A p \in Procs : lock = p => WorksOnPending(p)

(* What an interrupted publication finds.                                  *)
Seen(r) == [present |-> Present \ (receipts[r].plan \cup {r}), temps |-> 0, refs |-> refs]
PublicationKept(r) ==
    /\ r \in runs /\ Recoverable(r)
    /\ index = receipts[r].post \/ (index = receipts[r].before /\ Owned(index))
    /\ receipts[r].plan # {} => receipts[r].guard = Seen(r)

(* What an interrupted retirement finds.                                   *)
Recording == lock # None /\ pc[lock] = "ret-record"
RetirementKept ==
    /\ pending # None
    /\ PendingIntact /\ Verified(pending.base, TRUE)
    /\ pending.tries <= MaxTries => CanAdmit(Rec(pending.base, pending.tries)) \/ Recording

SeamInv ==
    /\ quiet \subseteq Receipts \cup {Retirement}
    /\ RetirementsInTurn
    /\ smooth =>
          /\ temps = Installing
          /\ \A r \in Receipts : r \in quiet /\ ~Committed(Pub(r)) => PublicationKept(r)
          /\ Retirement \in quiet => RetirementKept

-----------------------------------------------------------------------------
(* Which attempts a step touches.                                          *)

(* Prepared results stay possible in every step that tears nothing.        *)
PreparedStay == \A e \in Effects : CanPrepare(e, Done) => CanPrepare(e, Done)'

LEMMA WritesKeepPrepared ==
  ASSUME StoreTypeOK, UNCHANGED <<attempts, results>> \/ (\E x : Admit(x) \/ Commit(x, Done))
  PROVE  PreparedStay /\ CommittedStays /\ (ResultsFollow => ResultsFollow')
<1>1. CASE UNCHANGED <<attempts, results>>
  BY <1>1 DEF PreparedStay, CanPrepare, ResultsFollow, CommittedStays, Committed
<1>2. ASSUME NEW x, Admit(x)
      PROVE  PreparedStay /\ CommittedStays /\ (ResultsFollow => ResultsFollow')
  BY <1>2, StoreAssumption DEF StoreTypeOK, Admit, CanAdmit, PreparedStay, CanPrepare, ResultsFollow,
     CommittedStays, Committed
<1>3. ASSUME NEW x, Commit(x, Done)
      PROVE  PreparedStay /\ CommittedStays /\ (ResultsFollow => ResultsFollow')
  BY <1>3, StoreAssumption DEF StoreTypeOK, Commit, CanCommit, PreparedStay, CanPrepare, ResultsFollow,
     CommittedStays, Committed
<1> QED
  BY <1>1, <1>2, <1>3

LEMMA TearsFollow ==
  ASSUME StoreTypeOK, ResultsFollow, NEW x, TearAttempt(x) \/ TearResult(x)
  PROVE  ResultsFollow'
BY StoreAssumption DEF StoreTypeOK, TearAttempt, TearResult, CanAdmit, CanCommit, ResultsFollow

LEMMA ProceedWrites ==
  ASSUME NEW p \in Procs, Proceed(p)
  PROVE  UNCHANGED <<attempts, results>> \/ (\E x : Admit(x) \/ Commit(x, Done))
<1> USE DEF localVars, storeVars
<1>1. CASE Publish(p)
  BY <1>1 DEF Publish, EnterPublish, PublishAdmit, PublishRun, PublishLock, RecoverLock, Lock, PublishReceipt,
     PublishTemp, WriteTemp, PublishComplete, Recover, Install, RemoveOne, Removed, CommitPublication, Failing
<1>2. CASE Retire(p)
  BY <1>2 DEF Retire, EnterRetire, EnterRecovery, RetireLock, Lock, AdmitRetirement, AdmitRecovery,
     RefuseRetirement, Record, ReplaceIndex, VerifyReplaced, RetireOne, CommitRetirement, ReplaceCarrier,
     CommitRecovery, ClearPending, Aborting
<1> QED
  BY <1>1, <1>2 DEF Proceed

LEMMA ResultsFollowStep ==
  ASSUME StoreTypeOK, ResultsFollow, Next
  PROVE  ResultsFollow'
<1>1. CASE World
  BY <1>1, WritesKeepPrepared DEF World, localVars
<1>2. ASSUME NEW p \in Procs, Proceed(p)
      PROVE  ResultsFollow'
  BY <1>2, ProceedWrites, WritesKeepPrepared
<1>3. ASSUME NEW p \in Procs, Death(p)
      PROVE  ResultsFollow'
  <2>1. UNCHANGED <<attempts, results>> \/ \E x : TearAttempt(x) \/ TearResult(x)
    BY <1>3 DEF Death, Die, DieLinked, DieAdmitting, DieRetaining, DieCommitting, localVars
  <2> QED
    BY <2>1, WritesKeepPrepared, TearsFollow
<1> QED
  BY <1>1, <1>2, <1>3 DEF Next

(* The attempts of retirements and of their recoveries.                    *)
RetirementAttempts ==
    {Ret(i) : i \in 1 .. MaxRetirements} \cup {Rec(i, n) : i \in 1 .. MaxRetirements, n \in 0 .. MaxTries}
SameAttempts == \A e \in RetirementAttempts : attempts'[e] = attempts[e] /\ results'[e] = results[e]

LEMMA RetirementKeys ==
  /\ RetirementAttempts \subseteq Effects
  /\ \A i \in 1 .. MaxRetirements : Ret(i) \in RetirementAttempts
  /\ \A i \in 1 .. MaxRetirements, n \in 0 .. MaxTries : Rec(i, n) \in RetirementAttempts
  /\ \A r : Pub(r) \notin RetirementAttempts
  /\ \A i, j, n, m : Rec(i, n) = Rec(j, m) => i = j /\ n = m
BY Keys DEF RetirementAttempts, Pub, Ret, Rec

(* A process without the lock that does not get it.                        *)
LEMMA Outsiders ==
  ASSUME OwnerInv, NEW p \in Procs, Proceed(p) \/ Death(p), lock # p
  PROVE  /\ UNCHANGED <<proofVars, binding, results>> /\ runs \subseteq runs' /\ SameAttempts
         /\ OnlyMoves(p) /\ pc[p] # "install"
         /\ \/ lock' = lock
            \/ lock = None /\ lock' = p /\ pc'[p] \in {"pub-receipt", "recover", "ret-admit"}
<1> USE DEF At, localVars
<1>1. pc[p] \notin Custodial /\ pc[p] # "install"
  BY DEF OwnerInv, ProcTypes, Custodial
<1>2. ASSUME NEW x, NEW r, x = Pub(r), Admit(x) \/ TearAttempt(x)
      PROVE  SameAttempts /\ UNCHANGED results
  BY <1>2, RetirementKeys DEF OwnerInv, FileTypes, StoreTypeOK, Admit, TearAttempt, SameAttempts
<1>3. UNCHANGED <<attempts, results>> => SameAttempts
  BY DEF SameAttempts
<1>4. (\E s, j : Start(p, s, j)) => OnlyMoves(p) /\ UNCHANGED lock
  BY DEF Start, Goto, OnlyMoves, OwnerInv, ProcTypes
<1>5. Leave(p) => OnlyMoves(p) /\ UNCHANGED lock
  BY DEF Leave, Goto, OnlyMoves, OwnerInv, ProcTypes
<1>6. \A s : Continue(p, s) => OnlyMoves(p) /\ UNCHANGED lock
  BY DEF Continue, Goto, OnlyMoves, OwnerInv, ProcTypes
<1>7. ASSUME NEW from, NEW to \in {"pub-receipt", "recover", "ret-admit"}, Lock(p, from, to)
      PROVE  /\ UNCHANGED <<proofVars, localVars>> /\ OnlyMoves(p)
             /\ \/ lock' = lock
                \/ lock = None /\ lock' = p /\ pc'[p] \in {"pub-receipt", "recover", "ret-admit"}
  BY <1>7, <1>5 DEF Lock, Goto, OnlyMoves, OwnerInv, ProcTypes
<1>8. CASE Publish(p)
  <2>1. CASE \E r \in Receipts : EnterPublish(p, r)
    BY <2>1, <1>1, <1>3, <1>4 DEF EnterPublish
  <2>2. CASE PublishAdmit(p)
    BY <2>2, <1>1, <1>2, <1>3, <1>5, <1>6 DEF PublishAdmit, Failing
  <2>3. CASE PublishRun(p)
    BY <2>3, <1>1, <1>3, <1>5, <1>6 DEF PublishRun
  <2>4. CASE PublishLock(p) \/ RecoverLock(p)
    BY <2>4, <1>1, <1>3, <1>7 DEF PublishLock, RecoverLock
  <2>5. CASE PublishComplete(p)
    BY <2>5, <1>1, <1>3, <1>5 DEF PublishComplete
  <2> QED
    BY <1>8, <1>1, <2>1, <2>2, <2>3, <2>4, <2>5 DEF Publish, Custodial, PublishReceipt, PublishTemp, Recover, Install,
       RemoveOne, Removed, CommitPublication
<1>9. CASE Retire(p)
  <2>1. CASE EnterRetire(p) \/ EnterRecovery(p)
    BY <2>1, <1>1, <1>3, <1>4 DEF EnterRetire, EnterRecovery
  <2>2. CASE RetireLock(p)
    BY <2>2, <1>1, <1>3, <1>7 DEF RetireLock
  <2> QED
    BY <1>9, <1>1, <2>1, <2>2 DEF Retire, Custodial, Retiring, AdmitRetirement, AdmitRecovery, RefuseRetirement,
       Record, ReplaceIndex, VerifyReplaced, RetireOne, CommitRetirement, ReplaceCarrier, CommitRecovery, ClearPending
<1>10. CASE Death(p)
  <2>1. CASE Die(p)
    BY <2>1, <1>1, <1>3, <1>5 DEF Die
  <2>2. CASE DieAdmitting(p)
    BY <2>2, <1>1, <1>2, <1>5 DEF DieAdmitting, Custodial
  <2> QED
    BY <1>10, <1>1, <2>1, <2>2 DEF Death, Custodial, Retiring, DieLinked, DieRetaining, DieCommitting
<1> QED
  BY <1>8, <1>9, <1>10 DEF Proceed

-----------------------------------------------------------------------------
(* One retirement at a time, and its recoveries one after the other.       *)

LEMMA PendingBase ==
  ASSUME OwnerInv, pending # None
  PROVE  /\ pending.base \in 1 .. MaxRetirements /\ pending.base <= Len(binding)
         /\ pending.base \in DOMAIN binding /\ pending.tries \in Nat
<1>1. pending \in PendingRecords /\ pending.base \in DOMAIN binding
  BY DEF OwnerInv, FileTypes
<1>2. pending.base \in 1 .. MaxRetirements
  BY <1>1, JudgmentFields DEF OwnerInv
<1>3. pending.base \in 1 .. Len(binding)
  BY <1>1 DEF OwnerInv, FileTypes
<1> QED
  BY <1>1, <1>2, <1>3 DEF PendingRecords

LEMMA Lengths ==
  ASSUME OwnerInv
  PROVE  Len(binding) \in Nat /\ MaxRetirements \in Nat /\ MaxTries \in Nat
BY Bounds DEF OwnerInv, FileTypes

(* No attempt of a recovery is made but in its turn.                       *)
LEMMA RecoveriesStill ==
  ASSUME OwnerInv, RecoveriesInTurn, pending' \in {pending, None},
         Len(binding') \in Nat, Len(binding) <= Len(binding'),
         \A i \in 1 .. MaxRetirements, n \in 0 .. MaxTries :
            attempts'[Rec(i, n)] = attempts[Rec(i, n)] \/ (pending = [base |-> i, tries |-> n])
  PROVE  RecoveriesInTurn'
<1>1. ASSUME NEW i \in 1 .. MaxRetirements, i > Len(binding'), NEW n \in 0 .. MaxTries
      PROVE  attempts'[Rec(i, n)] = Absent
  <2>1. i > Len(binding)
    BY <1>1, Lengths
  <2>2. pending # [base |-> i, tries |-> n]
    <3> SUFFICES ASSUME pending = [base |-> i, tries |-> n]
                 PROVE  FALSE
      OBVIOUS
    <3>1. pending \in PendingRecords
      BY Lengths DEF PendingRecords
    <3>2. pending # None /\ pending.base = i
      BY <3>1, ProofMarksAssumption
    <3> QED
      BY <2>1, <3>2, PendingBase, Lengths
  <2> QED
    BY <2>1, <2>2 DEF RecoveriesInTurn, Unrecovered
<1>2. ASSUME pending' # None, NEW n \in 0 .. MaxTries, n > pending'.tries
      PROVE  attempts'[Rec(pending'.base, n)] = Absent
  <2>1. pending' = pending /\ pending # None
    BY <1>2
  <2>2. attempts[Rec(pending.base, n)] = Absent
    BY <1>2, <2>1 DEF RecoveriesInTurn
  <2>3. pending # [base |-> pending.base, tries |-> n]
    BY <1>2, <2>1, PendingBase, Lengths
  <2> QED
    BY <2>1, <2>2, <2>3, PendingBase
<1> QED
  BY <1>1, <1>2 DEF RecoveriesInTurn, Unrecovered

LEMMA SameRecoveries ==
  ASSUME SameAttempts
  PROVE  \A i \in 1 .. MaxRetirements, n \in 0 .. MaxTries : attempts'[Rec(i, n)] = attempts[Rec(i, n)]
BY RetirementKeys DEF SameAttempts

LEMMA WorkerStill ==
  ASSUME OwnerInv, NEW q \in Procs, lock = q, WorksOnPending(q), pc'[q] = pc[q], job'[q] = job[q],
         SameAttempts, UNCHANGED pending
  PROVE  WorksOnPending(q)'
<1>1. CASE pc[q] \notin Retiring
  BY <1>1 DEF WorksOnPending, Resumes, Retiring
<1>2. CASE pc[q] \in Retiring
  <2> DEFINE i == job[q].i
  <2>1. i \in DOMAIN binding /\ pc[q] \in Custodial
        /\ (job[q].own = Ret(i) \/ \E n \in 0 .. MaxTries : job[q].own = Rec(i, n))
    BY <1>2, HolderKnows DEF Custodial
  <2>2. i \in 1 .. MaxRetirements
    BY <2>1, JudgmentFields DEF OwnerInv
  <2>3. job[q].own \in RetirementAttempts /\ Ret(i) \in RetirementAttempts
    BY <2>1, <2>2, RetirementKeys
  <2>4. (CanCommit(Ret(i)) => CanCommit(Ret(i))') /\ (CanCommit(job[q].own) => CanCommit(job[q].own)')
    BY <2>3 DEF SameAttempts, CanCommit
  <2>5. Unrecovered(i) => Unrecovered(i)'
    BY <2>2, SameRecoveries DEF Unrecovered
  <2>6. (Recovering(q)' <=> Recovering(q)) /\ (Resumes(q)' <=> Resumes(q))
    BY DEF Recovering, Resumes
  <2> QED
    BY <2>4, <2>5, <2>6 DEF WorksOnPending
<1> QED
  BY <1>1, <1>2

(* Another process than the holder of the lock.                            *)
LEMMA OutsiderTurns ==
  ASSUME OwnerInv, RetirementsInTurn, ResultsFollow', NEW p \in Procs, Proceed(p) \/ Death(p), lock # p
  PROVE  RetirementsInTurn'
<1>1. /\ UNCHANGED <<proofVars, binding>> /\ SameAttempts /\ OnlyMoves(p)
      /\ \/ lock' = lock
         \/ lock = None /\ lock' = p /\ pc'[p] \in {"pub-receipt", "recover", "ret-admit"}
  BY Outsiders
<1>2. RecoveriesInTurn'
  BY <1>1, RecoveriesStill, SameRecoveries, Lengths DEF RetirementsInTurn, proofVars
<1>3. ASSUME NEW q \in Procs, lock' = q
      PROVE  WorksOnPending(q)'
  <2>1. CASE q = p
    BY <1>1, <1>3, <2>1 DEF WorksOnPending, Resumes, Retiring
  <2>2. CASE q # p
    BY <1>1, <1>3, <2>2, WorkerStill DEF OnlyMoves, RetirementsInTurn, proofVars
  <2> QED
    BY <2>1, <2>2
<1> QED
  BY <1>2, <1>3 DEF RetirementsInTurn

(* The holder.                                                             *)
LEMMA HolderTurns ==
  ASSUME NEW p \in Procs, lock' \in {p, None}, ResultsFollow', RecoveriesInTurn', lock' = p => WorksOnPending(p)'
  PROVE  RetirementsInTurn'
BY ProofMarksAssumption DEF RetirementsInTurn

LEMMA LeavingTurns ==
  ASSUME OwnerInv, NEW p \in Procs, lock = p, Leave(p), ResultsFollow', RecoveriesInTurn'
  PROVE  RetirementsInTurn'
<1>1. lock' = None /\ \A q \in Procs : q # None
  BY ProofMarksAssumption DEF Leave
<1> QED
  BY <1>1 DEF RetirementsInTurn

LEMMA UnchangedTurns ==
  ASSUME OwnerInv, RetirementsInTurn, UNCHANGED <<binding, pending>>, SameAttempts
  PROVE  RecoveriesInTurn'
BY RecoveriesStill, SameRecoveries, Lengths DEF RetirementsInTurn

LEMMA PublisherTurns ==
  ASSUME OwnerInv, RetirementsInTurn, ResultsFollow', NEW p \in Procs, Publish(p), lock = p
  PROVE  RetirementsInTurn'
<1> USE DEF At, localVars, proofVars
<1>1. pc[p] \in Custodial /\ p # None
  BY ProofMarksAssumption DEF OwnerInv, ProcTypes
<1>2. UNCHANGED <<attempts, results>> => SameAttempts
  BY DEF SameAttempts
<1>3. /\ UNCHANGED <<pending, binding>> /\ SameAttempts
      /\ Leave(p) \/ lock' = None \/ (lock' = lock /\ pc'[p] \in {"pub-temp", "install", "remove", "commit"})
  <2>1. \A s : Goto(p, s) => pc'[p] = s
    BY DEF Goto, OwnerInv, ProcTypes
  <2>2. CASE CommitPublication(p)
    <3>1. Commit(Pub(job[p].r), Done) => SameAttempts
      BY RetirementKeys DEF OwnerInv, FileTypes, StoreTypeOK, Commit, SameAttempts
    <3> QED
      BY <2>2, <1>2, <3>1 DEF CommitPublication, Failing
  <2>3. CASE PublishReceipt(p) \/ PublishTemp(p) \/ Recover(p) \/ Install(p) \/ RemoveOne(p) \/ Removed(p)
    BY <2>3, <1>2, <2>1 DEF PublishReceipt, PublishTemp, WriteTemp, Recover, Install, RemoveOne, Removed, Failing,
       Continue, Rest
  <2> QED
    BY <1>1, <2>2, <2>3 DEF Publish, Custodial, Retiring, EnterPublish, Start, PublishAdmit, PublishRun, PublishLock,
       RecoverLock, Lock, PublishComplete
<1>4. RecoveriesInTurn'
  BY <1>3, UnchangedTurns
<1>5. CASE Leave(p)
  BY <1>4, <1>5, LeavingTurns
<1>6. CASE lock' = None
  BY <1>1, <1>4, <1>6, HolderTurns
<1>7. CASE lock' = lock /\ pc'[p] \in {"pub-temp", "install", "remove", "commit"}
  <2>1. WorksOnPending(p)'
    BY <1>7 DEF WorksOnPending, Resumes, Retiring
  <2> QED
    BY <1>4, <1>7, <2>1, HolderTurns
<1> QED
  BY <1>3, <1>5, <1>6, <1>7

LEMMA AdmitRetirementTurns ==
  ASSUME OwnerInv, RetirementsInTurn, ResultsFollow', NEW p \in Procs, AdmitRetirement(p), lock = p
  PROVE  RetirementsInTurn'
<1>0. PICK i : i = Len(binding) + 1
  OBVIOUS
<1>1. /\ i \in 1 .. MaxRetirements /\ Len(binding) \in Nat
      /\ pending = None /\ CanAdmit(Ret(i)) /\ UNCHANGED <<proofVars, lock>>
      /\ attempts' = [attempts EXCEPT ![Ret(i)] = Admitted] /\ results' = results
      /\ Len(binding') = Len(binding) + 1
      /\ pc'[p] = "ret-record" /\ job'[p].i = i /\ job'[p].own = Ret(i)
  BY <1>0, Lengths DEF AdmitRetirement, StillRetiring, Selectable, Admit, Goto, OwnerInv, ProcTypes, FileTypes
<1>2. CanCommit(Ret(i))'
  BY <1>1, RetirementKeys DEF CanAdmit, CanCommit, OwnerInv, FileTypes, StoreTypeOK
<1>3. \A j \in 1 .. MaxRetirements, n \in 0 .. MaxTries : attempts'[Rec(j, n)] = attempts[Rec(j, n)]
  BY <1>1, Keys, RetirementKeys DEF OwnerInv, FileTypes, StoreTypeOK
<1>4. RecoveriesInTurn'
  BY <1>1, <1>3, RecoveriesStill DEF RetirementsInTurn, proofVars
<1>5. Unrecovered(i)'
  BY <1>0, <1>1, <1>3 DEF RetirementsInTurn, RecoveriesInTurn, Unrecovered
<1>6. ~Recovering(p)' /\ pending' = None
  BY <1>1 DEF Recovering, proofVars
<1>7. WorksOnPending(p)'
  BY <1>1, <1>2, <1>5, <1>6 DEF WorksOnPending, Resumes
<1> QED
  BY <1>1, <1>4, <1>7, HolderTurns

LEMMA AdmitRecoveryTurns ==
  ASSUME OwnerInv, RetirementsInTurn, ResultsFollow', NEW p \in Procs, AdmitRecovery(p), lock = p
  PROVE  RetirementsInTurn'
<1>0. PICK own : own = Rec(pending.base, pending.tries)
  OBVIOUS
<1>1. pc[p] = "ret-admit" /\ job[p] \in JudgmentJobs
      /\ ("selected" \in DOMAIN job[p].bound \/ job[p].bound.tries <= MaxTries)
  BY DEF AdmitRecovery, At, OwnerInv, ProcTypes, JobFits, Judging
<1>2. pending = job[p].bound /\ "base" \in DOMAIN job[p].bound /\ job[p].bound \in PendingRecords
      /\ pending.tries \in 0 .. MaxTries
  <2>1. pending = job[p].bound /\ "base" \in DOMAIN job[p].bound
    BY DEF AdmitRecovery, StillRecovering
  <2>2. job[p].bound \in PendingRecords
    BY <1>1, <2>1 DEF JudgmentJobs, Judgments
  <2>3. "selected" \notin DOMAIN job[p].bound /\ job[p].bound.tries \in Nat
    BY <2>2 DEF PendingRecords
  <2> QED
    BY <1>1, <2>1, <2>2, <2>3, Lengths
<1>3. pending # None /\ pending.base \in 1 .. MaxRetirements
  BY <1>2, PendingBase, ProofMarksAssumption
<1>4. /\ CanAdmit(own) /\ UNCHANGED <<proofVars, lock, binding>>
      /\ attempts' = [attempts EXCEPT ![own] = Admitted] /\ results' = results
      /\ pc'[p] = "ret-record" /\ job'[p].i = pending.base /\ job'[p].own = own
  BY <1>0, <1>2 DEF AdmitRecovery, Admit, Goto, OwnerInv, ProcTypes
<1>5. own \in Effects /\ own # Ret(pending.base)
  BY <1>0, <1>2, <1>3, Keys
<1>6. CanCommit(own)'
  BY <1>4, <1>5 DEF CanAdmit, CanCommit, OwnerInv, FileTypes, StoreTypeOK
<1>7. \A j \in 1 .. MaxRetirements, n \in 0 .. MaxTries :
         attempts'[Rec(j, n)] = attempts[Rec(j, n)] \/ pending = [base |-> j, tries |-> n]
  <2> SUFFICES ASSUME NEW j \in 1 .. MaxRetirements, NEW n \in 0 .. MaxTries, Rec(j, n) = own
               PROVE  pending = [base |-> j, tries |-> n]
    BY <1>4, <1>5, RetirementKeys DEF OwnerInv, FileTypes, StoreTypeOK
  <2>1. j = pending.base /\ n = pending.tries /\ pending \in PendingRecords
    BY <1>0, <1>2, RetirementKeys
  <2> QED
    BY <2>1 DEF PendingRecords
<1>8. RecoveriesInTurn'
  BY <1>4, <1>7, RecoveriesStill, Lengths DEF RetirementsInTurn, proofVars
<1>9. Recovering(p)' /\ pending' = pending
  BY <1>4, <1>5 DEF Recovering, proofVars
<1>10. WorksOnPending(p)'
  BY <1>0, <1>4, <1>6, <1>9 DEF WorksOnPending, Resumes, Retiring
<1> QED
  BY <1>4, <1>8, <1>10, HolderTurns

LEMMA RecordTurns ==
  ASSUME OwnerInv, RetirementsInTurn, ResultsFollow', NEW p \in Procs, Record(p), lock = p
  PROVE  RetirementsInTurn'
<1> DEFINE i == job[p].i
<1>1. /\ pc[p] = "ret-record" /\ i \in DOMAIN binding /\ i \in 1 .. MaxRetirements /\ WorksOnPending(p)
      /\ Recovering(p) => pending # None
  BY HolderKnows, JudgmentFields DEF Record, At, Custodial, Retiring, RetirementsInTurn, RetiresOn, OwnerInv
<1>2. UNCHANGED <<attempts, results, binding>>
  BY DEF Record, Aborting, localVars
<1>3. SameAttempts
  BY <1>2 DEF SameAttempts
<1>4. CASE Aborting(p)
  <2>1. RecoveriesInTurn'
    BY <1>2, <1>3, <1>4, UnchangedTurns DEF Aborting, proofVars
  <2> QED
    BY <1>4, <2>1, LeavingTurns DEF Aborting
<1>5. CASE ~Aborting(p)
  <2>1. /\ pending' = [base |-> i, tries |-> IF Recovering(p) THEN pending.tries + 1 ELSE 0]
        /\ pc'[p] = "ret-index" /\ job' = job /\ lock' = lock
    BY <1>5 DEF Record, Continue, Goto, OwnerInv, ProcTypes
  <2>2. pending'.base = i /\ pending'.tries = (IF Recovering(p) THEN pending.tries + 1 ELSE 0)
    BY <2>1
  <2>3. ASSUME NEW n \in 0 .. MaxTries, n > pending'.tries
        PROVE  attempts'[Rec(i, n)] = Absent
    <3>1. CASE Recovering(p)
      <4>1. pending.base = i /\ pending # None /\ pending.tries \in Nat
        BY <1>1, <3>1, PendingBase DEF WorksOnPending, Resumes, Retiring
      <4>2. n > pending.tries
        BY <2>2, <2>3, <3>1, <4>1, Lengths
      <4> QED
        BY <1>2, <4>1, <4>2 DEF RetirementsInTurn, RecoveriesInTurn
    <3>2. CASE ~Recovering(p)
      BY <1>1, <1>2, <3>2 DEF WorksOnPending, Resumes, Retiring, Unrecovered
    <3> QED
      BY <3>1, <3>2
  <2>4. RecoveriesInTurn'
    BY <1>2, <2>2, <2>3 DEF RetirementsInTurn, RecoveriesInTurn, Unrecovered
  <2>5. WorksOnPending(p)'
    BY <2>1, <2>2 DEF WorksOnPending, Resumes, Retiring
  <2> QED
    BY <2>1, <2>4, <2>5, HolderTurns
<1> QED
  BY <1>4, <1>5

LEMMA RetirerTurns ==
  ASSUME OwnerInv, RetirementsInTurn, ResultsFollow', NEW p \in Procs, lock = p,
         \/ ReplaceIndex(p) \/ VerifyReplaced(p) \/ RetireOne(p) \/ CommitRetirement(p)
         \/ ReplaceCarrier(p) \/ CommitRecovery(p) \/ ClearPending(p) \/ RefuseRetirement(p)
  PROVE  RetirementsInTurn'
<1> USE DEF At, localVars, proofVars
<1>1. pc[p] \in Custodial /\ WorksOnPending(p)
  BY DEF OwnerInv, ProcTypes, RetirementsInTurn
<1>2. \A s : Goto(p, s) => pc'[p] = s
  BY DEF Goto, OwnerInv, ProcTypes
<1>3. attempts' = attempts /\ UNCHANGED binding /\ pending' \in {pending, None}
  BY DEF ReplaceIndex, VerifyReplaced, RetireOne, CommitRetirement, ReplaceCarrier, CommitRecovery, ClearPending,
     RefuseRetirement, Aborting, Commit, storeVars
<1>4. RecoveriesInTurn'
  BY <1>3, RecoveriesStill, Lengths DEF RetirementsInTurn
<1>5. CASE Leave(p)
  BY <1>4, <1>5, LeavingTurns
<1>6. CASE ~Leave(p)
  <2>1. /\ UNCHANGED <<lock, pending>> /\ job'[p].i = job[p].i
        /\ pc[p] \in Retiring \ {"ret-record"} /\ pc'[p] \in Retiring \ {"ret-record"}
    <3>1. CASE RetireOne(p)
      <4>1. pc[p] = "ret-remove" /\ job[p] \in RetirementJobs
        BY <3>1, HolderKnows DEF RetireOne, Custodial, Retiring
      <4>2. \E todo : job' = [job EXCEPT ![p] = [job[p] EXCEPT !.todo = todo]]
        BY <1>6, <3>1 DEF RetireOne, Rest, Aborting
      <4>3. job'[p].i = job[p].i
        BY <4>1, <4>2 DEF RetirementJobs, OwnerInv, ProcTypes
      <4> QED
        BY <1>2, <1>6, <3>1, <4>1, <4>3 DEF RetireOne, Rest, Aborting, Retiring
    <3>2. CASE ~RetireOne(p)
      BY <1>2, <1>6, <3>2 DEF ReplaceIndex, VerifyReplaced, CommitRetirement, ReplaceCarrier, CommitRecovery,
         ClearPending, RefuseRetirement, Aborting, Continue, Retiring
    <3> QED
      BY <3>1, <3>2
  <2>2. WorksOnPending(p)'
    BY <1>1, <2>1 DEF WorksOnPending, Resumes
  <2> QED
    BY <1>4, <2>1, <2>2, HolderTurns
<1> QED
  BY <1>5, <1>6

LEMMA DyingTurns ==
  ASSUME OwnerInv, RetirementsInTurn, ResultsFollow', NEW p \in Procs, lock = p, Death(p)
  PROVE  RetirementsInTurn'
<1>1. Leave(p) /\ UNCHANGED pending
  BY DEF Death, Die, DieLinked, DieAdmitting, DieRetaining, DieCommitting, proofVars
<1>2. CASE attempts' = attempts /\ UNCHANGED binding
  BY <1>1, <1>2, RecoveriesStill, LeavingTurns, Lengths DEF RetirementsInTurn
<1>3. CASE DieAdmitting(p)
  <2>1. CASE At(p, "ret-admit") /\ Len(binding) < MaxRetirements /\ TearAttempt(Ret(Len(binding) + 1))
             /\ binding' = Append(binding, job[p].bound)
    <3>1. attempts' = [attempts EXCEPT ![Ret(Len(binding) + 1)] = Torn]
      BY <2>1 DEF TearAttempt
    <3>2. \A j \in 1 .. MaxRetirements, n \in 0 .. MaxTries : attempts'[Rec(j, n)] = attempts[Rec(j, n)]
      BY <3>1, Keys, RetirementKeys DEF OwnerInv, FileTypes, StoreTypeOK
    <3>3. Len(binding') = Len(binding) + 1 /\ Len(binding) \in Nat
      BY <2>1, Lengths DEF OwnerInv, FileTypes
    <3> QED
      BY <1>1, <3>2, <3>3, RecoveriesStill, LeavingTurns DEF RetirementsInTurn
  <2>2. CASE At(p, "ret-admit") /\ StillRecovering(job[p].bound) /\ TearAttempt(Rec(pending.base, pending.tries))
             /\ UNCHANGED binding
    <3>1. attempts' = [attempts EXCEPT ![Rec(pending.base, pending.tries)] = Torn]
      BY <2>2 DEF TearAttempt
    <3>2. pending # None /\ pending \in PendingRecords
      <4>1. pending = job[p].bound /\ "base" \in DOMAIN job[p].bound /\ job[p] \in JudgmentJobs
        BY <2>2 DEF StillRecovering, At, OwnerInv, ProcTypes, JobFits, Judging
      <4>2. job[p].bound \in PendingRecords
        BY <4>1 DEF JudgmentJobs, Judgments
      <4> QED
        BY <4>1, <4>2, ProofMarksAssumption
    <3>3. ASSUME NEW j \in 1 .. MaxRetirements, NEW n \in 0 .. MaxTries
          PROVE  attempts'[Rec(j, n)] = attempts[Rec(j, n)] \/ pending = [base |-> j, tries |-> n]
      <4>1. CASE Rec(j, n) # Rec(pending.base, pending.tries)
        BY <3>1, <4>1, RetirementKeys DEF OwnerInv, FileTypes, StoreTypeOK
      <4>2. CASE Rec(j, n) = Rec(pending.base, pending.tries)
        BY <3>2, <4>2, RetirementKeys DEF PendingRecords
      <4> QED
        BY <4>1, <4>2
    <3> QED
      BY <1>1, <2>2, <3>3, RecoveriesStill, LeavingTurns, Lengths DEF RetirementsInTurn
  <2>3. ~At(p, "pub-admit")
    BY DEF At, OwnerInv, ProcTypes, Custodial, Retiring
  <2> QED
    BY <1>3, <2>1, <2>2, <2>3 DEF DieAdmitting
<1> QED
  BY <1>2, <1>3 DEF Death, Die, DieLinked, DieRetaining, DieCommitting, TearResult, localVars

LEMMA TurnsStep ==
  ASSUME OwnerInv, RetirementsInTurn, Next
  PROVE  RetirementsInTurn'
<1>1. ResultsFollow'
  BY ResultsFollowStep DEF RetirementsInTurn, OwnerInv, FileTypes
<1>2. CASE World
  <2>1. UNCHANGED <<attempts, results, binding, pending, pc, job, lock>>
    BY <1>2 DEF World, Checkout, Reference, localVars, procVars
  <2>2. SameAttempts
    BY <2>1 DEF SameAttempts
  <2>3. RecoveriesInTurn'
    BY <2>1, <2>2, UnchangedTurns
  <2>4. \A q \in Procs : lock' = q => WorksOnPending(q)'
    BY <2>1, <2>2, WorkerStill DEF RetirementsInTurn
  <2> QED
    BY <1>1, <2>3, <2>4 DEF RetirementsInTurn
<1>3. ASSUME NEW p \in Procs, Proceed(p) \/ Death(p)
      PROVE  RetirementsInTurn'
  <2>1. CASE lock # p
    BY <1>1, <1>3, <2>1, OutsiderTurns
  <2>2. CASE lock = p
    <3>1. CASE Publish(p)
      BY <1>1, <2>2, <3>1, PublisherTurns
    <3>2. CASE Retire(p)
      <4>1. pc[p] \in Custodial
        BY <2>2 DEF OwnerInv, ProcTypes
      <4>2. ~EnterRetire(p) /\ ~EnterRecovery(p) /\ ~RetireLock(p)
        BY <4>1 DEF EnterRetire, EnterRecovery, RetireLock, Start, Lock, At, Custodial, Retiring
      <4> QED
        BY <1>1, <2>2, <3>2, <4>2, AdmitRetirementTurns, AdmitRecoveryTurns, RecordTurns, RetirerTurns DEF Retire
    <3>3. CASE Death(p)
      BY <1>1, <2>2, <3>3, DyingTurns
    <3> QED
      BY <1>3, <3>1, <3>2, <3>3 DEF Proceed
  <2> QED
    BY <2>1, <2>2
<1> QED
  BY <1>2, <1>3 DEF Next

-----------------------------------------------------------------------------
(* Deaths between two files.                                               *)

DieBetween(p) == Die(p) /\ ~HalfMade(p) /\ crashes' = crashes + 1 /\ crashes < MaxCrashes

LEMMA SmoothSteps ==
  ASSUME Next, smooth'
  PROVE  /\ smooth
         /\ \/ World
            \/ \E p \in Procs : (Proceed(p) \/ (Death(p) /\ DieBetween(p))) /\ Observed(Actor(p))
<1>1. CASE World
  BY <1>1 DEF World
<1>2. ASSUME NEW p \in Procs, Proceed(p)
      PROVE  smooth /\ Observed(Actor(p))
  BY <1>2 DEF Proceed
<1>3. ASSUME NEW p \in Procs, Death(p), Observed(Actor(p))
      PROVE  smooth /\ DieBetween(p)
  BY <1>3 DEF Death, DieBetween
<1> QED
  BY <1>1, <1>2, <1>3 DEF Next

LEMMA InstallingSame ==
  ASSUME ProcTypes, ProcTypes', NEW p \in Procs, OnlyMoves(p), pc[p] # "install", pc'[p] # "install"
  PROVE  Installing' = Installing
<1>1. CASE lock # None /\ pc[lock] = "install"
  <2>1. lock \in Procs /\ lock # p
    BY <1>1 DEF ProcTypes
  <2>2. pc'[lock] = "install"
    BY <1>1, <2>1 DEF OnlyMoves
  <2>3. lock' = lock
    BY <2>1, <2>2 DEF ProcTypes, Custodial
  <2> QED
    BY <1>1, <2>2, <2>3 DEF Installing
<1>2. CASE lock' # None /\ pc'[lock'] = "install"
  <2>1. lock' \in Procs /\ lock' # p
    BY <1>2 DEF ProcTypes
  <2>2. pc[lock'] = "install"
    BY <1>2, <2>1 DEF OnlyMoves
  <2>3. lock' = lock
    BY <2>1, <2>2 DEF ProcTypes, Custodial
  <2> QED
    BY <1>2, <2>2, <2>3 DEF Installing
<1> QED
  BY <1>1, <1>2 DEF Installing

(* Where a process may be that does not install.                           *)
LEMMA Movers ==
  ASSUME OwnerInv, NEW p \in Procs, Proceed(p) \/ Death(p)
  PROVE  /\ OnlyMoves(p) /\ UNCHANGED refs
         /\ ~WriteTemp(p) /\ ~Install(p) => pc'[p] # "install"
<1> USE DEF At, proofVars
<1>1. \A s : Goto(p, s) => pc'[p] = s
  BY DEF Goto, OwnerInv, ProcTypes
<1>2. UNCHANGED refs /\ (~WriteTemp(p) /\ ~Install(p) => \E s \in PCs \ {"install"} : Goto(p, s))
  <2>1. CASE Publish(p)
    BY <2>1 DEF Publish, EnterPublish, Start, PublishAdmit, PublishRun, PublishLock, RecoverLock, Lock, PublishReceipt,
       PublishTemp, PublishComplete, Recover, Install, RemoveOne, Removed, CommitPublication, Failing, Leave, Continue,
       Rest, WriteTemp, PCs
  <2>2. CASE Retire(p)
    BY <2>2 DEF Retire, EnterRetire, EnterRecovery, Start, RetireLock, Lock, AdmitRetirement, AdmitRecovery,
       RefuseRetirement, Record, ReplaceIndex, VerifyReplaced, RetireOne, CommitRetirement, ReplaceCarrier,
       CommitRecovery, ClearPending, Aborting, Leave, Continue, Rest, PCs
  <2>3. CASE Death(p)
    BY <2>3 DEF Death, Die, DieLinked, DieAdmitting, DieRetaining, DieCommitting, Leave, PCs
  <2> QED
    BY <2>1, <2>2, <2>3 DEF Proceed
<1>3. OnlyMoves(p)
  <2>1. /\ \E s : pc' = [pc EXCEPT ![p] = s]
        /\ job' = job \/ \E j : job' = [job EXCEPT ![p] = j]
    <3>1. CASE Publish(p)
      BY <3>1 DEF Publish, EnterPublish, Start, PublishAdmit, PublishRun, PublishLock, RecoverLock, Lock, PublishReceipt,
         PublishTemp, PublishComplete, Recover, Install, RemoveOne, Removed, CommitPublication, Failing, Leave, Continue,
         Rest, WriteTemp, Goto
    <3>2. CASE Retire(p)
      BY <3>2 DEF Retire, EnterRetire, EnterRecovery, Start, RetireLock, Lock, AdmitRetirement, AdmitRecovery,
         RefuseRetirement, Record, ReplaceIndex, VerifyReplaced, RetireOne, CommitRetirement, ReplaceCarrier,
         CommitRecovery, ClearPending, Aborting, Leave, Continue, Rest, Goto
    <3>3. CASE Death(p)
      BY <3>3 DEF Death, Die, DieLinked, DieAdmitting, DieRetaining, DieCommitting, Leave, Goto
    <3> QED
      BY <3>1, <3>2, <3>3 DEF Proceed
  <2> QED
    BY <2>1 DEF OnlyMoves, OwnerInv, ProcTypes
<1> QED
  BY <1>1, <1>2, <1>3

LEMMA Writers ==
  ASSUME OwnerInv, NEW p \in Procs, Publish(p) \/ Retire(p), temps' # temps \/ WriteTemp(p) \/ Install(p)
  PROVE  /\ Publish(p) /\ lock = p
         /\ \/ WriteTemp(p) /\ pc[p] \in {"pub-temp", "recover"} /\ temps' = temps + 1
            \/ Install(p) /\ temps' = temps - 1 /\ pc[p] = "install" /\ pc'[p] = "remove"
<1> USE DEF At, proofVars
<1>1. \A s : Goto(p, s) => pc'[p] = s
  BY DEF Goto, OwnerInv, ProcTypes
<1>2. CASE Install(p)
  <2>1. pc[p] = "install" /\ pc[p] \in Custodial
    BY <1>2 DEF Install, Custodial
  <2>2. lock = p /\ index = receipts[job[p].r].before
    BY <2>1, HolderKnows DEF PublishesOn
  <2>3. temps' = temps - 1 /\ pc'[p] = "remove"
    BY <1>1, <1>2, <2>2 DEF Install, Continue
  <2> QED
    BY <1>2, <2>1, <2>2, <2>3 DEF Publish
<1>3. CASE PublishTemp(p) \/ Recover(p)
  <2>1. pc[p] \in {"pub-temp", "recover"} /\ pc[p] \in Custodial
    BY <1>3 DEF PublishTemp, Recover, Custodial
  <2>2. WriteTemp(p) /\ temps' = temps + 1
    BY <1>3, <2>1 DEF PublishTemp, Recover, WriteTemp, Failing, Install
  <2> QED
    BY <1>3, <2>1, <2>2, HolderKnows DEF Publish
<1>4. ASSUME ~Install(p), ~PublishTemp(p), ~Recover(p)
      PROVE  FALSE
  <2>1. temps' = temps
    BY <1>4 DEF Publish, EnterPublish, PublishAdmit, PublishRun, PublishLock, RecoverLock, Lock, PublishReceipt,
       PublishComplete, RemoveOne, Removed, CommitPublication, Failing, Retire, EnterRetire, EnterRecovery, RetireLock,
       AdmitRetirement, AdmitRecovery, RefuseRetirement, Record, ReplaceIndex, VerifyReplaced, RetireOne,
       CommitRetirement, ReplaceCarrier, CommitRecovery, ClearPending, Aborting
  <2>2. ~WriteTemp(p)
    BY <2>1 DEF WriteTemp, OwnerInv, Counted
  <2> QED
    BY <1>4, <2>1, <2>2
<1> QED
  BY <1>2, <1>3, <1>4

LEMMA TempsStep ==
  ASSUME OwnerInv, OwnerInv', Next, smooth', temps = Installing
  PROVE  temps' = Installing'
<1>1. CASE World
  BY <1>1 DEF World, Checkout, Reference, procVars, Installing
<1>2. ASSUME NEW p \in Procs, Proceed(p)
      PROVE  temps' = Installing'
  <2>1. OnlyMoves(p) /\ (~WriteTemp(p) /\ ~Install(p) => pc'[p] # "install")
    BY <1>2, Movers
  <2>2. CASE temps' # temps \/ WriteTemp(p) \/ Install(p)
    <3>1. lock = p /\ p # None
      BY <1>2, <2>2, Writers, ProofMarksAssumption DEF Proceed
    <3>2. CASE WriteTemp(p) /\ pc[p] \in {"pub-temp", "recover"} /\ temps' = temps + 1
      <4>1. lock' = p /\ pc'[p] = "install"
        BY <3>1, <3>2 DEF WriteTemp, Rest, Goto, OwnerInv, ProcTypes
      <4> QED
        BY <3>1, <3>2, <4>1 DEF Installing
    <3>3. CASE Install(p) /\ temps' = temps - 1 /\ pc[p] = "install" /\ pc'[p] = "remove"
      <4>1. Installing = 1
        BY <3>1, <3>3 DEF Installing
      <4>2. lock' = p
        BY <3>3 DEF OwnerInv, ProcTypes, Custodial
      <4> QED
        BY <3>1, <3>3, <4>1, <4>2 DEF Installing
    <3> QED
      BY <1>2, <2>2, <3>2, <3>3, Writers DEF Proceed
  <2>3. CASE temps' = temps /\ ~WriteTemp(p) /\ ~Install(p)
    <3>1. pc'[p] # "install"
      BY <2>1, <2>3
    <3>2. pc[p] # "install"
      <4> SUFFICES ASSUME pc[p] = "install"
                   PROVE  FALSE
        OBVIOUS
      <4>1. ~Install(p)
        BY <2>3
      <4> QED
        BY <1>2, <4>1 DEF Proceed, At, Publish, EnterPublish, Start, PublishAdmit, PublishRun, PublishLock, RecoverLock, Lock,
           PublishReceipt, PublishTemp, PublishComplete, Recover, RemoveOne, Removed, CommitPublication, Retire,
           EnterRetire, EnterRecovery, RetireLock, AdmitRetirement, AdmitRecovery, RefuseRetirement, Record,
           ReplaceIndex, VerifyReplaced, RetireOne, CommitRetirement, ReplaceCarrier, CommitRecovery, ClearPending
    <3> QED
      BY <2>1, <2>3, <3>1, <3>2, InstallingSame DEF OwnerInv
  <2> QED
    BY <2>2, <2>3
<1>3. ASSUME NEW p \in Procs, Death(p), DieBetween(p)
      PROVE  temps' = Installing'
  <2>1. pc[p] # "install" /\ temps' = temps /\ Leave(p)
    BY <1>3 DEF DieBetween, Die, HalfMade, At, proofVars
  <2>2. OnlyMoves(p) /\ pc'[p] # "install"
    BY <2>1, LeaveTypes DEF OwnerInv, OnlyMoves
  <2> QED
    BY <2>1, <2>2, InstallingSame DEF OwnerInv
<1> QED
  BY <1>1, <1>2, <1>3, SmoothSteps

-----------------------------------------------------------------------------
(* What an undisturbed publication finds is kept.                          *)

LEMMA OwnedStays ==
  ASSUME OwnerInv, UNCHANGED carrier, CommittedStays, JudgmentsStay, NEW x, x = None \/ x \in Indices, Owned(x),
         \A r \in Receipts : Whole(r) => receipts'[r] = receipts[r]
  PROVE  Owned(x)'
<1>1. CASE x = None
  BY <1>1 DEF Owned
<1>2. CASE x # None /\ OwnedByCarrier(x)
  <2>1. carrier \in DOMAIN binding /\ Committed(Ret(carrier)) /\ NextIndex(binding[carrier]) = x
    BY <1>2 DEF OwnedByCarrier, OwnerInv, FileTypes
  <2>2. Committed(Ret(carrier))' /\ binding'[carrier] = binding[carrier]
    BY <2>1, JudgmentFields DEF CommittedStays, JudgmentsStay, OwnerInv
  <2>3. OwnedByCarrier(x)'
    BY <1>2, <2>1, <2>2 DEF OwnedByCarrier, NextIndex, EmptyIndex
  <2> QED
    BY <2>3 DEF Owned
<1>3. CASE x # None /\ OwnedByReceipt(x)
  <2>1. x.current \in Receipts /\ Whole(x.current)
    BY <1>3, IndexFields DEF OwnedByReceipt
  <2>2. Committed(Pub(x.current)) => Committed(Pub(x.current))'
    BY <2>1, Keys DEF CommittedStays
  <2>3. OwnedByReceipt(x)'
    BY <1>3, <2>1, <2>2 DEF OwnedByReceipt, Whole
  <2> QED
    BY <2>3 DEF Owned
<1> QED
  BY <1>1, <1>2, <1>3 DEF Owned

LEMMA PublicationStays ==
  ASSUME OwnerInv, NEW r \in Receipts, PublicationKept(r), UNCHANGED <<receipts, index, carrier, pending, refs>>,
         runs \subseteq runs', PreparedStay, CommittedStays, JudgmentsStay
  PROVE  PublicationKept(r)'
<1>1. Recoverable(r)'
  BY Keys DEF PublicationKept, Recoverable, Whole, Admissible, PreparedStay
<1>2. Owned(index) => Owned(index)'
  <2>1. index = None \/ index \in Indices
    BY DEF OwnerInv, FileTypes
  <2>2. PICK x : x = index
    OBVIOUS
  <2>3. Owned(x) => Owned(x)'
    BY <2>1, <2>2, OwnedStays
  <2> QED
    BY <2>2, <2>3
<1> QED
  BY <1>1, <1>2 DEF PublicationKept, Seen, Present

(* Everything but the publication at work and the files it changes.        *)
LEMMA LocalKept ==
  ASSUME OwnerInv, UNCHANGED localVars
  PROVE  /\ PreparedStay /\ CommittedStays /\ JudgmentsStay /\ runs' = runs
         /\ UNCHANGED <<attempts, results, binding>>
<1>1. UNCHANGED <<attempts, results, binding, runs>>
  BY DEF localVars
<1>2. PreparedStay /\ CommittedStays
  BY <1>1, WritesKeepPrepared DEF OwnerInv, FileTypes
<1>3. JudgmentsStay
  BY <1>1, Lengths DEF JudgmentsStay
<1> QED
  BY <1>1, <1>2, <1>3

LEMMA ProceedKeeps ==
  ASSUME OwnerInv, NEW p \in Procs, Proceed(p)
  PROVE  PreparedStay /\ CommittedStays /\ JudgmentsStay /\ runs \subseteq runs'
<1>1. PreparedStay /\ CommittedStays
  BY ProceedWrites, WritesKeepPrepared DEF OwnerInv, FileTypes
<1> USE DEF localVars
<1>2. UNCHANGED binding \/ \E b : binding' = Append(binding, b)
  <2>1. CASE Publish(p)
    BY <2>1 DEF Publish, EnterPublish, PublishAdmit, PublishRun, PublishLock, RecoverLock, Lock, PublishReceipt,
       PublishTemp, WriteTemp, PublishComplete, Recover, Install, RemoveOne, Removed, CommitPublication, Failing
  <2>2. CASE Retire(p)
    BY <2>2 DEF Retire, EnterRetire, EnterRecovery, RetireLock, Lock, AdmitRetirement, AdmitRecovery,
       RefuseRetirement, Record, ReplaceIndex, VerifyReplaced, RetireOne, CommitRetirement, ReplaceCarrier,
       CommitRecovery, ClearPending, Aborting
  <2> QED
    BY <2>1, <2>2 DEF Proceed
<1>3. JudgmentsStay
  BY <1>2, Lengths DEF JudgmentsStay, OwnerInv, FileTypes
<1>4. runs \subseteq runs'
  <2>1. CASE Publish(p)
    BY <2>1 DEF Publish, EnterPublish, PublishAdmit, PublishRun, PublishLock, RecoverLock, Lock, PublishReceipt,
       PublishTemp, WriteTemp, PublishComplete, Recover, Install, RemoveOne, Removed, CommitPublication, Failing
  <2>2. CASE Retire(p)
    BY <2>2 DEF Retire, EnterRetire, EnterRecovery, RetireLock, Lock, AdmitRetirement, AdmitRecovery,
       RefuseRetirement, Record, ReplaceIndex, VerifyReplaced, RetireOne, CommitRetirement, ReplaceCarrier,
       CommitRecovery, ClearPending, Aborting
  <2> QED
    BY <2>1, <2>2 DEF Proceed
<1> QED
  BY <1>1, <1>3, <1>4

(* The step that retains the receipt makes the publication recoverable.    *)
LEMMA BornKept ==
  ASSUME OwnerInv, RunsRecorded, temps = Installing, NEW p \in Procs, PublishReceipt(p),
         NEW r \in Receipts, r = job[p].r, receipts'[r] # receipts[r]
  PROVE  PublicationKept(r)'
<1>1. pc[p] = "pub-receipt" /\ lock = p /\ r \in runs
  <2>1. pc[p] = "pub-receipt" /\ pc[p] \in Custodial
    BY DEF PublishReceipt, At, Custodial
  <2> QED
    BY <2>1, HolderKnows DEF RunsRecorded, AfterRun, Publishing
<1>2. /\ CanRetainReceipt(r) /\ receipts' = [receipts EXCEPT ![r] = Publication(r)]
      /\ UNCHANGED <<index, carrier, pending, temps, refs, localVars>>
  BY DEF PublishReceipt, Failing, proofVars
<1>3. \A s \in Receipts : receipts'[s] = IF s = r THEN Publication(r) ELSE receipts[s]
  BY <1>2 DEF OwnerInv, FileTypes
<1>4. Publication(r) \in Publications /\ Publication(r).before = index
  BY PublicationPlanned
<1>5. Recoverable(r)'
  <2>1. Whole(r)'
    BY <1>3, <1>4, ProofMarksAssumption DEF Whole
  <2>2. CanPrepare(Pub(r), Done)'
    BY <1>2 DEF CanRetainReceipt, CanPrepare, localVars
  <2> QED
    BY <1>2, <2>1, <2>2 DEF Recoverable, CanRetainReceipt, Admissible
<1>6. index' = receipts'[r].before /\ Owned(index)'
  <2>1. Owned(index) /\ (index = None \/ index \in Indices) /\ receipts[r] = None
    BY <1>2 DEF CanRetainReceipt, Ready, OwnerInv, FileTypes
  <2>2. \A s \in Receipts : Whole(s) => receipts'[s] = receipts[s]
    BY <1>3, <2>1 DEF Whole
  <2>3. PICK x : x = index
    OBVIOUS
  <2>4. Owned(x)'
    BY <1>2, <2>1, <2>2, <2>3, LocalKept, OwnedStays
  <2> QED
    BY <1>2, <1>3, <1>4, <2>3, <2>4
<1>7. receipts'[r].guard = Seen(r)'
  <2> DEFINE plan == AutomaticPlan(r)
  <2>1. temps = 0
    BY <1>1 DEF Installing
  <2>2. Publication(r).guard = Guard(r, plan) /\ Publication(r).plan = plan
    BY DEF Publication
  <2>3. Guard(r, plan) = [present |-> Present \ (plan \cup {r}), temps |-> 0, refs |-> refs]
    BY <2>1 DEF Guard, Observation
  <2> HIDE DEF plan
  <2>4. Present' \ (plan \cup {r}) = Present \ (plan \cup {r})
    BY <1>3 DEF Present
  <2>5. Seen(r)' = [present |-> Present' \ (plan \cup {r}), temps |-> 0, refs |-> refs]
    BY <1>2, <1>3, <2>2 DEF Seen
  <2> QED
    BY <1>3, <2>2, <2>3, <2>4, <2>5
<1>8. r \in runs'
  BY <1>1, <1>2, LocalKept
<1> QED
  BY <1>5, <1>6, <1>7, <1>8 DEF PublicationKept

(* The steps of the publication itself that change what the owner keeps.   *)
LEMMA OwnStepsKeep ==
  ASSUME OwnerInv, NEW p \in Procs, Publish(p), NEW r \in Receipts, r = job[p].r, PublicationKept(r),
         ~UNCHANGED proofVars
  PROVE  PublicationKept(r)'
<1> USE DEF At
<1>1. CASE PublishReceipt(p)
  BY <1>1 DEF PublishReceipt, CanRetainReceipt, PublicationKept, Recoverable, Whole, Failing
<1>2. CASE PublishTemp(p) \/ Recover(p)
  <2>1. WriteTemp(p)
    BY <1>2 DEF PublishTemp, Recover, Failing
  <2>2. UNCHANGED <<receipts, index, carrier, pending, refs, localVars>>
    BY <2>1 DEF WriteTemp
  <2> QED
    BY <2>2, PublicationStays, LocalKept
<1>3. CASE Install(p)
  <2>1. /\ index' = receipts[r].post /\ UNCHANGED <<receipts, carrier, pending, refs, localVars>>
    BY <1>3 DEF Install, Failing
  <2>2. Recoverable(r)'
    BY <2>1 DEF PublicationKept, Recoverable, Whole, Admissible, CanPrepare, localVars
  <2> QED
    BY <2>1, <2>2 DEF PublicationKept, Seen, Present, localVars
<1>4. CASE RemoveOne(p)
  <2>1. PICK o \in job[p].todo : receipts' = [receipts EXCEPT ![o] = None]
    BY <1>4 DEF RemoveOne, Failing
  <2>2. UNCHANGED <<index, carrier, pending, refs, localVars>>
    BY <1>4 DEF RemoveOne, Failing
  <2>3. /\ Whole(r) /\ index = receipts[r].post /\ job[p].todo \subseteq receipts[r].plan
    BY <1>4, HolderKnows DEF RemoveOne, Custodial, PublishesOn
  <2>4. receipts[r].plan \subseteq Receipts /\ r \notin receipts[r].plan
    BY <2>3, PublicationFields DEF OwnerInv, Plans, Planned
  <2>5. \A s \in Receipts : receipts'[s] = IF s = o THEN None ELSE receipts[s]
    BY <2>1 DEF OwnerInv, FileTypes
  <2>6. receipts'[r] = receipts[r] /\ o \in receipts[r].plan
    BY <2>3, <2>4, <2>5
  <2>7. Recoverable(r)'
    BY <2>2, <2>6 DEF PublicationKept, Recoverable, Whole, Admissible, CanPrepare, localVars
  <2>8. Present' \ (receipts[r].plan \cup {r}) = Present \ (receipts[r].plan \cup {r})
    BY <2>5, <2>6 DEF Present
  <2>9. Seen(r)' = Seen(r)
    BY <2>2, <2>6, <2>8 DEF Seen
  <2> QED
    BY <2>2, <2>3, <2>6, <2>7, <2>9 DEF PublicationKept, localVars
<1> QED
  BY <1>1, <1>2, <1>3, <1>4 DEF Publish, EnterPublish, PublishAdmit, PublishRun, PublishLock, RecoverLock, Lock,
     PublishComplete, Removed, CommitPublication, Failing

(* Who the steps that change what the owner keeps work for.                *)
LEMMA Actors ==
  ASSUME OwnerInv, NEW p \in Procs, ~UNCHANGED proofVars
  PROVE  /\ Publish(p) => job[p].r \in Receipts /\ Actor(p) = job[p].r
         /\ Retire(p) => Actor(p) = Retirement
<1>1. ASSUME Publish(p)
      PROVE  job[p].r \in Receipts /\ Actor(p) = job[p].r
  <2>1. pc[p] \in Publishing
    BY <1>1 DEF Publish, EnterPublish, PublishAdmit, PublishRun, PublishLock, RecoverLock, Lock, PublishReceipt,
       PublishTemp, WriteTemp, PublishComplete, Recover, Install, RemoveOne, Removed, CommitPublication, Failing,
       At, Publishing
  <2>2. job[p] \in PublicationJobs /\ job[p] # None
    BY <2>1, ProofMarksAssumption DEF OwnerInv, ProcTypes, JobFits
  <2> QED
    BY <2>2 DEF PublicationJobs, Actor
<1>2. ASSUME Retire(p)
      PROVE  Actor(p) = Retirement
  <2>1. pc[p] \in Retiring
    BY <1>2 DEF Retire, EnterRetire, EnterRecovery, RetireLock, Lock, AdmitRetirement, AdmitRecovery,
       RefuseRetirement, Record, ReplaceIndex, VerifyReplaced, RetireOne, CommitRetirement, ReplaceCarrier,
       CommitRecovery, ClearPending, Aborting, At, Retiring
  <2>2. job[p] \in RetirementJobs /\ job[p] # None
    BY <2>1, ProofMarksAssumption DEF OwnerInv, ProcTypes, JobFits
  <2> QED
    BY <2>2 DEF RetirementJobs, Actor
<1> QED
  BY <1>1, <1>2

LEMMA PublicationsStep ==
  ASSUME OwnerInv, RunsRecorded, Next, smooth', temps = Installing, quiet \subseteq Receipts \cup {Retirement},
         \A r \in Receipts : r \in quiet /\ ~Committed(Pub(r)) => PublicationKept(r),
         NEW r \in Receipts, r \in quiet', ~Committed(Pub(r))'
  PROVE  PublicationKept(r)'
<1> USE ActorAssumption, ProofMarksAssumption
<1>1. r # Retirement /\ r # None /\ Pub(r) \in Effects
  BY Keys
<1>2. CASE World
  <2>1. Observed(None) /\ UNCHANGED <<localVars, receipts, pending>>
    BY <1>2 DEF World, Checkout, Reference
  <2>2. CASE UNCHANGED proofVars
    <3>1. r \in quiet
      BY <1>1, <2>1, <2>2 DEF Observed
    <3> QED
      BY <2>1, <2>2, <3>1, LocalKept, PublicationStays DEF proofVars, CommittedStays, Committed, localVars
  <2>3. CASE ~UNCHANGED proofVars
    <3>1. FALSE
      BY <1>1, <2>1, <2>3 DEF Observed
    <3> QED
      BY <3>1
  <2> QED
    BY <2>2, <2>3
<1>3. ASSUME NEW p \in Procs, Proceed(p), Observed(Actor(p))
      PROVE  PublicationKept(r)'
  <2>1. PreparedStay /\ CommittedStays /\ JudgmentsStay /\ runs \subseteq runs'
    BY <1>3, ProceedKeeps
  <2>2. ~Committed(Pub(r))
    BY <1>1, <2>1 DEF CommittedStays
  <2>3. CASE UNCHANGED proofVars
    <3>1. r \in quiet
      BY <1>1, <1>3, <2>3 DEF Observed, proofVars
    <3> QED
      BY <2>1, <2>2, <2>3, <3>1, PublicationStays DEF proofVars
  <2>4. CASE ~UNCHANGED proofVars
    <3>1. (r \in quiet /\ r = Actor(p)) \/ (receipts[r] = None /\ receipts'[r] \notin {None, Torn})
      BY <1>1, <1>3, <2>4 DEF Observed
    <3>2. CASE Retire(p)
      <4>1. UNCHANGED receipts \/ RetireOne(p)
        BY <3>2 DEF Retire, EnterRetire, EnterRecovery, RetireLock, Lock, AdmitRetirement, AdmitRecovery,
           RefuseRetirement, Record, ReplaceIndex, VerifyReplaced, CommitRetirement, ReplaceCarrier, CommitRecovery,
           ClearPending, Aborting, proofVars
      <4>2. receipts[r] = None => receipts'[r] = None
        BY <4>1 DEF RetireOne, Aborting, proofVars, OwnerInv, FileTypes
      <4> QED
        BY <1>1, <2>4, <3>1, <3>2, <4>2, Actors
    <3>3. CASE Publish(p)
      <4>1. job[p].r \in Receipts /\ Actor(p) = job[p].r
        BY <2>4, <3>3, Actors
      <4>2. CASE receipts[r] = None /\ receipts'[r] \notin {None, Torn}
        <5>1. PublishReceipt(p)
          <6>1. UNCHANGED receipts \/ RemoveOne(p) \/ PublishReceipt(p)
            BY <3>3 DEF Publish, EnterPublish, PublishAdmit, PublishRun, PublishLock, RecoverLock, Lock, PublishTemp,
               WriteTemp, PublishComplete, Recover, Install, Removed, CommitPublication, Failing, proofVars
          <6>2. ~RemoveOne(p)
            <7>1. RemoveOne(p) => UNCHANGED receipts \/ \E o \in job[p].todo : receipts' = [receipts EXCEPT ![o] = None]
              BY DEF RemoveOne, Failing, proofVars
            <7>2. DOMAIN receipts = Receipts
              BY DEF OwnerInv, FileTypes
            <7> QED
              BY <4>2, <7>1, <7>2
          <6> QED
            BY <4>2, <6>1, <6>2
        <5>2. r = job[p].r
          BY <4>2, <5>1 DEF PublishReceipt, Failing, proofVars, OwnerInv, FileTypes
        <5> QED
          BY <4>2, <5>1, <5>2, BornKept
      <4>3. CASE r \in quiet /\ r = Actor(p)
        BY <2>2, <2>4, <3>3, <4>1, <4>3, OwnStepsKeep
      <4> QED
        BY <3>1, <4>2, <4>3
    <3> QED
      BY <1>3, <3>2, <3>3 DEF Proceed
  <2> QED
    BY <2>3, <2>4
<1>4. ASSUME NEW p \in Procs, DieBetween(p), Observed(Actor(p))
      PROVE  PublicationKept(r)'
  <2>1. UNCHANGED <<proofVars, localVars>>
    BY <1>4 DEF DieBetween, Die
  <2>2. r \in quiet
    BY <1>1, <1>4, <2>1 DEF Observed, proofVars
  <2>3. ~Committed(Pub(r))
    BY <2>1 DEF Committed, localVars
  <2> QED
    BY <2>1, <2>2, <2>3, LocalKept, PublicationStays DEF proofVars
<1> QED
  BY <1>2, <1>3, <1>4, SmoothSteps

-----------------------------------------------------------------------------
(* What an undisturbed retirement finds is kept.                           *)

Resumable == pending.tries <= MaxTries => CanAdmit(Rec(pending.base, pending.tries)) \/ Recording

LEMMA RetirementStays ==
  ASSUME OwnerInv, RetirementKept, UNCHANGED <<index, carrier, pending, temps, refs>>,
         PreparedStay, JudgmentsStay, Resumable',
         LET i == pending.base IN
           /\ Present' \subseteq binding[i].seen.present
           /\ binding[i].seen.present \ binding[i].selected \subseteq Present'
  PROVE  RetirementKept'
<1>1. PICK i : i = pending.base
  OBVIOUS
<1>2. /\ pending # None /\ pending' = pending /\ i \in DOMAIN binding /\ binding'[i] = binding[i]
      /\ i \in 1 .. MaxRetirements /\ pending.tries \in Nat /\ pending.tries <= MaxTries + 1
  BY <1>1, PendingBase DEF RetirementKept, JudgmentsStay, OwnerInv, FileTypes
<1>3. PendingIntact'
  <2>1. CanPrepare(Ret(i), Done)'
    BY <1>1, <1>2, Keys DEF RetirementKept, PendingIntact, Base, PreparedStay
  <2>2. ASSUME pending.tries > 0
        PROVE  CanPrepare(Rec(i, pending.tries - 1), Done)'
    <3>1. pending.tries - 1 \in 0 .. MaxTries
      BY <1>2, <2>2, Lengths
    <3> QED
      BY <1>1, <1>2, <2>2, <3>1, Keys DEF RetirementKept, PendingIntact, PreparedStay
  <2>3. pending'.base = i /\ pending'.tries = pending.tries
    BY <1>1, <1>2
  <2> QED
    BY <2>1, <2>2, <2>3, <1>2 DEF PendingIntact, Base
<1>4. Verified(i, TRUE)'
  <2>1. Verified(i, TRUE)
    BY <1>1 DEF RetirementKept
  <2>2. NextIndex(binding[i])' = NextIndex(binding[i])
    BY <1>2 DEF NextIndex, EmptyIndex
  <2> QED
    BY <1>1, <1>2, <2>1, <2>2 DEF Verified, Observation
<1> QED
  BY <1>1, <1>2, <1>3, <1>4 DEF RetirementKept, Resumable

(* The next recovery stays possible, or is being recorded.                 *)
LEMMA ResumableStays ==
  ASSUME OwnerInv, RetirementsInTurn, RetirementKept, NEW p \in Procs, UNCHANGED proofVars,
         Proceed(p) \/ (Death(p) /\ DieBetween(p))
  PROVE  Resumable'
<1> USE DEF At
<1>1. PICK i, n : i = pending.base /\ n = pending.tries
  OBVIOUS
<1>2. /\ pending # None /\ pending' = pending /\ i \in 1 .. MaxRetirements /\ n \in Nat
      /\ Verified(i, TRUE)
  BY <1>1, PendingBase DEF RetirementKept, proofVars
<1> SUFFICES ASSUME n <= MaxTries
             PROVE  CanAdmit(Rec(i, n))' \/ Recording'
  BY <1>1, <1>2 DEF Resumable
<1>3. n \in 0 .. MaxTries /\ Rec(i, n) \in RetirementAttempts /\ Rec(i, n) \in Effects
  BY <1>2, RetirementKeys, Lengths
<1>4. CanAdmit(Rec(i, n)) \/ Recording
  BY <1>1 DEF RetirementKept
<1>5. CASE lock # p
  <2>1. /\ SameAttempts /\ OnlyMoves(p)
        /\ lock' = lock \/ (lock = None /\ lock' = p /\ pc'[p] \in {"pub-receipt", "recover", "ret-admit"})
    BY <1>5, Outsiders
  <2>2. CanAdmit(Rec(i, n)) => CanAdmit(Rec(i, n))'
    BY <1>3, <2>1 DEF SameAttempts, CanAdmit
  <2>3. Recording => Recording'
    BY <1>5, <2>1 DEF Recording, OnlyMoves, OwnerInv, ProcTypes
  <2> QED
    BY <1>4, <2>2, <2>3
<1>6. CASE lock = p
  <2>1. pc[p] \in Custodial /\ p # None /\ WorksOnPending(p)
    BY <1>6, ProofMarksAssumption DEF OwnerInv, ProcTypes, RetirementsInTurn
  <2>2. CASE pc[p] = "ret-record"
    <3>1. Recovering(p) /\ job[p].i = i
      BY <1>1, <1>2, <2>1, <2>2 DEF WorksOnPending, Resumes, Retiring
    <3>2. Recordable(p)
      BY <1>2, <3>1 DEF Recordable
    <3>3. ~DieBetween(p)
      BY <2>2, <3>1 DEF DieBetween, HalfMade
    <3>4. Record(p)
      BY <2>2, <3>3 DEF Proceed, Publish, EnterPublish, Start, PublishAdmit, PublishRun, PublishLock,
         RecoverLock, Lock, PublishReceipt, PublishTemp, PublishComplete, Recover, Install, RemoveOne, Removed,
         CommitPublication, Retire, EnterRetire, EnterRecovery, RetireLock, AdmitRetirement, AdmitRecovery,
         RefuseRetirement, ReplaceIndex, VerifyReplaced, RetireOne, CommitRetirement, ReplaceCarrier, CommitRecovery,
         ClearPending
    <3>5. pending'.tries = pending.tries + 1
      BY <3>1, <3>2, <3>4 DEF Record
    <3> QED
      BY <1>1, <1>2, <3>5
  <2>3. CASE pc[p] # "ret-record"
    <3>1. CanAdmit(Rec(i, n))
      BY <1>4, <1>6, <2>3 DEF Recording
    <3>2. CASE AdmitRetirement(p) \/ AdmitRecovery(p)
      <4>1. pc'[p] = "ret-record" /\ lock' = p
        BY <1>6, <3>2 DEF AdmitRetirement, AdmitRecovery, Goto, OwnerInv, ProcTypes
      <4> QED
        BY <2>1, <4>1 DEF Recording
    <3>3. CASE ~AdmitRetirement(p) /\ ~AdmitRecovery(p)
      <4>1. \/ UNCHANGED <<attempts, results>>
            \/ \E x : Commit(x, Done) \/ Admit(Pub(x))
        <5>1. CASE Publish(p)
          BY <5>1 DEF Publish, EnterPublish, PublishAdmit, PublishRun, PublishLock, RecoverLock, Lock,
             PublishReceipt, PublishTemp, WriteTemp, PublishComplete, Recover, Install, RemoveOne, Removed,
             CommitPublication, Failing, localVars
        <5>2. CASE Retire(p)
          BY <3>3, <5>2 DEF Retire, EnterRetire, EnterRecovery, RetireLock, Lock, RefuseRetirement, Record,
             ReplaceIndex, VerifyReplaced, RetireOne, CommitRetirement, ReplaceCarrier, CommitRecovery, ClearPending,
             Aborting, localVars, storeVars
        <5>3. CASE DieBetween(p)
          BY <5>3 DEF DieBetween, Die, localVars
        <5> QED
          BY <5>1, <5>2, <5>3 DEF Proceed
      <4>2. ASSUME NEW x, Commit(x, Done)
            PROVE  CanAdmit(Rec(i, n))'
        <5>1. x # Rec(i, n)
          BY <3>1, <4>2, StoreAssumption DEF CanAdmit, Commit, CanCommit
        <5> QED
          BY <1>3, <3>1, <4>2, <5>1 DEF CanAdmit, Commit, OwnerInv, FileTypes, StoreTypeOK
      <4>3. ASSUME NEW x, Admit(Pub(x))
            PROVE  CanAdmit(Rec(i, n))'
        <5>1. Pub(x) # Rec(i, n)
          BY Keys
        <5> QED
          BY <1>3, <3>1, <4>3, <5>1 DEF CanAdmit, Admit, OwnerInv, FileTypes, StoreTypeOK
      <4>4. UNCHANGED <<attempts, results>> => CanAdmit(Rec(i, n))'
        BY <3>1 DEF CanAdmit
      <4> QED
        BY <4>1, <4>2, <4>3, <4>4
    <3> QED
      BY <3>2, <3>3
  <2> QED
    BY <2>2, <2>3
<1> QED
  BY <1>5, <1>6

(* The record that makes a retirement, or its next recovery, recoverable.  *)
LEMMA RecordedKept ==
  ASSUME OwnerInv, RetirementsInTurn, NEW p \in Procs, Record(p), ~UNCHANGED proofVars,
         pending # None => RetirementKept
  PROVE  RetirementKept'
<1>1. PICK i : i = job[p].i
  OBVIOUS
<1>2. /\ pc[p] = "ret-record" /\ lock = p /\ WorksOnPending(p) /\ i \in DOMAIN binding
  BY <1>1, HolderKnows DEF Record, At, Custodial, Retiring, RetirementsInTurn
<1>3. i \in 1 .. MaxRetirements /\ i # None /\ i \in Nat
  BY <1>2, JudgmentFields, Lengths DEF OwnerInv
<1>4. /\ Recordable(p) /\ UNCHANGED <<receipts, index, carrier, temps, refs, attempts, results, binding>>
      /\ pending' = [base |-> i, tries |-> IF Recovering(p) THEN pending.tries + 1 ELSE 0]
  BY <1>1 DEF Record, Aborting, localVars
<1>5. pending' # None /\ pending'.base = i
  <2>1. Recovering(p) => pending # None
    BY <1>2, HolderKnows DEF Custodial, Retiring, RetiresOn
  <2>2. pending' \in PendingRecords
    BY <1>3, <1>4, <2>1, PendingBase DEF PendingRecords
  <2> QED
    BY <1>4, <2>2, ProofMarksAssumption
<1>6. CASE Recovering(p)
  <2>1. pending # None /\ pending.base = i /\ RetirementKept /\ pending.tries \in Nat
    <3>1. pending # None
      BY <1>2, <1>6, HolderKnows DEF Custodial, Retiring, RetiresOn
    <3> QED
      BY <1>1, <1>2, <1>6, <3>1, PendingBase DEF WorksOnPending, Resumes, Retiring
  <2>2. PICK n : n = pending.tries
    OBVIOUS
  <2>3. pending'.tries = n + 1 /\ n \in Nat
    BY <1>4, <1>6, <2>1, <2>2
  <2>4. CanPrepare(Ret(i), Done)' /\ CanPrepare(Rec(i, n), Done)'
    BY <1>1, <1>2, <1>4, <1>6, <2>1, <2>2 DEF RetirementKept, PendingIntact, Base, WorksOnPending, CanCommit, CanPrepare
  <2>5. PendingIntact'
    <3>1. pending'.tries - 1 = n
      BY <2>3
    <3> QED
      BY <1>5, <2>4, <3>1 DEF PendingIntact, Base
  <2>6. Verified(i, TRUE)'
    <3>1. Verified(i, TRUE)
      BY <2>1 DEF RetirementKept
    <3> QED
      BY <1>4, <1>5, <3>1 DEF Verified, Observation, Present, NextIndex, EmptyIndex
  <2>7. pending'.tries <= MaxTries => CanAdmit(Rec(i, n + 1))'
    <3> SUFFICES ASSUME n + 1 <= MaxTries
                 PROVE  CanAdmit(Rec(i, n + 1))
      BY <1>4, <2>3 DEF CanAdmit
    <3>1. n + 1 \in 0 .. MaxTries /\ n + 1 > pending.tries
      BY <2>2, <2>3, Lengths
    <3>2. attempts[Rec(i, n + 1)] = Absent
      BY <2>1, <3>1 DEF RetirementsInTurn, RecoveriesInTurn
    <3> QED
      BY <1>3, <3>1, <3>2, Keys DEF CanAdmit, RetirementsInTurn, ResultsFollow
  <2> QED
    BY <1>5, <2>3, <2>5, <2>6, <2>7 DEF RetirementKept
<1>7. CASE ~Recovering(p)
  <2>1. CanCommit(Ret(i)) /\ Unrecovered(i) /\ Verified(i, FALSE) /\ pending'.tries = 0
    BY <1>1, <1>2, <1>4, <1>7 DEF WorksOnPending, Resumes, Retiring, Recordable
  <2>2. PendingIntact'
    BY <1>4, <1>5, <2>1 DEF PendingIntact, Base, CanCommit, CanPrepare
  <2>3. Verified(i, TRUE)'
    BY <1>4, <1>5, <2>1 DEF Verified, Observation, Present, NextIndex, EmptyIndex
  <2>4. CanAdmit(Rec(i, 0))'
    <3>1. 0 \in 0 .. MaxTries
      BY Lengths
    <3> QED
      BY <1>3, <1>4, <2>1, <3>1, Keys DEF CanAdmit, Unrecovered, RetirementsInTurn, ResultsFollow
  <2> QED
    BY <1>5, <2>1, <2>2, <2>3, <2>4 DEF RetirementKept
<1> QED
  BY <1>6, <1>7

(* The other steps of a retirement that change what the owner keeps.       *)
LEMMA RetirerStepsKeep ==
  ASSUME OwnerInv, RetirementsInTurn, RetirementKept, NEW p \in Procs, lock = p,
         ReplaceIndex(p) \/ RetireOne(p) \/ ReplaceCarrier(p), ~UNCHANGED proofVars
  PROVE  RetirementKept'
<1> USE DEF At
<1>1. PICK i : i = pending.base
  OBVIOUS
<1>2. pc[p] \in Retiring \ {"ret-record"} /\ pc[p] \in Custodial
  BY DEF ReplaceIndex, RetireOne, ReplaceCarrier, Retiring, Custodial
<1>3. /\ pending # None /\ job[p].i = i /\ i \in DOMAIN binding /\ ~Recording /\ RetiresOn(p)
      /\ Verified(i, TRUE)
  BY <1>1, <1>2, PendingBase, HolderKnows DEF RetirementsInTurn, WorksOnPending, Resumes, RetirementKept, Recording
<1>4. UNCHANGED <<pending, temps, refs, attempts, results, binding>>
  BY DEF ReplaceIndex, RetireOne, ReplaceCarrier, Aborting, localVars, proofVars
<1>5. PendingIntact' /\ pending' # None /\ pending'.base = i
      /\ (pending'.tries <= MaxTries => CanAdmit(Rec(i, pending.tries))')
  BY <1>1, <1>3, <1>4 DEF RetirementKept, PendingIntact, Base, CanPrepare, CanAdmit
<1>6. NextIndex(binding[i])' = NextIndex(binding[i])
  BY <1>4 DEF NextIndex, EmptyIndex
<1>7. Verified(i, TRUE)'
  <2>1. CASE ReplaceIndex(p)
    <3>1. index' = NextIndex(binding[i]) /\ UNCHANGED <<receipts, carrier>>
      BY <1>3, <2>1 DEF ReplaceIndex, Aborting
    <3> QED
      BY <1>3, <1>4, <1>6, <3>1 DEF Verified, Observation, Present
  <2>2. CASE ReplaceCarrier(p)
    <3>1. carrier' = i /\ UNCHANGED <<receipts, index>>
      BY <1>3, <2>2 DEF ReplaceCarrier, Aborting
    <3> QED
      BY <1>1, <1>3, <1>4, <1>6, <3>1 DEF Verified, Observation, Present
  <2>3. CASE RetireOne(p)
    <3>1. PICK o \in job[p].todo : receipts' = [receipts EXCEPT ![o] = None]
      BY <2>3 DEF RetireOne, Aborting
    <3>2. UNCHANGED <<index, carrier>> /\ o \in binding[i].selected
      BY <1>2, <1>3, <2>3 DEF RetireOne, Aborting, RetiresOn
    <3>3. \A s \in Receipts : receipts'[s] = IF s = o THEN None ELSE receipts[s]
      BY <3>1 DEF OwnerInv, FileTypes
    <3>4. Present' = Present \ {o}
      BY <3>3 DEF Present
    <3> QED
      BY <1>3, <1>4, <1>6, <3>2, <3>4 DEF Verified, Observation
  <2> QED
    BY <2>1, <2>2, <2>3
<1> QED
  BY <1>4, <1>5, <1>7 DEF RetirementKept

LEMMA RetirementsStep ==
  ASSUME OwnerInv, RetirementsInTurn, Next, smooth', quiet \subseteq Receipts \cup {Retirement},
         Retirement \in quiet => RetirementKept, Retirement \in quiet'
  PROVE  RetirementKept'
<1> USE ActorAssumption, ProofMarksAssumption
<1>1. \A r \in Receipts : r # Retirement
  OBVIOUS
<1>2. ASSUME RetirementKept, UNCHANGED proofVars, PreparedStay, JudgmentsStay, Resumable'
      PROVE  RetirementKept'
  <2>1. Present' = Present
    BY <1>2 DEF Present, proofVars
  <2>2. /\ Present \subseteq binding[pending.base].seen.present
        /\ binding[pending.base].seen.present \ binding[pending.base].selected \subseteq Present
    BY <1>2 DEF RetirementKept, Verified, Observation
  <2> QED
    BY <1>2, <2>1, <2>2, RetirementStays DEF proofVars
<1>3. CASE World
  <2>1. Observed(None) /\ UNCHANGED <<localVars, procVars, pending>>
    BY <1>3 DEF World, Checkout, Reference
  <2>2. UNCHANGED proofVars /\ Retirement \in quiet
    BY <1>1, <2>1 DEF Observed
  <2>3. Resumable'
    <3>1. Resumable
      BY <2>2 DEF RetirementKept, Resumable
    <3> QED
      BY <2>1, <3>1 DEF Resumable, CanAdmit, Recording, localVars, procVars
  <2> QED
    BY <1>2, <2>1, <2>2, <2>3, LocalKept
<1>4. ASSUME NEW p \in Procs, Proceed(p), Observed(Actor(p))
      PROVE  RetirementKept'
  <2>1. PreparedStay /\ JudgmentsStay
    BY <1>4, ProceedKeeps
  <2>2. CASE UNCHANGED proofVars
    <3>1. Retirement \in quiet
      BY <1>1, <1>4, <2>2 DEF Observed, proofVars
    <3> QED
      BY <1>2, <1>4, <2>1, <2>2, <3>1, ResumableStays
  <2>3. CASE ~UNCHANGED proofVars
    <3>1. /\ pending' # None
          /\ (Retirement \in quiet /\ Retirement = Actor(p)) \/ pending = None
      BY <1>1, <1>4, <2>3 DEF Observed
    <3>2. CASE Publish(p)
      <4>1. UNCHANGED pending
        BY <3>2 DEF Publish, EnterPublish, PublishAdmit, PublishRun, PublishLock, RecoverLock, Lock, PublishReceipt,
           PublishTemp, WriteTemp, PublishComplete, Recover, Install, RemoveOne, Removed, CommitPublication, Failing,
           proofVars
      <4> QED
        BY <1>1, <2>3, <3>1, <3>2, <4>1, Actors
    <3>3. CASE Record(p)
      BY <1>4, <2>3, <3>1, <3>3, RecordedKept
    <3>4. CASE Retire(p) /\ ~Record(p)
      <4>1. (ReplaceIndex(p) \/ RetireOne(p) \/ ReplaceCarrier(p)) /\ UNCHANGED pending
        BY <2>3, <3>1, <3>4 DEF Retire, EnterRetire, EnterRecovery, RetireLock, Lock, AdmitRetirement, AdmitRecovery,
           RefuseRetirement, ReplaceIndex, RetireOne, ReplaceCarrier, VerifyReplaced, CommitRetirement, CommitRecovery,
           ClearPending, Aborting, proofVars
      <4>2. lock = p
        BY <4>1, HolderKnows DEF ReplaceIndex, RetireOne, ReplaceCarrier, At, Custodial, Retiring
      <4> QED
        BY <2>3, <3>1, <4>1, <4>2, RetirerStepsKeep
    <3> QED
      BY <1>4, <3>2, <3>3, <3>4 DEF Proceed
  <2> QED
    BY <2>2, <2>3
<1>5. ASSUME NEW p \in Procs, Death(p), DieBetween(p), Observed(Actor(p))
      PROVE  RetirementKept'
  <2>1. UNCHANGED <<proofVars, localVars>>
    BY <1>5 DEF DieBetween, Die
  <2>2. Retirement \in quiet
    BY <1>1, <1>5, <2>1 DEF Observed, proofVars
  <2> QED
    BY <1>2, <1>5, <2>1, <2>2, LocalKept, ResumableStays
<1> QED
  BY <1>3, <1>4, <1>5, SmoothSteps

-----------------------------------------------------------------------------
(* Recovery after deaths between two files.                                *)

LEMMA SeamStep ==
  ASSUME OwnerInv, OwnerInv', RunsRecorded, SeamInv, [Next]_vars
  PROVE  SeamInv'
<1>1. CASE Next
  <2>1. RetirementsInTurn'
    BY <1>1, TurnsStep DEF SeamInv
  <2>2. quiet' \subseteq Receipts \cup {Retirement}
    <3>1. \E a : Observed(a)
      BY <1>1 DEF Next, World, Proceed
    <3> QED
      BY <3>1 DEF Observed, SeamInv
  <2>3. ASSUME smooth'
        PROVE  /\ temps' = Installing'
               /\ \A r \in Receipts : r \in quiet' /\ ~Committed(Pub(r))' => PublicationKept(r)'
               /\ Retirement \in quiet' => RetirementKept'
    <3>1. smooth
      BY <1>1, <2>3, SmoothSteps
    <3>2. temps' = Installing'
      BY <1>1, <2>3, <3>1, TempsStep DEF SeamInv
    <3>3. \A r \in Receipts : r \in quiet' /\ ~Committed(Pub(r))' => PublicationKept(r)'
      BY <1>1, <2>3, <3>1, PublicationsStep DEF SeamInv
    <3>4. Retirement \in quiet' => RetirementKept'
      BY <1>1, <2>3, <3>1, RetirementsStep DEF SeamInv
    <3> QED
      BY <3>2, <3>3, <3>4
  <2> QED
    BY <2>1, <2>2, <2>3 DEF SeamInv
<1>2. CASE UNCHANGED vars
  <2> USE <1>2 DEF vars, proofVars, localVars, procVars, ghostVars
  <2>1. SameAttempts /\ ResultsFollow' /\ RecoveriesInTurn'
    BY DEF SeamInv, RetirementsInTurn, SameAttempts, ResultsFollow, RecoveriesInTurn, Unrecovered
  <2>2. \A q \in Procs : lock' = q => WorksOnPending(q)'
    BY <2>1, WorkerStill DEF SeamInv, RetirementsInTurn
  <2>3. PreparedStay /\ CommittedStays /\ JudgmentsStay
    BY LocalKept
  <2>4. \A r \in Receipts : PublicationKept(r) => PublicationKept(r)'
    BY <2>3, PublicationStays
  <2>5. RetirementKept => RetirementKept'
    <3> SUFFICES ASSUME RetirementKept
                 PROVE  RetirementKept'
      OBVIOUS
    <3>1. Resumable'
      BY DEF RetirementKept, Resumable, CanAdmit, Recording
    <3>2. /\ Present' \subseteq binding[pending.base].seen.present
          /\ binding[pending.base].seen.present \ binding[pending.base].selected \subseteq Present'
      BY DEF RetirementKept, Verified, Observation, Present
    <3> QED
      BY <2>3, <3>1, <3>2, RetirementStays
  <2>6. \A r \in Receipts : Committed(Pub(r))' <=> Committed(Pub(r))
    BY DEF Committed
  <2> QED
    BY <2>1, <2>2, <2>4, <2>5, <2>6 DEF SeamInv, RetirementsInTurn, Installing
<1> QED
  BY <1>1, <1>2

LEMMA SeamInit ==
  ASSUME Init
  PROVE  SeamInv
<1> USE DEF Init, StoreOwnerInit, StoreInit
<1>1. ResultsFollow /\ RecoveriesInTurn
  BY RetirementKeys DEF ResultsFollow, RecoveriesInTurn, Unrecovered
<1>2. \A p \in Procs : lock = p => WorksOnPending(p)
  BY ProofMarksAssumption
<1> QED
  BY <1>1, <1>2 DEF SeamInv, RetirementsInTurn, Installing

LEMMA SeamsKept ==
  ASSUME OwnerInv, SeamInv
  PROVE  SeamsRecover
<1> SUFFICES ASSUME smooth, lock = None
             PROVE  /\ \A r \in Receipts : r \in quiet /\ ~Committed(Pub(r)) =>
                          /\ r \in runs /\ Recoverable(r)
                          /\ index = receipts[r].post \/ CanReinstall(r)
                          /\ AutomaticCheck(r, TRUE)
                    /\ Retirement \in quiet /\ pending.tries <= MaxTries =>
                          /\ PendingIntact /\ CanAdmit(Rec(pending.base, pending.tries))
                          /\ Verified(pending.base, TRUE)
  BY DEF SeamsRecover, PublicationRecovers, RetirementRecovers
<1>1. temps = 0 /\ ~Recording
  BY DEF SeamInv, Installing, Recording
<1>2. ASSUME NEW r \in Receipts, r \in quiet, ~Committed(Pub(r))
      PROVE  /\ r \in runs /\ Recoverable(r)
             /\ index = receipts[r].post \/ CanReinstall(r)
             /\ AutomaticCheck(r, TRUE)
  <2>1. PublicationKept(r)
    BY <1>2 DEF SeamInv
  <2>2. receipts[r].plan # {} => Guard(r, receipts[r].plan) = receipts[r].guard
    BY <1>1, <2>1 DEF PublicationKept, Seen, Guard, Observation
  <2>3. AutomaticCheck(r, TRUE)
    BY <2>2 DEF AutomaticCheck
  <2> QED
    BY <2>1, <2>3 DEF PublicationKept, CanReinstall
<1>3. ASSUME Retirement \in quiet, pending.tries <= MaxTries
      PROVE  /\ PendingIntact /\ CanAdmit(Rec(pending.base, pending.tries))
             /\ Verified(pending.base, TRUE)
  BY <1>1, <1>3 DEF SeamInv, RetirementKept
<1> QED
  BY <1>2, <1>3

(* A publication whose receipt is retained, or a retirement whose record   *)
(* is, that was interrupted between two files and that nobody interfered   *)
(* with passes every check of its recovery (recover of                     *)
(* proof_publication.rs, the recovery of native_proof_retention.rs), after *)
(* any number of such deaths, those of recoveries included.                *)
THEOREM InterruptedRecover == Spec => []SeamsRecover
<1>1. Init => OwnerInv /\ RunsRecorded /\ SeamInv
  BY OwnerInit, SeamInit
<1>2. OwnerInv /\ RunsRecorded /\ SeamInv /\ [Next]_vars => (OwnerInv /\ RunsRecorded /\ SeamInv)'
  BY OwnerNext, SeamStep
<1>3. OwnerInv /\ SeamInv => SeamsRecover
  BY SeamsKept
<1> QED
  BY <1>1, <1>2, <1>3, PTL DEF Spec
=============================================================================
