--------------------------- MODULE ManualCarriage ---------------------------
(***************************************************************************)
(* Carriage of an assignment by hand (native_manual.rs).  What was given   *)
(* out, what came back and what became of it are stages, each an effect    *)
(* with four files: attempt, carrier, terminal and result.  One link file  *)
(* per task names the last stage and the history before it; it is read at  *)
(* every entry for the task.  A settled lifecycle is retired: the link     *)
(* becomes a receipt and the files of the history are removed.             *)
(***************************************************************************)
EXTENDS Processes, Filtering, Integers, Sequences, SequencesExt, FiniteSets

CONSTANTS
    Packets,        \* sealed assignments of the task
    Returns,        \* what may come back
    Whole,          \* an intact file
    MaxStages,      \* stages one lifecycle retains (4)
    MaxMoves        \* changes of the assignment or of others' references

ASSUME ManualAssumption == MaxStages \in Nat /\ MaxMoves \in Nat

Stages == {"exported", "reported", "partial", "used", "disposed"}

(* The effects: an export carries no return, a retirement names the stage  *)
(* that the link held.                                                     *)
Stage(k, s, r) == [packet |-> k, stage |-> s, ret |-> r]
StageEffects ==
    {Stage(k, "exported", None) : k \in Packets}
      \cup {Stage(k, s, r) : k \in Packets, s \in Stages \ {"exported", "disposed"}, r \in Returns}
      \cup {Stage(k, "disposed", r) : k \in Packets, r \in Returns \cup {None}}
Retirement(e) == Stage(e.packet, "retired", e)
Retirements == {Retirement(e) : e \in StageEffects}
CarriageEffects == StageEffects \cup Retirements

FileKinds == {"attempt", "carrier", "terminal", "result"}
NoFiles == [f \in FileKinds |-> Absent]

(* What the link file holds.                                               *)
Links ==
    [kind : {"stage"}, effect : StageEffects, pending : BOOLEAN, history : Seq(StageEffects),
     former : Retirements \cup {None}]
      \cup [kind : {"retirement"}, effect : Retirements, files : Seq(CarriageEffects \X FileKinds), done : BOOLEAN]

ASSUME ManualMarksAssumption ==
    /\ Absent # Whole /\ Absent # Torn /\ Whole # Torn
    /\ Absent \notin Links

VARIABLES
    link,           \* Absent, a stage link or a retirement link
    evidence,       \* evidence[e][f]: the file f of effect e
    packet,         \* the current assignment
    named,          \* whether another owner names the evidence
    moves

manualVars == <<link, evidence, packet, named, moves>>

ManualInit ==
    /\ link = Absent
    /\ evidence = [e \in CarriageEffects |-> NoFiles]
    /\ packet \in Packets /\ named = FALSE /\ moves = 0

StageLink(e, pending, history, former) ==
    [kind |-> "stage", effect |-> e, pending |-> pending, history |-> history, former |-> former]
RetirementLink(e, files, done) ==
    [kind |-> "retirement", effect |-> e, files |-> files, done |-> done]

Has(e, f) == evidence[e][f] = Whole
CarriageCommitted(e) == Has(e, "attempt") /\ Has(e, "result")
(* The exact result to come can be bound: it is absent or already there.   *)
CarriagePrepares(e) == Has(e, "attempt") /\ evidence[e].result # Torn

HoldsStage == link # Absent /\ link.kind = "stage"
HoldsRetirement == link # Absent /\ link.kind = "retirement"

(* held: the link can be read and its custody is what it says.             *)
LinkLegible ==
    /\ HoldsStage =>
          IF evidence[link.effect].result # Absent THEN CarriageCommitted(link.effect)
          ELSE link.pending /\ Has(link.effect, "terminal") /\ CarriagePrepares(link.effect)
    /\ HoldsRetirement =>
          IF link.done THEN CarriageCommitted(link.effect) ELSE CarriagePrepares(link.effect)

(* A terminal stage that is committed can be retired.                      *)
Terminal == HoldsStage /\ link.effect.stage \in {"used", "disposed"} /\ Has(link.effect, "result")

Lifecycle == link.history \o (IF link.former = None THEN <<>> ELSE <<link.former>>)

(* retirement: offering it reads the custody of every stage, and a stage   *)
(* without its result is an error, not a refusal.                          *)
RetirementReadable == Terminal => \A e \in Range(Lifecycle) : CarriageCommitted(e)

(* Every entry for the task reads both.                                    *)
EntryReadable == LinkLegible /\ RetirementReadable

-----------------------------------------------------------------------------
(* The set to be removed, in the order in which it is removed.             *)
FileOrder == <<"attempt", "result", "carrier", "terminal">>
LifecycleFiles ==
    LET file == [i \in 1..(4 * Len(Lifecycle)) |->
                    <<Lifecycle[1 + ((i - 1) \div 4)], FileOrder[1 + ((i - 1) % 4)]>>]
    IN Filtered(file, {x \in Range(file) : evidence[x[1]][x[2]] # Absent})

(* A retained return is not replaced by different material.                *)
SameReturn(e) ==
    HoldsStage /\ link.effect.packet = e.packet /\ e.stage = "reported" =>
       link.effect.ret \in {None, e.ret}

(* What the link allows to be done for the current assignment.             *)
LinkAllows(e) ==
    CASE HoldsRetirement -> link.done /\ link.effect.packet # packet
      [] HoldsStage -> link.effect.packet = packet
      [] OTHER -> TRUE

(* A use or a repair is settled from a committed report.                   *)
StageOffered(e) ==
    \/ /\ e.stage # "disposed" /\ e.packet = packet
       /\ LinkAllows(e) /\ SameReturn(e)
       /\ e.stage \in {"partial", "used"} => CarriageCommitted(Stage(e.packet, "reported", e.ret))
    \/ /\ e.stage = "disposed" /\ HoldsStage
       /\ link.effect.packet = e.packet /\ e.packet # packet
       /\ link.effect.stage \in {"exported", "reported", "partial", "disposed"}
       /\ link.effect.ret = e.ret
       /\ link.effect.stage = "disposed" => CarriageCommitted(link.history[Len(link.history) - 1])

RetirementOffered(e) ==
    /\ ~named
    /\ IF HoldsRetirement THEN link.effect = e
       ELSE Terminal /\ e = Retirement(link.effect)

ManualOffered(e) ==
    /\ EntryReadable
    /\ IF e.stage = "retired" THEN RetirementOffered(e) ELSE StageOffered(e)

-----------------------------------------------------------------------------
EnterManual(p, e) ==
    /\ ManualOffered(e)
    /\ Begin(p, IF e.stage = "retired" THEN "m-retire" ELSE "m-read", e)
    /\ UNCHANGED manualVars

Write(e, f, content) == evidence' = [evidence EXCEPT ![e][f] = content]

LinkRead(p) == note[p].link
History(p) == IF LinkRead(p) # Absent /\ LinkRead(p).kind = "stage" THEN LinkRead(p).history ELSE <<>>
Former(p) ==
    IF LinkRead(p) = Absent THEN None
    ELSE IF LinkRead(p).kind = "stage" THEN LinkRead(p).former ELSE LinkRead(p).effect

(* The link, the carrier and the terminal are read once, at the start.     *)
ReadStage(p) ==
    LET e == job[p]
        history == IF HoldsStage THEN link.history ELSE <<>>
    IN /\ At(p, "m-read") /\ LinkLegible
       /\ Contains(history, e) \/ Len(history) < MaxStages
       /\ evidence[e].carrier # Torn
       /\ evidence[e].terminal # Absent => Has(e, "terminal") /\ CarriagePrepares(e)
       /\ Has(e, "carrier") /\ ~Has(e, "terminal") => Has(e, "attempt")
       /\ Keep(p, CASE Has(e, "terminal") -> "m-recover"
                    [] Has(e, "carrier") /\ ~Has(e, "terminal") -> "m-revalidate"
                    [] OTHER -> "m-admit",
               [link |-> link, replay |-> Has(e, "terminal")])
       /\ UNCHANGED manualVars

(* A terminal stands for a stage that is as good as done: the result it    *)
(* binds is committed if it is not there.                                  *)
RecoverStage(p) ==
    /\ At(p, "m-recover") /\ ManualOffered(job[p]) /\ CarriagePrepares(job[p])
    /\ Write(job[p], "result", Whole)
    /\ Go(p, "m-final")
    /\ UNCHANGED <<link, packet, named, moves>>

AdmitStage(p) ==
    /\ At(p, "m-admit")
    /\ evidence[job[p]].attempt = Absent /\ evidence[job[p]].result = Absent
    /\ Write(job[p], "attempt", Whole)
    /\ Go(p, "m-carrier")
    /\ UNCHANGED <<link, packet, named, moves>>

WriteCarrier(p) ==
    /\ At(p, "m-carrier") /\ evidence[job[p]].carrier = Absent
    /\ Write(job[p], "carrier", Whole)
    /\ Go(p, "m-revalidate")
    /\ UNCHANGED <<link, packet, named, moves>>

RevalidateStage(p) ==
    /\ At(p, "m-revalidate") /\ ManualOffered(job[p]) /\ CarriagePrepares(job[p])
    /\ Go(p, "m-terminal")
    /\ UNCHANGED manualVars

WriteTerminal(p) ==
    /\ At(p, "m-terminal") /\ evidence[job[p]].terminal = Absent
    /\ Write(job[p], "terminal", Whole)
    /\ Go(p, "m-pending")
    /\ UNCHANGED <<link, packet, named, moves>>

Extended(p) == Append(Filtered(History(p), Range(History(p)) \ {job[p]}), job[p])

LinkPending(p) ==
    /\ At(p, "m-pending")
    /\ link' = StageLink(job[p], TRUE, Extended(p), Former(p))
    /\ Go(p, "m-commit")
    /\ UNCHANGED <<evidence, packet, named, moves>>

CommitStage(p) ==
    /\ At(p, "m-commit")
    /\ CarriagePrepares(job[p]) /\ evidence[job[p]].result = Absent
    /\ Write(job[p], "result", Whole)
    /\ Go(p, "m-final")
    /\ UNCHANGED <<link, packet, named, moves>>

StageRank(s) == CASE s = "exported" -> 0 [] s = "reported" -> 1 [] OTHER -> 2

(* Mutant: whatever is replayed becomes the link.                          *)
KeepsNothing(p) == FALSE

(* A replay leaves the link of another assignment, and nothing goes back   *)
(* to an earlier stage of the same one.                                    *)
KeepsLater(p) ==
    LET before == LinkRead(p) IN
    /\ before # Absent /\ before.kind = "stage"
    /\ \/ note[p].replay /\ before.effect.packet # job[p].packet
       \/ /\ before.effect.packet = job[p].packet
          /\ StageRank(before.effect.stage) > StageRank(job[p].stage)

LinkFinal(p) ==
    /\ At(p, "m-final") /\ CarriageCommitted(job[p])
    /\ link' = IF KeepsLater(p) THEN link ELSE StageLink(job[p], FALSE, Extended(p), Former(p))
    /\ Stop(p)
    /\ UNCHANGED <<evidence, packet, named, moves>>

-----------------------------------------------------------------------------
(* The link is read once more: it is the stage that is to be retired, or   *)
(* this very retirement that was interrupted.                              *)
Recovering(p) == note[p].recovering

ReadRetirement(p) ==
    LET e == job[p] IN
    /\ At(p, "m-retire")
    /\ link # Absent
    /\ IF link.kind = "retirement" THEN link.effect = e ELSE link.effect = e.ret /\ ~link.pending
    /\ ManualOffered(e)
    /\ Keep(p, IF HoldsRetirement /\ Has(e, "result") THEN "m-receipt"
               ELSE IF HoldsRetirement THEN "m-examine" ELSE "m-take",
            [files |-> IF HoldsRetirement THEN link.files ELSE LifecycleFiles,
             recovering |-> HoldsRetirement])
    /\ UNCHANGED manualVars

AdmitRetirement(p) ==
    /\ At(p, "m-take")
    /\ evidence[job[p]].attempt = Absent /\ evidence[job[p]].result = Absent
    /\ Write(job[p], "attempt", Whole)
    /\ Go(p, "m-examine")
    /\ UNCHANGED <<link, packet, named, moves>>

(* Mutant: a file that has gone is an error in recovery as well.           *)
RemainingStrict(p) == \A x \in Range(note[p].files) : evidence[x[1]][x[2]] # Absent

(* All of the set is there, or what an interrupted removal left of it.     *)
Remaining(p) ==
    ~Recovering(p) => \A x \in Range(note[p].files) : evidence[x[1]][x[2]] # Absent

Retiring(p) ==
    /\ At(p, "m-examine") /\ Remaining(p) /\ CarriagePrepares(job[p])
    /\ link' = RetirementLink(job[p], note[p].files, FALSE)
    /\ Go(p, "m-remove")
    /\ UNCHANGED <<evidence, packet, named, moves>>

RemoveFile(p) ==
    /\ At(p, "m-remove")
    /\ LET left == Filtered(note[p].files, {x \in Range(note[p].files) : evidence[x[1]][x[2]] # Absent}) IN
          /\ left # <<>>
          /\ Write(left[1][1], left[1][2], Absent)
    /\ UNCHANGED <<procVars, link, packet, named, moves>>

CommitRetirement(p) ==
    /\ At(p, "m-remove")
    /\ \A x \in Range(note[p].files) : evidence[x[1]][x[2]] = Absent
    /\ CarriagePrepares(job[p]) /\ evidence[job[p]].result = Absent
    /\ Write(job[p], "result", Whole)
    /\ Go(p, "m-receipt")
    /\ UNCHANGED <<link, packet, named, moves>>

LinkRetired(p) ==
    /\ At(p, "m-receipt") /\ CarriageCommitted(job[p])
    /\ link' = RetirementLink(job[p], note[p].files, TRUE)
    /\ Stop(p)
    /\ UNCHANGED <<evidence, packet, named, moves>>

-----------------------------------------------------------------------------
MayManual(p) ==
    LET e == job[p] IN
    CASE At(p, "m-read") ->
            /\ LinkLegible
            /\ HoldsStage => Contains(link.history, e) \/ Len(link.history) < MaxStages
            /\ evidence[e].carrier # Torn
            /\ evidence[e].terminal # Absent => Has(e, "terminal") /\ CarriagePrepares(e)
            /\ Has(e, "carrier") /\ ~Has(e, "terminal") => Has(e, "attempt")
      [] pc[p] \in {"m-recover", "m-revalidate"} -> ManualOffered(e) /\ CarriagePrepares(e)
      [] pc[p] \in {"m-admit", "m-take"} -> evidence[e].attempt = Absent /\ evidence[e].result = Absent
      [] At(p, "m-carrier") -> evidence[e].carrier = Absent
      [] At(p, "m-terminal") -> evidence[e].terminal = Absent
      [] At(p, "m-commit") -> CarriagePrepares(e) /\ evidence[e].result = Absent
      [] pc[p] \in {"m-final", "m-receipt"} -> CarriageCommitted(e)
      [] At(p, "m-retire") ->
            /\ link # Absent
            /\ IF link.kind = "retirement" THEN link.effect = e ELSE link.effect = e.ret /\ ~link.pending
            /\ ManualOffered(e)
      [] At(p, "m-examine") -> Remaining(p) /\ CarriagePrepares(e)
      [] At(p, "m-remove") ->
            (\A x \in Range(note[p].files) : evidence[x[1]][x[2]] = Absent)
               => CarriagePrepares(e) /\ evidence[e].result = Absent
      [] OTHER -> TRUE

RefuseManual(p) ==
    /\ ~At(p, "idle") /\ ~MayManual(p)
    /\ Stop(p)
    /\ UNCHANGED manualVars

(* The file a process creates at this step, which its death may tear.      *)
Creating(p) ==
    CASE pc[p] \in {"m-admit", "m-take"} -> "attempt"
      [] At(p, "m-carrier") -> "carrier"
      [] At(p, "m-terminal") -> "terminal"
      [] At(p, "m-commit") \/ At(p, "m-recover") -> "result"
      [] At(p, "m-remove") /\ \A x \in Range(note[p].files) : evidence[x[1]][x[2]] = Absent -> "result"
      [] OTHER -> None

DieManual(p) ==
    /\ Dies(p)
    /\ \/ UNCHANGED evidence
       \/ /\ Creating(p) # None /\ MayManual(p)
          /\ evidence[job[p]][Creating(p)] = Absent
          /\ Write(job[p], Creating(p), Torn)
    /\ UNCHANGED <<link, packet, named, moves>>

(* The assignment changes, or another owner begins or ceases to name the   *)
(* evidence.                                                               *)
Move ==
    /\ moves < MaxMoves /\ moves' = moves + 1
    /\ \/ packet' \in Packets \ {packet} /\ UNCHANGED named
       \/ named' = ~named /\ UNCHANGED packet
    /\ UNCHANGED <<procVars, link, evidence>>

ManualNext ==
    \/ \E p \in Procs :
          \/ \E e \in CarriageEffects : EnterManual(p, e)
          \/ ReadStage(p) \/ RecoverStage(p) \/ AdmitStage(p) \/ WriteCarrier(p)
          \/ RevalidateStage(p) \/ WriteTerminal(p) \/ LinkPending(p) \/ CommitStage(p)
          \/ LinkFinal(p)
          \/ ReadRetirement(p) \/ AdmitRetirement(p) \/ Retiring(p) \/ RemoveFile(p)
          \/ CommitRetirement(p) \/ LinkRetired(p)
          \/ RefuseManual(p) \/ DieManual(p)
    \/ Move

-----------------------------------------------------------------------------
Untorn == \A e \in CarriageEffects : \A f \in FileKinds : evidence[e][f] # Torn

(* "Pending or interrupted carriage stays visible": with no file torn, the *)
(* link of the task can be read whatever died, before, between and after   *)
(* the files of a stage and of a retirement.                               *)
LinkReadable == Untorn => LinkLegible

(* Retirement takes what its lifecycle was made of and leaves its receipt: *)
(* once it is done no file of the set is there again until something new   *)
(* is carried, and a stage it removed was settled.                         *)
RetiredClean ==
    HoldsRetirement =>
       /\ link.effect.ret.stage \in {"used", "disposed"}
       /\ link.done /\ (\A p \in Procs : At(p, "idle")) =>
             \A x \in Range(link.files) : evidence[x[1]][x[2]] = Absent

(* An interrupted retirement can be taken up by its own invocation, and    *)
(* what it has already removed does not stop it.                           *)
RetirementResumable ==
    HoldsRetirement /\ ~link.done /\ Untorn =>
       /\ ~named => ManualOffered(link.effect)
       /\ \A p \in Procs : At(p, "m-examine") => MayManual(p)

ManualConsistent == LinkReadable /\ RetiredClean /\ RetirementResumable

(* "Preserve a later continuation when replaying", "a retained return is   *)
(* not replaced": for one assignment the link goes to the same or a later  *)
(* stage, unless an earlier stage that was never carried out is begun      *)
(* after it, and no report takes the place of a link with another return.  *)
StageForward ==
    [][HoldsStage /\ HoldsStage' /\ link'.effect.packet = link.effect.packet =>
          /\ \/ link'.pending
             \/ StageRank(link.effect.stage) <= StageRank(link'.effect.stage)
          /\ link'.effect.stage = "reported" =>
                link.effect.ret \in {None, link'.effect.ret}]_manualVars

(* "Fresh start returns the exact task's retained packet/reentry" and      *)
(* "pending or interrupted carriage stays visible" (planning-assignment    *)
(* manual.md): with no file torn, entry for the task is never an error.    *)
TaskReadable == Untorn => EntryReadable
=============================================================================
